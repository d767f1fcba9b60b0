---------------------------- MODULE Http2Proofs ----------------------------
(***************************************************************************)
(* What the HTTP/2 connection promises, for any number of streams, fields, *)
(* frames and frames in flight, any windows, table sizes and settings:     *)
(* Http2OutputSound, Http2CreditReturned, Http2TablesAgree and             *)
(* Http2RequestsHandled.                                                   *)
(*                                                                         *)
(* The recursive functions of Http2 (Total, Decode, Encoding, WithFields)  *)
(* are reasoned about through induction over the naturals, which comes     *)
(* from the least-element principle of WellFoundedInduction: NatInd, UpTo, *)
(* StepsAgree and Iterated are its forms without an operator parameter.    *)
(***************************************************************************)
EXTENDS Http2, SequenceTheorems, WellFoundedInduction, TLAPS

-----------------------------------------------------------------------------
(* Induction and recursion over the first naturals.                         *)

(* A set of naturals that is not empty has a least element.                 *)
LEMMA LeastElement ==
    ASSUME NEW T, T \subseteq Nat, T # {}
    PROVE  \E x \in T : \A y \in T : x <= y
  <1>1. PICK R : R = OpToRel(<, Nat)
    OBVIOUS
  <1>2. IsWellFoundedOn(R, Nat)
    BY <1>1, NatLessThanWellFounded, Zenon
  <1>3. \A x, y \in Nat : <<x, y>> \in R <=> x < y
    BY <1>1 DEF OpToRel
  <1>4. PICK x \in T : \A y \in T : ~(<<y, x>> \in R)
    BY <1>2, WFMin
  <1>5. ASSUME NEW y \in T PROVE x <= y
    <2>1. x \in Nat /\ y \in Nat
      OBVIOUS
    <2>2. ~(y < x)
      BY <2>1, <1>3, <1>4
    <2> QED
      BY <2>1, <2>2
  <1> QED
    BY <1>5

(* Induction over the naturals, for the set of those that have a property.  *)
LEMMA NatInd ==
    ASSUME NEW S, 0 \in S, \A n \in Nat : n \in S => n + 1 \in S
    PROVE  Nat \subseteq S
  <1> SUFFICES ASSUME Nat \ S # {} PROVE FALSE
    OBVIOUS
  <1>1. PICK x \in Nat \ S : \A y \in Nat \ S : x <= y
    BY LeastElement
  <1>2. x # 0 /\ x - 1 \in Nat /\ x - 1 \in S
    BY <1>1
  <1> QED
    BY <1>2

(* A set of naturals up to a bound has a greatest element, which is Max.    *)
LEMMA MaxIn ==
    ASSUME NEW T, NEW b \in Nat, T \subseteq 0..b, T # {}
    PROVE  Max(T) \in T /\ \A x \in T : x <= Max(T)
  <1>1. PICK D : D = {b - x : x \in T}
    OBVIOUS
  <1>2. D \subseteq Nat /\ D # {}
    <2>1. \A x \in T : x \in 0..b /\ b - x \in Nat
      OBVIOUS
    <2> QED
      BY <1>1, <2>1
  <1>3. PICK d \in D : \A y \in D : d <= y
    BY <1>2, LeastElement
  <1>4. PICK x \in T : d = b - x
    BY <1>1, <1>3
  <1>5. \A y \in T : x >= y
    BY <1>1, <1>3, <1>4
  <1>6. Max(T) \in T /\ \A y \in T : Max(T) >= y
    BY <1>4, <1>5 DEF Max
  <1> QED
    BY <1>6

(* What holds of 0 and passes from each number to the next, up to n.        *)
LEMMA UpTo ==
    ASSUME NEW n \in Nat, NEW S, 0 \in S, \A k \in 1..n : k - 1 \in S => k \in S
    PROVE  0..n \subseteq S
  <1> DEFINE T == {k \in Nat : k <= n => k \in S}
  <1>1. 0 \in T
    OBVIOUS
  <1>2. ASSUME NEW k \in Nat, k \in T PROVE k + 1 \in T
    <2> SUFFICES ASSUME k + 1 <= n PROVE k + 1 \in S
      OBVIOUS
    <2>1. k + 1 \in 1..n /\ (k + 1) - 1 = k /\ k \in S
      BY <1>2
    <2> QED
      BY <2>1
  <1>3. Nat \subseteq T
    <2> HIDE DEF T
    <2> QED
      BY <1>1, <1>2, NatInd
  <1> QED
    BY <1>3

(* g takes the steps F[1], F[2], ... F[n] from a.                           *)
Iterates(n, A, a, F, g) ==
    /\ g \in [0..n -> A]
    /\ g[0] = a
    /\ \A k \in 1..n : g[k] = F[k][g[k - 1]]

(* Such a function exists.                                                  *)
LEMMA Iterated ==
    ASSUME NEW n \in Nat, NEW A, NEW a \in A, NEW F,
           \A k \in 1..n : \A x \in A : F[k][x] \in A
    PROVE  \E g : Iterates(n, A, a, F, g)
  <1> DEFINE Up(m, g) == g \in [0..m -> A] /\ g[0] = a /\ \A k \in 1..m : g[k] = F[k][g[k - 1]]
             S == {m \in Nat : \E g : Up(m, g)}
  <1>1. 0 \in S
    <2>1. PICK g : g = [i \in 0..0 |-> a]
      OBVIOUS
    <2>2. Up(0, g)
      BY <2>1
    <2> QED
      BY <2>2
  <1>2. ASSUME NEW m \in 1..n, m - 1 \in S PROVE m \in S
    <2>1. PICK g : Up(m - 1, g)
      BY <1>2
    <2>2. PICK h : h = [i \in 0..m |-> IF i = m THEN F[m][g[m - 1]] ELSE g[i]]
      OBVIOUS
    <2>3. g[m - 1] \in A /\ F[m][g[m - 1]] \in A
      <3>1. m - 1 \in 0..(m - 1)
        OBVIOUS
      <3> QED
        BY <3>1, <2>1
    <2>4. h \in [0..m -> A] /\ h[0] = a
      BY <2>1, <2>2, <2>3
    <2>5. ASSUME NEW i \in 1..m PROVE h[i] = F[i][h[i - 1]]
      <3>1. CASE i = m
        BY <3>1, <2>1, <2>2
      <3>2. CASE i # m
        <4>1. i \in 1..(m - 1) /\ i - 1 \in 0..m /\ i - 1 # m
          BY <3>2
        <4> QED
          BY <4>1, <2>1, <2>2
      <3> QED
        BY <3>1, <3>2
    <2>6. Up(m, h)
      BY <2>4, <2>5
    <2> QED
      BY <2>6
  <1>3. 0..n \subseteq S
    <2> HIDE DEF S
    <2> QED
      BY <1>1, <1>2, UpTo
  <1>4. n \in S
    <2> HIDE DEF S
    <2> QED
      BY <1>3
  <1>5. PICK g : Up(n, g)
    BY <1>4
  <1>6. Iterates(n, A, a, F, g)
    BY <1>5 DEF Iterates
  <1> QED
    BY <1>6

(* u and g start alike and take the same steps, up to n.                    *)
SameSteps(n, u, g) ==
    /\ u[0] = g[0]
    /\ \A k \in 1..n : u[k - 1] = g[k - 1] => u[k] = g[k]

(* Such functions are alike.                                                *)
LEMMA StepsAgree ==
    ASSUME NEW n \in Nat, NEW u, NEW g, SameSteps(n, u, g)
    PROVE  \A k \in 0..n : u[k] = g[k]
  <1> DEFINE S == {k \in 0..n : u[k] = g[k]}
  <1>1. 0 \in S
    BY DEF SameSteps
  <1>2. ASSUME NEW k \in 1..n, k - 1 \in S PROVE k \in S
    BY <1>2 DEF SameSteps
  <1>3. 0..n \subseteq S
    <2> HIDE DEF S
    <2> QED
      BY <1>1, <1>2, UpTo
  <1> QED
    BY <1>3

-----------------------------------------------------------------------------
(* Sums.                                                                    *)

(* g[n] is the sum of the first n numbers.                                  *)
Sums(sizes, g) ==
    /\ g \in [0..Len(sizes) -> Nat]
    /\ g[0] = 0
    /\ \A n \in 1..Len(sizes) : g[n] = g[n - 1] + sizes[n]

(* Total is the last of the sums.                                           *)
LEMMA TotalIsSum ==
    ASSUME NEW s \in Seq(Nat), NEW g, Sums(s, g)
    PROVE  Total(s) = g[Len(s)] /\ Total(s) \in Nat
  <1> DEFINE P(u) == u = [n \in 0..Len(s) |-> IF n = 0 THEN 0 ELSE u[n - 1] + s[n]]
  <1>0. Len(s) \in Nat
    OBVIOUS
  <1>1. P(g)
    <2>1. \A n \in 0..Len(s) : g[n] = IF n = 0 THEN 0 ELSE g[n - 1] + s[n]
      <3> TAKE n \in 0..Len(s)
      <3>1. n = 0 \/ n \in 1..Len(s)
        BY <1>0
      <3> QED
        BY <3>1 DEF Sums
    <2> QED
      BY <2>1 DEF Sums
  <1>2. PICK u : u = CHOOSE v : P(v)
    OBVIOUS
  <1>3. P(u)
    BY <1>1, <1>2
  <1>4. Total(s) = u[Len(s)]
    BY <1>2 DEF Total
  <1>5. \A n \in 0..Len(s) : u[n] = IF n = 0 THEN 0 ELSE u[n - 1] + s[n]
    BY <1>3
  <1> HIDE DEF P
  <1>6. u[0] = g[0]
    BY <1>5, <1>0 DEF Sums
  <1>7. ASSUME NEW k \in 1..Len(s), u[k - 1] = g[k - 1] PROVE u[k] = g[k]
    <2>1. k \in 0..Len(s) /\ k # 0
      BY <1>0
    <2> QED
      BY <2>1, <1>5, <1>7 DEF Sums
  <1>8. \A k \in 0..Len(s) : u[k] = g[k]
    <2>1. SameSteps(Len(s), u, g)
      BY <1>6, <1>7 DEF SameSteps
    <2> QED
      BY <2>1, <1>0, StepsAgree
  <1> QED
    BY <1>0, <1>4, <1>8 DEF Sums

(* Every sequence of numbers has its sums.                                  *)
LEMMA SumsExist ==
    ASSUME NEW s \in Seq(Nat)
    PROVE  \E g : Sums(s, g)
  <1>0. Len(s) \in Nat /\ \A k \in 1..Len(s) : s[k] \in Nat
    OBVIOUS
  <1>1. PICK F : F = [k \in 1..Len(s) |-> [x \in Nat |-> x + s[k]]]
    OBVIOUS
  <1>2. ASSUME NEW k \in 1..Len(s), NEW x \in Nat PROVE F[k][x] = x + s[k] /\ F[k][x] \in Nat
    <2>1. PICK n : n = s[k]
      OBVIOUS
    <2>2. PICK add : add = [y \in Nat |-> y + n]
      OBVIOUS
    <2>3. F[k] = add
      BY <1>1, <2>1, <2>2
    <2>4. n \in Nat
      BY <1>0, <2>1
    <2>5. add[x] = x + n
      BY <2>2, <2>4
    <2> QED
      BY <2>1, <2>3, <2>4, <2>5
  <1>3. \A k \in 1..Len(s) : \A x \in Nat : F[k][x] \in Nat
    BY <1>2
  <1>4. PICK g : Iterates(Len(s), Nat, 0, F, g)
    BY <1>0, <1>3, Iterated
  <1>5. ASSUME NEW k \in 1..Len(s) PROVE g[k] = g[k - 1] + s[k]
    <2>1. k - 1 \in 0..Len(s)
      BY <1>0
    <2>2. g[k - 1] \in Nat
      BY <2>1, <1>4 DEF Iterates
    <2> QED
      BY <2>2, <1>2, <1>4 DEF Iterates
  <1> QED
    BY <1>4, <1>5 DEF Sums, Iterates

(* The total is a number.                                                   *)
LEMMA TotalNat ==
    ASSUME NEW s \in Seq(Nat)
    PROVE  Total(s) \in Nat
  BY SumsExist, TotalIsSum

(* Two sequences in a row.                                                  *)
IsJoin(c, s, t) ==
    /\ Len(c) = Len(s) + Len(t)
    /\ \A i \in 1..Len(s) : c[i] = s[i]
    /\ \A i \in 1..Len(t) : c[Len(s) + i] = t[i]

(* Where the elements of two sequences in a row are.                        *)
LEMMA Joined ==
    ASSUME NEW S, NEW s \in Seq(S), NEW t \in Seq(S)
    PROVE  s \o t \in Seq(S) /\ IsJoin(s \o t, s, t)
  BY DEF IsJoin

(* Sequences with the same elements are the same.                           *)
LEMMA SameSeq ==
    ASSUME NEW S, NEW s \in Seq(S), NEW t \in Seq(S), Len(s) = Len(t),
           \A i \in 1..Len(s) : s[i] = t[i]
    PROVE  s = t
  OBVIOUS

(* The sum of numbers in a row is the sum of the sums.                      *)
LEMMA TotalOfJoin ==
    ASSUME NEW s \in Seq(Nat), NEW t \in Seq(Nat), NEW c \in Seq(Nat), IsJoin(c, s, t)
    PROVE  Total(c) = Total(s) + Total(t)
  <1>0. Len(s) \in Nat /\ Len(t) \in Nat /\ Len(c) = Len(s) + Len(t)
    BY DEF IsJoin
  <1>1. PICK g : Sums(s, g)
    BY SumsExist
  <1>2. PICK h : Sums(t, h)
    BY SumsExist
  <1>3. PICK k : Sums(c, k)
    BY SumsExist
  <1>4. \A n \in 0..Len(s) : k[n] = g[n]
    <2>1. k[0] = g[0]
      BY <1>1, <1>3 DEF Sums
    <2>2. ASSUME NEW n \in 1..Len(s), k[n - 1] = g[n - 1] PROVE k[n] = g[n]
      <3>1. n \in 1..Len(c) /\ c[n] = s[n]
        BY <1>0 DEF IsJoin
      <3> QED
        BY <3>1, <2>2, <1>1, <1>3 DEF Sums
    <2>3. Len(s) \in Nat
      BY <1>0
    <2> QED
      <3>1. SameSteps(Len(s), k, g)
        BY <2>1, <2>2 DEF SameSteps
      <3> QED
        BY <3>1, <2>3, StepsAgree
  <1>5. PICK u : u = [n \in 0..Len(t) |-> k[Len(s) + n]]
    OBVIOUS
  <1>6. PICK v : v = [n \in 0..Len(t) |-> g[Len(s)] + h[n]]
    OBVIOUS
  <1>7. g[Len(s)] \in Nat /\ h[0] = 0 /\ g[Len(s)] = k[Len(s)]
    <2>1. Len(s) \in 0..Len(s)
      BY <1>0
    <2> QED
      BY <2>1, <1>1, <1>2, <1>4 DEF Sums
  <1>8. u[0] = v[0]
    BY <1>0, <1>5, <1>6, <1>7
  <1>9. ASSUME NEW n \in 1..Len(t), u[n - 1] = v[n - 1] PROVE u[n] = v[n]
    <2>1. n \in 0..Len(t) /\ n - 1 \in 0..Len(t) /\ Len(s) + n \in 1..Len(c) /\ (Len(s) + n) - 1 = Len(s) + (n - 1)
      BY <1>0
    <2>2. k[Len(s) + n] = k[Len(s) + (n - 1)] + c[Len(s) + n] /\ c[Len(s) + n] = t[n]
      BY <2>1, <1>3 DEF Sums, IsJoin
    <2>3. h[n] = h[n - 1] + t[n] /\ h[n - 1] \in Nat
      BY <2>1, <1>2 DEF Sums
    <2>5. t[n] \in Nat
      OBVIOUS
    <2>4. u[n] = u[n - 1] + t[n] /\ v[n] = g[Len(s)] + (h[n - 1] + t[n]) /\ v[n - 1] = g[Len(s)] + h[n - 1]
      BY <2>1, <2>2, <2>3, <1>5, <1>6
    <2> QED
      BY <2>3, <2>4, <2>5, <1>7, <1>9
  <1>10. u[Len(t)] = v[Len(t)]
    <2>1. Len(t) \in Nat /\ Len(t) \in 0..Len(t)
      BY <1>0
    <2>2. \A n \in 0..Len(t) : u[n] = v[n]
      <3>1. SameSteps(Len(t), u, v)
        BY <1>8, <1>9 DEF SameSteps
      <3> QED
        BY <3>1, <2>1, StepsAgree
    <2> QED
      BY <2>1, <2>2
  <1>11. k[Len(c)] = g[Len(s)] + h[Len(t)]
    BY <1>0, <1>5, <1>6, <1>10
  <1> QED
    BY <1>1, <1>2, <1>3, <1>11, TotalIsSum

(* The sum of no number and of one.                                         *)
LEMMA TotalOfFew ==
    ASSUME NEW s \in Seq(Nat)
    PROVE  /\ Len(s) = 0 => Total(s) = 0
           /\ Len(s) = 1 => Total(s) = s[1]
  <1>1. PICK g : Sums(s, g)
    BY SumsExist
  <1>2. Total(s) = g[Len(s)] /\ g[0] = 0
    BY <1>1, TotalIsSum DEF Sums
  <1>3. ASSUME Len(s) = 1 PROVE g[1] = s[1]
    <2>1. 1 \in 1..Len(s) /\ 1 - 1 = 0
      BY <1>3
    <2>2. s[1] \in Nat
      BY <2>1
    <2> QED
      BY <2>1, <2>2, <1>1 DEF Sums
  <1> QED
    BY <1>2, <1>3

-----------------------------------------------------------------------------
(* The dynamic table.                                                       *)

(* The sizes of the entries of a table.                                     *)
SizesOf(t) == [k \in 1..Len(t) |-> SizeOf[t[k]]]

(* They are numbers.                                                        *)
LEMMA SizesNat ==
    ASSUME NEW t \in Seq(Fields)
    PROVE  /\ SizesOf(t) \in Seq(Nat) /\ Len(SizesOf(t)) = Len(t)
           /\ \A k \in 1..Len(t) : SizesOf(t)[k] = SizeOf[t[k]] /\ SizeOf[t[k]] \in Nat \ {0}
           /\ TableBytes(t) = Total(SizesOf(t)) /\ TableBytes(t) \in Nat
  <1>1. \A k \in 1..Len(t) : SizeOf[t[k]] \in Nat \ {0}
    BY Http2Assumption
  <1>2. SizesOf(t) \in Seq(Nat) /\ Len(SizesOf(t)) = Len(t)
    BY <1>1 DEF SizesOf
  <1>3. TableBytes(t) = Total(SizesOf(t))
    BY DEF TableBytes, SizesOf
  <1> QED
    BY <1>1, <1>2, <1>3, TotalNat DEF SizesOf

(* g[k] is the size of the first k entries.                                 *)
Bytes(t, g) ==
    /\ g \in [0..Len(t) -> Nat]
    /\ g[0] = 0
    /\ \A k \in 1..Len(t) : g[k] = g[k - 1] + SizeOf[t[k]]

(* Sizes of a table and of what is left when its end is cut off.            *)
LEMMA BytesOfCut ==
    ASSUME NEW t \in Seq(Fields), NEW k \in Nat, k <= Len(t), NEW g, Bytes(t, g)
    PROVE  TableBytes(SubSeq(t, 1, k)) = g[k]
  <1>0. Len(t) \in Nat
    OBVIOUS
  <1>1. PICK c : c = SubSeq(t, 1, k)
    OBVIOUS
  <1>2. c \in Seq(Fields) /\ Len(c) = k /\ \A i \in 1..k : c[i] = t[i]
    BY <1>0, <1>1
  <1>3. PICK h : Sums(SizesOf(c), h)
    BY <1>2, SizesNat, SumsExist
  <1>4. TableBytes(c) = h[k]
    BY <1>2, <1>3, SizesNat, TotalIsSum
  <1>5. h[0] = g[0]
    BY <1>3 DEF Sums, Bytes
  <1>6. ASSUME NEW i \in 1..k, h[i - 1] = g[i - 1] PROVE h[i] = g[i]
    <2>1. i \in 1..Len(SizesOf(c)) /\ SizesOf(c)[i] = SizeOf[t[i]]
      BY <1>2, SizesNat
    <2>2. i \in 1..Len(t)
      BY <1>0
    <2> QED
      BY <2>1, <2>2, <1>3, <1>6 DEF Sums, Bytes
  <1>7. \A i \in 0..k : h[i] = g[i]
    <2>1. SameSteps(k, h, g)
      BY <1>5, <1>6 DEF SameSteps
    <2> QED
      BY <2>1, StepsAgree
  <1>8. k \in 0..k
    OBVIOUS
  <1>9. h[k] = g[k]
    BY <1>7, <1>8
  <1> QED
    BY <1>1, <1>4, <1>9

(* Every table has such sizes, and the last is that of the table.           *)
LEMMA BytesExist ==
    ASSUME NEW t \in Seq(Fields)
    PROVE  \E g : Bytes(t, g) /\ g[Len(t)] = TableBytes(t)
  <1>1. PICK g : Sums(SizesOf(t), g)
    BY SizesNat, SumsExist
  <1>2. g[Len(t)] = TableBytes(t)
    BY <1>1, SizesNat, TotalIsSum
  <1>3. Bytes(t, g)
    BY <1>1, SizesNat DEF Sums, Bytes
  <1> QED
    BY <1>2, <1>3

(* s is a prefix of t: what IsPrefix says, element by element.              *)
Pre(s, t) == Len(s) <= Len(t) /\ \A i \in 1..Len(s) : s[i] = t[i]

(* The two say the same.                                                    *)
LEMMA PreIsPrefix ==
    ASSUME NEW S, NEW s \in Seq(S), NEW t \in Seq(S)
    PROVE  Pre(s, t) => IsPrefix(s, t)
  <1> SUFFICES ASSUME Pre(s, t) PROVE SubSeq(s, 1, Len(s)) = SubSeq(t, 1, Len(s))
    BY DEF Pre, IsPrefix
  <1>0. Len(s) \in Nat /\ Len(t) \in Nat /\ Len(s) <= Len(t)
    BY DEF Pre
  <1>1. PICK u : u = SubSeq(s, 1, Len(s))
    OBVIOUS
  <1>2. PICK v : v = SubSeq(t, 1, Len(s))
    OBVIOUS
  <1>3. u \in Seq(S) /\ Len(u) = Len(s) /\ \A i \in 1..Len(s) : u[i] = s[i]
    BY <1>0, <1>1
  <1>4. v \in Seq(S) /\ Len(v) = Len(s) /\ \A i \in 1..Len(s) : v[i] = t[i]
    BY <1>0, <1>2
  <1>5. u = v
    BY <1>3, <1>4, SameSeq DEF Pre
  <1> QED
    BY <1>1, <1>2, <1>5

(* c is the first m entries of t.                                           *)
IsCut(c, t, m) ==
    /\ c \in Seq(Fields)
    /\ m \in 0..Len(t) /\ Len(c) = m
    /\ \A i \in 1..m : c[i] = t[i]

(* The greatest number of entries that fit in n bytes.                      *)
FitsIn(t, n, g, m) ==
    /\ n >= 0 => g[m] <= n
    /\ \A k \in 0..Len(t) : g[k] <= n => k <= m
    /\ m = 0 \/ g[m] <= n

(* Evicted leaves the entries that fit, from the front.                     *)
LEMMA EvictedCut ==
    ASSUME NEW t \in Seq(Fields), NEW n \in Int, NEW g, Bytes(t, g)
    PROVE  \E m : IsCut(Evicted(t, n), t, m) /\ FitsIn(t, n, g, m)
  <1>0. Len(t) \in Nat
    OBVIOUS
  <1>1. PICK T : T = {k \in 0..Len(t) : g[k] <= n} \cup {0}
    OBVIOUS
  <1>2. T \subseteq 0..Len(t) /\ T # {}
    BY <1>0, <1>1
  <1>3. PICK m : m = Max(T)
    OBVIOUS
  <1>4. m \in T /\ (\A k \in T : k <= m) /\ m \in 0..Len(t)
    BY <1>0, <1>2, <1>3, MaxIn
  <1>5. {k \in 0..Len(t) : TableBytes(SubSeq(t, 1, k)) <= n} = {k \in 0..Len(t) : g[k] <= n}
    <2>1. \A k \in 0..Len(t) : TableBytes(SubSeq(t, 1, k)) = g[k]
      <3> TAKE k \in 0..Len(t)
      <3>1. k \in Nat /\ k <= Len(t)
        BY <1>0
      <3> QED
        BY <3>1, BytesOfCut
    <2> QED
      BY <2>1
  <1>6. Evicted(t, n) = SubSeq(t, 1, m)
    BY <1>1, <1>3, <1>5 DEF Evicted
  <1>7. IsCut(SubSeq(t, 1, m), t, m)
    <2>1. m \in Nat /\ m <= Len(t)
      BY <1>0, <1>4
    <2> QED
      BY <2>1, <1>0, <1>4 DEF IsCut
  <1>8. FitsIn(t, n, g, m)
    <2>1. n >= 0 => g[m] <= n
      BY <1>0, <1>1, <1>4 DEF Bytes
    <2>2. \A k \in 0..Len(t) : g[k] <= n => k <= m
      BY <1>1, <1>4
    <2>3. m = 0 \/ g[m] <= n
      BY <1>1, <1>4
    <2> QED
      BY <2>1, <2>2, <2>3 DEF FitsIn
  <1> QED
    BY <1>6, <1>7, <1>8

(* The size of what is left of a table.                                     *)
LEMMA BytesOfIsCut ==
    ASSUME NEW t \in Seq(Fields), NEW g, Bytes(t, g), NEW c, NEW m, IsCut(c, t, m)
    PROVE  TableBytes(c) = g[m]
  <1>0. m \in Nat /\ m <= Len(t) /\ Len(t) \in Nat
    BY DEF IsCut
  <1>1. PICK d : d = SubSeq(t, 1, m)
    OBVIOUS
  <1>2. d \in Seq(Fields) /\ Len(d) = m /\ \A i \in 1..m : d[i] = t[i]
    BY <1>0, <1>1
  <1>3. c = d
    BY <1>2, SameSeq DEF IsCut
  <1> QED
    BY <1>0, <1>1, <1>3, BytesOfCut

(* What Evicted leaves is a table, and within the bytes allowed.            *)
LEMMA EvictedFits ==
    ASSUME NEW t \in Seq(Fields), NEW n \in Int
    PROVE  /\ Evicted(t, n) \in Seq(Fields)
           /\ n >= 0 => TableBytes(Evicted(t, n)) <= n
           /\ n < 0 => Len(Evicted(t, n)) = 0
  <1>1. PICK g : Bytes(t, g)
    BY BytesExist
  <1>2. PICK m : IsCut(Evicted(t, n), t, m) /\ FitsIn(t, n, g, m)
    BY <1>1, EvictedCut
  <1>3. TableBytes(Evicted(t, n)) = g[m]
    BY <1>1, <1>2, BytesOfIsCut
  <1>4. g[m] \in Nat
    BY <1>1, <1>2 DEF IsCut, Bytes
  <1> QED
    BY <1>2, <1>3, <1>4 DEF IsCut, FitsIn

(* Prefixes stay prefixes when the longer table keeps at least as much.     *)
LEMMA EvictedPrefix ==
    ASSUME NEW s \in Seq(Fields), NEW t \in Seq(Fields), Pre(s, t),
           NEW n \in Int, NEW m \in Int, n <= m
    PROVE  Pre(Evicted(s, n), Evicted(t, m))
  <1>0. Len(s) \in Nat /\ Len(t) \in Nat /\ Len(s) <= Len(t)
    BY DEF Pre
  <1>1. PICK g : Bytes(s, g)
    BY BytesExist
  <1>2. PICK h : Bytes(t, h)
    BY BytesExist
  <1>3. \A k \in 0..Len(s) : g[k] = h[k]
    <2>1. g[0] = h[0]
      BY <1>1, <1>2 DEF Bytes
    <2>2. ASSUME NEW k \in 1..Len(s), g[k - 1] = h[k - 1] PROVE g[k] = h[k]
      <3>1. k \in 1..Len(t) /\ s[k] = t[k]
        BY <1>0 DEF Pre
      <3> QED
        BY <3>1, <2>2, <1>1, <1>2 DEF Bytes
    <2>3. Len(s) \in Nat
      BY <1>0
    <2> QED
      <3>1. SameSteps(Len(s), g, h)
        BY <2>1, <2>2 DEF SameSteps
      <3> QED
        BY <3>1, <2>3, StepsAgree
  <1>4. PICK i : IsCut(Evicted(s, n), s, i) /\ FitsIn(s, n, g, i)
    BY <1>1, EvictedCut
  <1>5. PICK j : IsCut(Evicted(t, m), t, j) /\ FitsIn(t, m, h, j)
    BY <1>2, EvictedCut
  <1>6. i \in 0..Len(s) /\ j \in 0..Len(t) /\ i \in 0..Len(t)
    BY <1>0, <1>4, <1>5 DEF IsCut
  <1>7. i <= j
    <2>1. CASE i = 0
      BY <2>1, <1>6, <1>0
    <2>2. CASE i # 0
      <3>1. g[i] <= n /\ g[i] \in Nat /\ g[i] = h[i]
        BY <2>2, <1>1, <1>3, <1>4, <1>6 DEF FitsIn, Bytes
      <3>2. h[i] <= m
        BY <3>1
      <3> QED
        BY <3>2, <1>5, <1>6 DEF FitsIn
    <2> QED
      BY <2>1, <2>2
  <1>8. PICK a : a = Evicted(s, n)
    OBVIOUS
  <1>9. PICK b : b = Evicted(t, m)
    OBVIOUS
  <1>10. Len(a) = i /\ \A k \in 1..i : a[k] = s[k]
    BY <1>4, <1>8 DEF IsCut
  <1>11. Len(b) = j /\ \A k \in 1..j : b[k] = t[k]
    BY <1>5, <1>9 DEF IsCut
  <1>12. \A k \in 1..i : k \in 1..j /\ k \in 1..Len(s)
    BY <1>0, <1>6, <1>7
  <1>13. Pre(a, b)
    BY <1>7, <1>10, <1>11, <1>12 DEF Pre
  <1> QED
    BY <1>8, <1>9, <1>13

(* Making room for an entry and putting it in front, as the decoder does,   *)
(* is putting it in front and keeping what fits, as RFC 7541 says.          *)
LEMMA EvictedFront ==
    ASSUME NEW t \in Seq(Fields), NEW f \in Fields, NEW n \in Nat
    PROVE  /\ SizeOf[f] <= n => Evicted(<<f>> \o t, n) = <<f>> \o Evicted(t, n - SizeOf[f])
           /\ ~(SizeOf[f] <= n) => /\ Evicted(<<f>> \o t, n) = <<>>
                                   /\ Evicted(t, n - SizeOf[f]) = <<>>
  <1>0. Len(t) \in Nat /\ SizeOf[f] \in Nat \ {0}
    BY Http2Assumption
  <1>1. PICK z : z = SizeOf[f] /\ z \in Nat \ {0}
    BY <1>0
  <1>2. PICK one : one = <<f>>
    OBVIOUS
  <1>3. one \in Seq(Fields) /\ Len(one) = 1 /\ one[1] = f
    BY <1>2
  <1>4. PICK c : c = one \o t
    OBVIOUS
  <1>5. c \in Seq(Fields) /\ IsJoin(c, one, t)
    BY <1>3, <1>4, Joined
  <1>6. /\ Len(c) = Len(t) + 1 /\ c[1] = f
        /\ \A k \in 1..Len(t) : c[k + 1] = t[k]
    <2>1. 1 \in 1..Len(one)
      BY <1>3
    <2>2. \A k \in 1..Len(t) : c[1 + k] = t[k] /\ 1 + k = k + 1
      BY <1>3, <1>5 DEF IsJoin
    <2> QED
      BY <2>1, <2>2, <1>0, <1>3, <1>5 DEF IsJoin
  <1>7. PICK g : Bytes(t, g)
    BY BytesExist
  <1>8. PICK h : Bytes(c, h)
    BY <1>5, BytesExist
  <1>9. \A k \in 0..Len(t) : h[k + 1] = z + g[k]
    <2>1. PICK u : u = [k \in 0..Len(t) |-> h[k + 1]]
      OBVIOUS
    <2>2. PICK v : v = [k \in 0..Len(t) |-> z + g[k]]
      OBVIOUS
    <2>3. u[0] = v[0]
      <3>1. 1 \in 1..Len(c) /\ 1 - 1 = 0
        BY <1>0, <1>6
      <3>2. h[1] = h[0] + z /\ h[0] = 0 /\ g[0] = 0
        BY <3>1, <1>1, <1>6, <1>7, <1>8 DEF Bytes
      <3> QED
        BY <3>2, <1>0, <1>1, <2>1, <2>2
    <2>4. ASSUME NEW k \in 1..Len(t), u[k - 1] = v[k - 1] PROVE u[k] = v[k]
      <3>1. /\ k \in 0..Len(t) /\ k - 1 \in 0..Len(t) /\ k + 1 \in 1..Len(c)
            /\ (k + 1) - 1 = k /\ (k - 1) + 1 = k
        BY <1>0, <1>6
      <3>2. h[k + 1] = h[k] + SizeOf[t[k]]
        BY <3>1, <1>6, <1>8 DEF Bytes
      <3>3. g[k] = g[k - 1] + SizeOf[t[k]] /\ g[k - 1] \in Nat /\ SizeOf[t[k]] \in Nat
        BY <3>1, <1>7, SizesNat DEF Bytes
      <3>4. u[k] = h[k + 1] /\ u[k - 1] = h[k] /\ v[k] = z + g[k] /\ v[k - 1] = z + g[k - 1]
        BY <3>1, <2>1, <2>2
      <3> QED
        BY <3>2, <3>3, <3>4, <2>4, <1>1
    <2>5. \A k \in 0..Len(t) : u[k] = v[k]
      <3>1. Len(t) \in Nat
        BY <1>0
      <3> QED
        <4>1. SameSteps(Len(t), u, v)
          BY <2>3, <2>4 DEF SameSteps
        <4> QED
          BY <4>1, <3>1, StepsAgree
    <2> QED
      BY <2>1, <2>2, <2>5
  <1>10. PICK m : IsCut(Evicted(c, n), c, m) /\ FitsIn(c, n, h, m)
    BY <1>5, <1>8, EvictedCut
  <1>11. n - z \in Int
    BY <1>1
  <1>12. PICK j : IsCut(Evicted(t, n - z), t, j) /\ FitsIn(t, n - z, g, j)
    BY <1>7, <1>11, EvictedCut
  <1>13. m \in 0..Len(c) /\ j \in 0..Len(t)
    BY <1>10, <1>12 DEF IsCut
  <1>14. \A k \in 0..Len(t) : k + 1 \in 0..Len(c) /\ h[k + 1] = z + g[k] /\ g[k] \in Nat
    BY <1>0, <1>6, <1>7, <1>9 DEF Bytes
  <1>15. ASSUME z <= n PROVE m = j + 1
    <2>1. g[j] <= n - z
      BY <1>1, <1>12, <1>15 DEF FitsIn
    <2>2. j + 1 <= m
      <3>1. h[j + 1] <= n /\ j + 1 \in 0..Len(c)
        BY <2>1, <1>1, <1>13, <1>14
      <3> QED
        BY <3>1, <1>10 DEF FitsIn
    <2>3. m - 1 \in 0..Len(t) /\ (m - 1) + 1 = m /\ m # 0
      BY <2>2, <1>0, <1>6, <1>13
    <2>4. h[m] = z + g[m - 1] /\ g[m - 1] \in Nat /\ h[m] <= n
      BY <2>3, <1>10, <1>14 DEF FitsIn
    <2>5. m - 1 <= j
      <3>1. g[m - 1] <= n - z
        BY <2>4, <1>1
      <3> QED
        BY <3>1, <2>3, <1>12 DEF FitsIn
    <2> QED
      BY <2>2, <2>5, <1>13, <1>0
  <1>16. ASSUME ~(z <= n) PROVE m = 0 /\ j = 0
    <2>1. ASSUME m # 0 PROVE FALSE
      <3>1. m - 1 \in 0..Len(t) /\ (m - 1) + 1 = m
        BY <2>1, <1>0, <1>6, <1>13
      <3>2. h[m] = z + g[m - 1] /\ g[m - 1] \in Nat /\ h[m] <= n
        BY <2>1, <3>1, <1>10, <1>14 DEF FitsIn
      <3> QED
        BY <3>2, <1>1, <1>16
    <2>2. ASSUME j # 0 PROVE FALSE
      <3>1. g[j] <= n - z /\ g[j] \in Nat
        BY <2>2, <1>12, <1>13, <1>14 DEF FitsIn
      <3> QED
        BY <3>1, <1>1, <1>16
    <2> QED
      BY <2>1, <2>2
  <1>17. ASSUME z <= n PROVE Evicted(c, n) = one \o Evicted(t, n - z)
    <2>1. PICK a : a = Evicted(c, n)
      OBVIOUS
    <2>2. PICK b : b = Evicted(t, n - z)
      OBVIOUS
    <2>3. a \in Seq(Fields) /\ Len(a) = j + 1 /\ \A k \in 1..(j + 1) : a[k] = c[k]
      BY <2>1, <1>10, <1>15, <1>17 DEF IsCut
    <2>4. b \in Seq(Fields) /\ Len(b) = j /\ \A k \in 1..j : b[k] = t[k]
      BY <2>2, <1>12 DEF IsCut
    <2>5. PICK d : d = one \o b
      OBVIOUS
    <2>6. d \in Seq(Fields) /\ IsJoin(d, one, b)
      BY <2>4, <2>5, <1>3, Joined
    <2>7. Len(d) = j + 1
      BY <2>4, <2>6, <1>3, <1>13 DEF IsJoin
    <2>8. ASSUME NEW k \in 1..(j + 1) PROVE a[k] = d[k]
      <3>1. CASE k = 1
        <4>1. 1 \in 1..Len(one)
          BY <1>3
        <4>2. d[1] = f
          BY <4>1, <2>6, <1>3 DEF IsJoin
        <4> QED
          BY <4>2, <3>1, <2>3, <1>6
      <3>2. CASE k # 1
        <4>1. k - 1 \in 1..j /\ k - 1 \in 1..Len(t) /\ 1 + (k - 1) = k /\ (k - 1) + 1 = k
          BY <3>2, <1>0, <1>13
        <4>2. PICK i : i = k - 1
          OBVIOUS
        <4>3. i \in 1..j /\ i \in 1..Len(t) /\ 1 + i = k /\ i + 1 = k
          BY <4>1, <4>2
        <4>4. d[1 + i] = b[i]
          BY <4>3, <2>4, <2>6, <1>3 DEF IsJoin
        <4>5. c[i + 1] = t[i]
          BY <4>3, <1>6
        <4>6. b[i] = t[i] /\ a[k] = c[k]
          BY <4>3, <2>3, <2>4
        <4> QED
          BY <4>3, <4>4, <4>5, <4>6
      <3> QED
        BY <3>1, <3>2
    <2>9. a = d
      BY <2>3, <2>6, <2>7, <2>8, SameSeq
    <2> QED
      BY <2>1, <2>2, <2>5, <2>9
  <1>18. ASSUME ~(z <= n) PROVE Evicted(c, n) = <<>> /\ Evicted(t, n - z) = <<>>
    <2>1. Evicted(c, n) \in Seq(Fields) /\ Len(Evicted(c, n)) = 0
      BY <1>10, <1>16, <1>18 DEF IsCut
    <2>2. Evicted(t, n - z) \in Seq(Fields) /\ Len(Evicted(t, n - z)) = 0
      BY <1>12, <1>16, <1>18 DEF IsCut
    <2>3. \A s \in Seq(Fields) : Len(s) = 0 => s = <<>>
      OBVIOUS
    <2> QED
      BY <2>1, <2>2, <2>3
  <1> QED
    BY <1>1, <1>2, <1>4, <1>17, <1>18

-----------------------------------------------------------------------------
(* Header blocks.                                                           *)

(* A table within its size, the states of a decoder and of an encoder in    *)
(* the middle of a block.                                                   *)
Tables == [table : Seq(Fields), max : Nat]
SoundTables == {d \in Tables : TableBytes(d.table) <= d.max}
DStates == [ok : BOOLEAN, d : SoundTables, fields : Seq(Fields)]
EStates == [table : Seq(Fields), max : Nat, fields : Seq(Fields)]

(* A new entry keeps the table within its size: it is the table RFC 7541    *)
(* describes.                                                               *)
LEMMA AddSound ==
    ASSUME NEW d \in SoundTables, NEW f \in Fields
    PROVE  /\ AddToDynamicTable(d, f) \in SoundTables
           /\ AddToDynamicTable(d, f).max = d.max
           /\ AddToDynamicTable(d, f).table = Evicted(<<f>> \o d.table, d.max)
  <1>1. d \in Tables /\ d.table \in Seq(Fields) /\ d.max \in Nat
    BY DEF SoundTables, Tables
  <1>2. PICK t : t = Evicted(<<f>> \o d.table, d.max)
    OBVIOUS
  <1>3. <<f>> \o d.table \in Seq(Fields) /\ d.max \in Int /\ d.max >= 0
    BY <1>1
  <1>4. t \in Seq(Fields) /\ TableBytes(t) <= d.max
    BY <1>2, <1>3, EvictedFits
  <1>5. PICK a : a = AddToDynamicTable(d, f)
    OBVIOUS
  <1>6. t = IF SizeOf[f] <= d.max THEN <<f>> \o Evicted(d.table, d.max - SizeOf[f])
                                  ELSE Evicted(d.table, d.max - SizeOf[f])
    BY <1>1, <1>2, EvictedFront
  <1>7. a = [d EXCEPT !.table = t]
    BY <1>5, <1>6 DEF AddToDynamicTable
  <1>8. a \in Tables /\ a.table = t /\ a.max = d.max
    BY <1>1, <1>4, <1>7 DEF Tables
  <1>9. a \in SoundTables
    BY <1>4, <1>8 DEF SoundTables
  <1> QED
    BY <1>2, <1>5, <1>8, <1>9

(* So does a new size.                                                      *)
LEMMA ResizeSound ==
    ASSUME NEW d \in SoundTables, NEW n \in Nat
    PROVE  /\ SetMaxTableSize(d, n) \in SoundTables
           /\ SetMaxTableSize(d, n).max = n
           /\ SetMaxTableSize(d, n).table = Evicted(d.table, n)
  <1>1. d.table \in Seq(Fields)
    BY DEF SoundTables, Tables
  <1>2. PICK t : t = Evicted(d.table, n)
    OBVIOUS
  <1>3. n \in Int /\ n >= 0
    OBVIOUS
  <1>4. t \in Seq(Fields) /\ TableBytes(t) <= n
    BY <1>1, <1>2, <1>3, EvictedFits
  <1>5. PICK a : a = SetMaxTableSize(d, n)
    OBVIOUS
  <1>6. a = [table |-> t, max |-> n]
    BY <1>2, <1>5 DEF SetMaxTableSize
  <1>7. a \in Tables /\ a.table = t /\ a.max = n
    BY <1>4, <1>6 DEF Tables
  <1>8. a \in SoundTables
    BY <1>4, <1>7 DEF SoundTables
  <1> QED
    BY <1>2, <1>5, <1>7, <1>8

(* The instructions.                                                        *)
LEMMA InstructionKinds ==
    ASSUME NEW i \in Instructions
    PROVE  \/ i.op = "index" /\ i.arg \in Nat \ {0}
           \/ i.op = "literal" /\ i.arg \in Fields
           \/ i.op = "plain" /\ i.arg \in Fields
           \/ i.op = "resize" /\ i.arg \in Nat
  BY Http2Assumption DEF Instructions

(* What each does to a decoder.                                             *)
LEMMA DecodeOneCases ==
    ASSUME NEW r \in DStates, NEW i \in Instructions
    PROVE  /\ DecodeOne(r, i) \in DStates
           /\ r.ok =>
                /\ i.op = "index" /\ i.arg <= Len(r.d.table) =>
                     /\ DecodeOne(r, i).ok /\ DecodeOne(r, i).d = r.d
                     /\ DecodeOne(r, i).fields = Append(r.fields, r.d.table[i.arg])
                /\ i.op = "literal" =>
                     /\ DecodeOne(r, i).ok /\ DecodeOne(r, i).d = AddToDynamicTable(r.d, i.arg)
                     /\ DecodeOne(r, i).fields = Append(r.fields, i.arg)
                /\ i.op = "plain" =>
                     /\ DecodeOne(r, i).ok /\ DecodeOne(r, i).d = r.d
                     /\ DecodeOne(r, i).fields = Append(r.fields, i.arg)
                /\ i.op = "resize" =>
                     /\ DecodeOne(r, i).ok /\ DecodeOne(r, i).d = SetMaxTableSize(r.d, i.arg)
                     /\ DecodeOne(r, i).fields = r.fields
  <1>1. r.d \in SoundTables /\ r.fields \in Seq(Fields) /\ r.ok \in BOOLEAN
    BY DEF DStates
  <1>2. r.d.table \in Seq(Fields)
    BY <1>1 DEF SoundTables, Tables
  <1>3. PICK e : e = DecodeOne(r, i)
    OBVIOUS
  <1>4. CASE ~r.ok
    BY <1>4 DEF DecodeOne
  <1>5. CASE r.ok /\ i.op = "index" /\ i.arg \in Nat \ {0}
    <2>1. CASE i.arg <= Len(r.d.table)
      <3>1. i.arg \in 1..Len(r.d.table)
        BY <1>5, <2>1, <1>2
      <3>2. r.d.table[i.arg] \in Fields
        BY <3>1, <1>2
      <3>3. e = [r EXCEPT !.fields = Append(@, r.d.table[i.arg])]
        BY <1>3, <1>5, <2>1 DEF DecodeOne
      <3>4. Append(r.fields, r.d.table[i.arg]) \in Seq(Fields)
        BY <3>2, <1>1
      <3>5. e \in DStates /\ e.ok /\ e.d = r.d /\ e.fields = Append(r.fields, r.d.table[i.arg])
        BY <3>3, <3>4, <1>1, <1>5 DEF DStates
      <3> QED
        BY <3>5, <1>3, <1>5
    <2>2. CASE ~(i.arg <= Len(r.d.table))
      <3>1. e = [r EXCEPT !.ok = FALSE]
        BY <1>3, <1>5, <2>2 DEF DecodeOne
      <3>2. e \in DStates
        BY <3>1 DEF DStates
      <3> QED
        BY <3>2, <2>2, <1>3, <1>5
    <2> QED
      BY <2>1, <2>2
  <1>6. CASE r.ok /\ i.op = "literal" /\ i.arg \in Fields
    <2>1. e = [r EXCEPT !.fields = Append(@, i.arg), !.d = AddToDynamicTable(@, i.arg)]
      BY <1>3, <1>6 DEF DecodeOne
    <2>2. AddToDynamicTable(r.d, i.arg) \in SoundTables
      BY <1>1, <1>6, AddSound
    <2>3. Append(r.fields, i.arg) \in Seq(Fields)
      BY <1>1, <1>6
    <2>4. e \in DStates /\ e.ok /\ e.d = AddToDynamicTable(r.d, i.arg) /\ e.fields = Append(r.fields, i.arg)
      BY <2>1, <2>2, <2>3, <1>1, <1>6 DEF DStates
    <2> QED
      BY <2>4, <1>3, <1>6
  <1>7. CASE r.ok /\ i.op = "plain" /\ i.arg \in Fields
    <2>1. e = [r EXCEPT !.fields = Append(@, i.arg)]
      BY <1>3, <1>7 DEF DecodeOne
    <2>2. Append(r.fields, i.arg) \in Seq(Fields)
      BY <1>1, <1>7
    <2>3. e \in DStates /\ e.ok /\ e.d = r.d /\ e.fields = Append(r.fields, i.arg)
      BY <2>1, <2>2, <1>1, <1>7 DEF DStates
    <2> QED
      BY <2>3, <1>3, <1>7
  <1>8. CASE r.ok /\ i.op = "resize" /\ i.arg \in Nat
    <2>1. e = [r EXCEPT !.d = SetMaxTableSize(@, i.arg)]
      BY <1>3, <1>8 DEF DecodeOne
    <2>2. SetMaxTableSize(r.d, i.arg) \in SoundTables
      BY <1>1, <1>8, ResizeSound
    <2>3. e \in DStates /\ e.ok /\ e.d = SetMaxTableSize(r.d, i.arg) /\ e.fields = r.fields
      BY <2>1, <2>2, <1>1, <1>8 DEF DStates
    <2> QED
      BY <2>3, <1>3, <1>8
  <1> QED
    BY <1>1, <1>4, <1>5, <1>6, <1>7, <1>8, InstructionKinds

(* The states of a decoder through a block.                                 *)
Decodes(d, block, g) ==
    /\ g \in [0..Len(block) -> DStates]
    /\ g[0] = [ok |-> TRUE, d |-> d, fields |-> <<>>]
    /\ \A k \in 1..Len(block) : g[k] = DecodeOne(g[k - 1], block[k])

(* They exist, and Decode returns the last of them.                         *)
LEMMA DecodeSteps ==
    ASSUME NEW d \in SoundTables, NEW block \in Seq(Instructions)
    PROVE  \E g : Decodes(d, block, g) /\ Decode(d, block) = g[Len(block)]
  <1> DEFINE start == [ok |-> TRUE, d |-> d, fields |-> <<>>]
             P(u) == u = [k \in 0..Len(block) |-> IF k = 0 THEN start ELSE DecodeOne(u[k - 1], block[k])]
  <1>0. Len(block) \in Nat /\ \A k \in 1..Len(block) : block[k] \in Instructions
    OBVIOUS
  <1>1. start \in DStates
    BY DEF DStates
  <1>2. PICK F : F = [k \in 1..Len(block) |-> [r \in DStates |-> DecodeOne(r, block[k])]]
    OBVIOUS
  <1>3. ASSUME NEW k \in 1..Len(block), NEW r \in DStates
        PROVE  F[k][r] = DecodeOne(r, block[k]) /\ F[k][r] \in DStates
    <2>1. PICK G : G = [x \in DStates |-> DecodeOne(x, block[k])]
      OBVIOUS
    <2>2. F[k] = G
      BY <1>2, <2>1
    <2>3. G[r] = DecodeOne(r, block[k])
      BY <2>1
    <2> QED
      BY <2>2, <2>3, <1>0, DecodeOneCases
  <1>4. \A k \in 1..Len(block) : \A r \in DStates : F[k][r] \in DStates
    BY <1>3
  <1> HIDE DEF start
  <1>5. PICK g : Iterates(Len(block), DStates, start, F, g)
    BY <1>0, <1>1, <1>4, Iterated
  <1>6. ASSUME NEW k \in 1..Len(block) PROVE g[k] = DecodeOne(g[k - 1], block[k])
    <2>1. k - 1 \in 0..Len(block)
      BY <1>0
    <2>2. g[k - 1] \in DStates
      BY <2>1, <1>5 DEF Iterates
    <2> QED
      BY <2>2, <1>3, <1>5 DEF Iterates
  <1>7. Decodes(d, block, g)
    BY <1>5, <1>6 DEF Decodes, Iterates, start
  <1>8. P(g)
    <2>1. \A k \in 0..Len(block) : g[k] = IF k = 0 THEN start ELSE DecodeOne(g[k - 1], block[k])
      <3> TAKE k \in 0..Len(block)
      <3>1. k = 0 \/ k \in 1..Len(block)
        BY <1>0
      <3> QED
        BY <3>1, <1>5, <1>6 DEF Iterates
    <2> QED
      BY <2>1, <1>5 DEF Iterates
  <1>9. PICK u : u = CHOOSE v : P(v)
    OBVIOUS
  <1>10. P(u)
    BY <1>8, <1>9
  <1>11. Decode(d, block) = u[Len(block)]
    BY <1>9 DEF Decode, start
  <1>12. \A k \in 0..Len(block) : u[k] = IF k = 0 THEN start ELSE DecodeOne(u[k - 1], block[k])
    BY <1>10
  <1> HIDE DEF P
  <1>13. u[0] = g[0]
    BY <1>0, <1>5, <1>12 DEF Iterates
  <1>14. ASSUME NEW k \in 1..Len(block), u[k - 1] = g[k - 1] PROVE u[k] = g[k]
    <2>1. k \in 0..Len(block) /\ k # 0
      BY <1>0
    <2> QED
      BY <2>1, <1>6, <1>12, <1>14
  <1>15. Len(block) \in Nat
    BY <1>0
  <1>16. \A k \in 0..Len(block) : u[k] = g[k]
    <2>1. SameSteps(Len(block), u, g)
      BY <1>13, <1>14 DEF SameSteps
    <2> QED
      BY <2>1, <1>15, StepsAgree
  <1>17. Decode(d, block) = g[Len(block)]
    BY <1>11, <1>15, <1>16
  <1> QED
    BY <1>7, <1>17

(* The states of an encoder through a block.                                *)
LEMMA EncodingSteps ==
    ASSUME NEW table, NEW max, NEW block \in Seq(Instructions)
    PROVE  /\ Encoding(table, max, block)[0] = [table |-> table, max |-> max, fields |-> <<>>]
           /\ \A k \in 1..Len(block) :
                 Encoding(table, max, block)[k] = EncodeOne(Encoding(table, max, block)[k - 1], block[k])
  <1> DEFINE start == [table |-> table, max |-> max, fields |-> <<>>]
             P(u) == u = [k \in 0..Len(block) |-> IF k = 0 THEN start ELSE EncodeOne(u[k - 1], block[k])]
             Up(m, g) == /\ g = [k \in 0..m |-> g[k]] /\ g[0] = start
                         /\ \A k \in 1..m : g[k] = EncodeOne(g[k - 1], block[k])
             S == {m \in Nat : \E g : Up(m, g)}
  <1>0. Len(block) \in Nat
    OBVIOUS
  <1> HIDE DEF start
  <1>1. 0 \in S
    <2>1. PICK g : g = [i \in 0..0 |-> start]
      OBVIOUS
    <2>2. Up(0, g)
      BY <2>1
    <2> QED
      BY <2>2
  <1>2. ASSUME NEW m \in 1..Len(block), m - 1 \in S PROVE m \in S
    <2>1. PICK g : Up(m - 1, g)
      BY <1>2
    <2>2. PICK e : e = EncodeOne(g[m - 1], block[m])
      OBVIOUS
    <2>3. PICK h : h = [i \in 0..m |-> IF i = m THEN e ELSE g[i]]
      OBVIOUS
    <2>4. h[0] = start /\ h = [i \in 0..m |-> h[i]]
      BY <2>1, <2>3
    <2>5. ASSUME NEW i \in 1..m PROVE h[i] = EncodeOne(h[i - 1], block[i])
      <3>1. CASE i = m
        <4>1. i - 1 \in 0..m /\ i - 1 # m /\ i \in 0..m
          BY <3>1
        <4>2. h[i - 1] = g[m - 1] /\ h[i] = e
          BY <3>1, <4>1, <2>3
        <4> QED
          BY <3>1, <4>2, <2>2
      <3>2. CASE i # m
        <4>1. i \in 1..(m - 1) /\ i - 1 \in 0..m /\ i - 1 # m /\ i \in 0..m
          BY <3>2
        <4>2. h[i - 1] = g[i - 1] /\ h[i] = g[i]
          BY <3>2, <4>1, <2>3
        <4> QED
          BY <4>1, <4>2, <2>1
      <3> QED
        BY <3>1, <3>2
    <2>6. Up(m, h)
      BY <2>4, <2>5
    <2>7. m \in Nat
      OBVIOUS
    <2> HIDE DEF Up
    <2> QED
      BY <2>6, <2>7
  <1>3. Len(block) \in S
    <2> HIDE DEF S
    <2>1. 0..Len(block) \subseteq S
      BY <1>0, <1>1, <1>2, UpTo
    <2> QED
      BY <2>1, <1>0
  <1>4. PICK g : Up(Len(block), g)
    BY <1>3
  <1>5. P(g)
    <2>1. \A k \in 0..Len(block) : g[k] = IF k = 0 THEN start ELSE EncodeOne(g[k - 1], block[k])
      <3> TAKE k \in 0..Len(block)
      <3>1. k = 0 \/ k \in 1..Len(block)
        BY <1>0
      <3> QED
        BY <3>1, <1>4
    <2>2. g = [k \in 0..Len(block) |-> g[k]]
      BY <1>4
    <2>3. PICK h : h = [k \in 0..Len(block) |-> IF k = 0 THEN start ELSE EncodeOne(g[k - 1], block[k])]
      OBVIOUS
    <2>4. g = h
      BY <2>1, <2>2, <2>3
    <2> QED
      BY <2>3, <2>4
  <1>6. PICK u : u = CHOOSE v : P(v)
    OBVIOUS
  <1>7. P(u)
    BY <1>5, <1>6
  <1>8. Encoding(table, max, block) = u
    BY <1>6 DEF Encoding, start
  <1>9. \A k \in 0..Len(block) : u[k] = IF k = 0 THEN start ELSE EncodeOne(u[k - 1], block[k])
    BY <1>7
  <1> HIDE DEF P
  <1>10. u[0] = start
    BY <1>0, <1>9
  <1>11. ASSUME NEW k \in 1..Len(block) PROVE u[k] = EncodeOne(u[k - 1], block[k])
    <2>1. k \in 0..Len(block) /\ k # 0
      BY <1>0
    <2> QED
      BY <2>1, <1>9
  <1> QED
    BY <1>8, <1>10, <1>11 DEF start

(* A decoder that follows an encoder: its table is the encoder's or longer. *)
Follower(e, d) ==
    /\ e.table \in Seq(Fields) /\ e.max \in Nat /\ TableBytes(e.table) <= e.max
    /\ d \in SoundTables
    /\ Pre(e.table, d.table) /\ e.max <= d.max

(* Decoder and encoder in step, in the middle of a block.                   *)
InStep(e, r) ==
    /\ e \in EStates /\ r \in DStates
    /\ Follower(e, r.d) /\ r.ok /\ r.fields = e.fields

(* An entry in front of a prefix.                                           *)
LEMMA PreFront ==
    ASSUME NEW s \in Seq(Fields), NEW t \in Seq(Fields), NEW f \in Fields, Pre(s, t)
    PROVE  Pre(<<f>> \o s, <<f>> \o t)
  <1>0. Len(s) \in Nat /\ Len(t) \in Nat /\ Len(s) <= Len(t)
    BY DEF Pre
  <1>1. PICK one : one = <<f>>
    OBVIOUS
  <1>2. one \in Seq(Fields) /\ Len(one) = 1 /\ one[1] = f
    BY <1>1
  <1>3. PICK a : a = one \o s
    OBVIOUS
  <1>4. PICK b : b = one \o t
    OBVIOUS
  <1>5. IsJoin(a, one, s) /\ IsJoin(b, one, t)
    BY <1>2, <1>3, <1>4, Joined
  <1>6. ASSUME NEW k \in 1..Len(a) PROVE a[k] = b[k]
    <2>1. CASE k = 1
      <3>1. 1 \in 1..Len(one)
        BY <1>2
      <3> QED
        BY <2>1, <3>1, <1>5 DEF IsJoin
    <2>2. CASE k # 1
      <3>1. k - 1 \in 1..Len(s) /\ k - 1 \in 1..Len(t) /\ 1 + (k - 1) = k
        BY <2>2, <1>0, <1>2, <1>5 DEF IsJoin
      <3>2. PICK i : i = k - 1
        OBVIOUS
      <3>3. a[1 + i] = s[i] /\ b[1 + i] = t[i] /\ s[i] = t[i]
        BY <3>1, <3>2, <1>2, <1>5 DEF IsJoin, Pre
      <3> QED
        BY <3>1, <3>2, <3>3
    <2> QED
      BY <2>1, <2>2
  <1>7. Len(a) <= Len(b)
    BY <1>0, <1>2, <1>5 DEF IsJoin
  <1> QED
    BY <1>1, <1>3, <1>4, <1>6, <1>7 DEF Pre

(* One instruction keeps them in step.                                      *)
LEMMA OneInStep ==
    ASSUME NEW e, NEW r, InStep(e, r), NEW i \in Instructions,
           i.op = "index" => i.arg <= Len(e.table)
    PROVE  InStep(EncodeOne(e, i), DecodeOne(r, i))
  <1>1. /\ e \in EStates /\ e.table \in Seq(Fields) /\ e.max \in Nat /\ e.fields \in Seq(Fields)
        /\ TableBytes(e.table) <= e.max
        /\ r \in DStates /\ r.ok /\ r.fields = e.fields /\ r.d \in SoundTables
        /\ Pre(e.table, r.d.table) /\ e.max <= r.d.max
    BY DEF InStep, Follower, EStates
  <1>2. r.d.table \in Seq(Fields) /\ r.d.max \in Nat
    BY <1>1 DEF SoundTables, Tables
  <1>3. PICK a : a = EncodeOne(e, i)
    OBVIOUS
  <1>4. PICK b : b = DecodeOne(r, i)
    OBVIOUS
  <1>5. b \in DStates
    BY <1>1, <1>4, DecodeOneCases
  <1>6. CASE i.op = "index" /\ i.arg \in Nat \ {0}
    <2>1. i.arg \in 1..Len(e.table) /\ i.arg <= Len(r.d.table)
      BY <1>1, <1>2, <1>6 DEF Pre
    <2>2. e.table[i.arg] = r.d.table[i.arg] /\ e.table[i.arg] \in Fields
      BY <2>1, <1>1 DEF Pre
    <2>3. a = [e EXCEPT !.fields = Append(@, e.table[i.arg])]
      BY <1>3, <1>6 DEF EncodeOne
    <2>4. Append(e.fields, e.table[i.arg]) \in Seq(Fields)
      BY <2>2, <1>1
    <2>5. a \in EStates /\ a.table = e.table /\ a.max = e.max /\ a.fields = Append(e.fields, e.table[i.arg])
      BY <2>3, <2>4, <1>1 DEF EStates
    <2>6. b.ok /\ b.d = r.d /\ b.fields = Append(r.fields, r.d.table[i.arg])
      BY <2>1, <1>1, <1>4, <1>6, DecodeOneCases
    <2> QED
      BY <2>2, <2>5, <2>6, <1>1, <1>3, <1>4, <1>5 DEF InStep, Follower
  <1>7. CASE i.op = "literal" /\ i.arg \in Fields
    <2>1. PICK t : t = Evicted(<<i.arg>> \o e.table, e.max)
      OBVIOUS
    <2>2. <<i.arg>> \o e.table \in Seq(Fields) /\ <<i.arg>> \o r.d.table \in Seq(Fields)
      BY <1>1, <1>2, <1>7
    <2>3. e.max \in Int /\ e.max >= 0 /\ r.d.max \in Int
      BY <1>1, <1>2
    <2>4. t \in Seq(Fields) /\ TableBytes(t) <= e.max
      BY <2>1, <2>2, <2>3, EvictedFits
    <2>5. a = [e EXCEPT !.fields = Append(@, i.arg), !.table = t]
      BY <1>3, <1>7, <2>1 DEF EncodeOne
    <2>6. Append(e.fields, i.arg) \in Seq(Fields)
      BY <1>1, <1>7
    <2>7. a \in EStates /\ a.table = t /\ a.max = e.max /\ a.fields = Append(e.fields, i.arg)
      BY <2>4, <2>5, <2>6, <1>1 DEF EStates
    <2>8. b.ok /\ b.d = AddToDynamicTable(r.d, i.arg) /\ b.fields = Append(r.fields, i.arg)
      BY <1>1, <1>4, <1>7, DecodeOneCases
    <2>9. b.d \in SoundTables /\ b.d.max = r.d.max /\ b.d.table = Evicted(<<i.arg>> \o r.d.table, r.d.max)
      BY <2>8, <1>1, <1>7, AddSound
    <2>10. Pre(<<i.arg>> \o e.table, <<i.arg>> \o r.d.table)
      BY <1>1, <1>2, <1>7, PreFront
    <2>11. Pre(t, b.d.table)
      BY <2>1, <2>2, <2>3, <2>9, <2>10, <1>1, EvictedPrefix
    <2> QED
      BY <2>4, <2>7, <2>8, <2>9, <2>11, <1>1, <1>3, <1>4, <1>5 DEF InStep, Follower
  <1>8. CASE i.op = "plain" /\ i.arg \in Fields
    <2>1. a = [e EXCEPT !.fields = Append(@, i.arg)]
      BY <1>3, <1>8 DEF EncodeOne
    <2>2. Append(e.fields, i.arg) \in Seq(Fields)
      BY <1>1, <1>8
    <2>3. a \in EStates /\ a.table = e.table /\ a.max = e.max /\ a.fields = Append(e.fields, i.arg)
      BY <2>1, <2>2, <1>1 DEF EStates
    <2>4. b.ok /\ b.d = r.d /\ b.fields = Append(r.fields, i.arg)
      BY <1>1, <1>4, <1>8, DecodeOneCases
    <2> QED
      BY <2>3, <2>4, <1>1, <1>3, <1>4, <1>5 DEF InStep, Follower
  <1>9. CASE i.op = "resize" /\ i.arg \in Nat
    <2>1. PICK t : t = Evicted(e.table, i.arg)
      OBVIOUS
    <2>2. i.arg \in Int /\ i.arg >= 0
      BY <1>9
    <2>3. t \in Seq(Fields) /\ TableBytes(t) <= i.arg
      BY <2>1, <2>2, <1>1, EvictedFits
    <2>4. a = [e EXCEPT !.table = t, !.max = i.arg]
      BY <1>3, <1>9, <2>1 DEF EncodeOne
    <2>5. a \in EStates /\ a.table = t /\ a.max = i.arg /\ a.fields = e.fields
      BY <2>3, <2>4, <1>1, <1>9 DEF EStates
    <2>6. b.ok /\ b.d = SetMaxTableSize(r.d, i.arg) /\ b.fields = r.fields
      BY <1>1, <1>4, <1>9, DecodeOneCases
    <2>7. b.d \in SoundTables /\ b.d.max = i.arg /\ b.d.table = Evicted(r.d.table, i.arg)
      BY <2>6, <1>1, <1>9, ResizeSound
    <2>8. Pre(t, b.d.table)
      BY <2>1, <2>2, <2>7, <1>1, <1>2, EvictedPrefix
    <2> QED
      BY <2>2, <2>3, <2>5, <2>6, <2>7, <2>8, <1>1, <1>3, <1>4, <1>5, <1>9 DEF InStep, Follower
  <1> QED
    BY <1>6, <1>7, <1>8, <1>9, InstructionKinds

(* A decoder that follows the encoder decodes a block to the fields that    *)
(* were encoded, and follows the encoder afterwards.                        *)
LEMMA BlockInStep ==
    ASSUME NEW e, NEW d, Follower(e, d), NEW block \in Seq(Instructions),
           Encodable(e.table, e.max, block)
    PROVE  InStep(Encoding(e.table, e.max, block)[Len(block)], Decode(d, block))
  <1>0. Len(block) \in Nat /\ \A k \in 1..Len(block) : block[k] \in Instructions
    OBVIOUS
  <1>1. d \in SoundTables
    BY DEF Follower
  <1>2. PICK g : Decodes(d, block, g) /\ Decode(d, block) = g[Len(block)]
    BY <1>1, DecodeSteps
  <1>3. PICK u : u = Encoding(e.table, e.max, block)
    OBVIOUS
  <1>4. /\ u[0] = [table |-> e.table, max |-> e.max, fields |-> <<>>]
        /\ \A k \in 1..Len(block) : u[k] = EncodeOne(u[k - 1], block[k])
    BY <1>3, EncodingSteps
  <1> DEFINE S == {k \in 0..Len(block) : InStep(u[k], g[k])}
  <1>5. 0 \in S
    <2>1. g[0] = [ok |-> TRUE, d |-> d, fields |-> <<>>] /\ 0 \in 0..Len(block)
      BY <1>0, <1>2 DEF Decodes
    <2>2. g[0] \in DStates
      BY <2>1, <1>2 DEF Decodes
    <2>3. u[0] \in EStates
      BY <1>4 DEF EStates, Follower
    <2>4. g[0].ok /\ g[0].d = d /\ g[0].fields = <<>> /\ u[0].fields = <<>> /\ u[0].table = e.table /\ u[0].max = e.max
      BY <2>1, <1>4
    <2> QED
      BY <2>1, <2>2, <2>3, <2>4 DEF InStep, Follower
  <1>6. ASSUME NEW k \in 1..Len(block), k - 1 \in S PROVE k \in S
    <2>1. k \in 0..Len(block) /\ InStep(u[k - 1], g[k - 1]) /\ block[k] \in Instructions
      BY <1>0, <1>6
    <2>2. block[k].op = "index" => block[k].arg <= Len(u[k - 1].table)
      BY <1>3 DEF Encodable
    <2>3. InStep(EncodeOne(u[k - 1], block[k]), DecodeOne(g[k - 1], block[k]))
      BY <2>1, <2>2, OneInStep
    <2>4. u[k] = EncodeOne(u[k - 1], block[k]) /\ g[k] = DecodeOne(g[k - 1], block[k])
      BY <1>2, <1>4 DEF Decodes
    <2> QED
      BY <2>1, <2>3, <2>4
  <1>7. Len(block) \in S
    <2> HIDE DEF S
    <2>1. 0..Len(block) \subseteq S
      BY <1>0, <1>5, <1>6, UpTo
    <2> QED
      BY <2>1, <1>0
  <1> QED
    BY <1>2, <1>3, <1>7

(* Decoding leaves the table within its size, whatever the block.           *)
LEMMA DecodeSound ==
    ASSUME NEW d \in SoundTables, NEW block \in Seq(Instructions)
    PROVE  Decode(d, block) \in DStates
  <1>1. PICK g : Decodes(d, block, g) /\ Decode(d, block) = g[Len(block)]
    BY DecodeSteps
  <1>2. Len(block) \in 0..Len(block)
    OBVIOUS
  <1> QED
    BY <1>1, <1>2 DEF Decodes

(* The fields of a request.                                                 *)
Headers == [Names -> Fields \cup {NoField}]

(* Decoded fields join the fields there are, one by one.                    *)
LEMMA WithFieldsSteps ==
    ASSUME NEW headers \in Headers, NEW fields \in Seq(Fields)
    PROVE  \E g : /\ g \in [0..Len(fields) -> Headers] /\ g[0] = headers
                  /\ \A k \in 1..Len(fields) : g[k] = [g[k - 1] EXCEPT ![NameOf[fields[k]]] = fields[k]]
                  /\ WithFields(headers, fields) = g[Len(fields)]
  <1> DEFINE Put(x, k) == [x EXCEPT ![NameOf[fields[k]]] = fields[k]]
             P(u) == u = [k \in 0..Len(fields) |-> IF k = 0 THEN headers ELSE Put(u[k - 1], k)]
  <1>0. Len(fields) \in Nat /\ \A k \in 1..Len(fields) : fields[k] \in Fields /\ NameOf[fields[k]] \in Names
    BY Http2Assumption
  <1>1. ASSUME NEW k \in 1..Len(fields), NEW x \in Headers PROVE Put(x, k) \in Headers
    BY <1>0 DEF Headers
  <1> HIDE DEF Put
  <1>2. PICK F : F = [k \in 1..Len(fields) |-> [x \in Headers |-> Put(x, k)]]
    OBVIOUS
  <1>3. ASSUME NEW k \in 1..Len(fields), NEW x \in Headers
        PROVE  F[k][x] = Put(x, k) /\ F[k][x] \in Headers
    <2>1. PICK G : G = [y \in Headers |-> Put(y, k)]
      OBVIOUS
    <2>2. F[k] = G
      BY <1>2, <2>1
    <2>3. G[x] = Put(x, k)
      BY <2>1
    <2> QED
      BY <2>2, <2>3, <1>1
  <1>4. \A k \in 1..Len(fields) : \A x \in Headers : F[k][x] \in Headers
    BY <1>3
  <1>5. PICK g : Iterates(Len(fields), Headers, headers, F, g)
    BY <1>0, <1>4, Iterated
  <1>6. ASSUME NEW k \in 1..Len(fields) PROVE g[k] = Put(g[k - 1], k)
    <2>1. k - 1 \in 0..Len(fields)
      BY <1>0
    <2>2. g[k - 1] \in Headers
      BY <2>1, <1>5 DEF Iterates
    <2> QED
      BY <2>2, <1>3, <1>5 DEF Iterates
  <1>7. P(g)
    <2>1. \A k \in 0..Len(fields) : g[k] = IF k = 0 THEN headers ELSE Put(g[k - 1], k)
      <3> TAKE k \in 0..Len(fields)
      <3>1. k = 0 \/ k \in 1..Len(fields)
        BY <1>0
      <3> QED
        BY <3>1, <1>5, <1>6 DEF Iterates
    <2> QED
      BY <2>1, <1>5 DEF Iterates
  <1>8. PICK u : u = CHOOSE v : P(v)
    OBVIOUS
  <1>9. P(u)
    BY <1>7, <1>8
  <1>10. WithFields(headers, fields) = u[Len(fields)]
    BY <1>8 DEF WithFields, Put
  <1>11. \A k \in 0..Len(fields) : u[k] = IF k = 0 THEN headers ELSE Put(u[k - 1], k)
    BY <1>9
  <1> HIDE DEF P
  <1>12. u[0] = g[0]
    BY <1>0, <1>5, <1>11 DEF Iterates
  <1>13. ASSUME NEW k \in 1..Len(fields), u[k - 1] = g[k - 1] PROVE u[k] = g[k]
    <2>1. k \in 0..Len(fields) /\ k # 0
      BY <1>0
    <2> QED
      BY <2>1, <1>6, <1>11, <1>13
  <1>14. Len(fields) \in Nat
    BY <1>0
  <1>15. \A k \in 0..Len(fields) : u[k] = g[k]
    <2>1. SameSteps(Len(fields), u, g)
      BY <1>12, <1>13 DEF SameSteps
    <2> QED
      BY <2>1, <1>14, StepsAgree
  <1>16. Len(fields) \in 0..Len(fields)
    BY <1>14
  <1>17. \A k \in 1..Len(fields) : g[k] = [g[k - 1] EXCEPT ![NameOf[fields[k]]] = fields[k]]
    BY <1>6 DEF Put
  <1> QED
    BY <1>5, <1>10, <1>15, <1>16, <1>17 DEF Iterates

(* They are the fields of a request.                                        *)
LEMMA WithFieldsTyped ==
    ASSUME NEW headers \in Headers, NEW fields \in Seq(Fields)
    PROVE  WithFields(headers, fields) \in Headers
  <1>1. Len(fields) \in 0..Len(fields)
    OBVIOUS
  <1> QED
    BY <1>1, WithFieldsSteps

(* headers has of every name the last of the first m fields of s.           *)
LastUpTo(headers, s, m) ==
    \A n \in Names :
        \/ headers[n] = NoField /\ \A k \in 1..m : NameOf[s[k]] # n
        \/ \E k \in 1..m : /\ NameOf[s[k]] = n /\ headers[n] = s[k]
                           /\ \A j \in 1..m : j > k => NameOf[s[j]] # n

(* One more field takes the place of those of its name.                     *)
LEMMA LastOfMore ==
    ASSUME NEW headers \in Headers, NEW s, NEW m \in Nat, NEW f \in Fields, s[m + 1] = f,
           LastUpTo(headers, s, m)
    PROVE  LastUpTo([headers EXCEPT ![NameOf[f]] = f], s, m + 1)
  <1>1. PICK h : h = [headers EXCEPT ![NameOf[f]] = f]
    OBVIOUS
  <1>2. NameOf[f] \in Names /\ h[NameOf[f]] = f /\ \A n \in Names : n # NameOf[f] => h[n] = headers[n]
    BY <1>1, Http2Assumption DEF Headers
  <1>3. /\ \A k \in 1..m : k \in 1..(m + 1) /\ ~(k > m + 1)
        /\ m + 1 \in 1..(m + 1)
        /\ \A k \in 1..(m + 1) : k \in 1..m \/ k = m + 1
        /\ ~(m + 1 > m + 1)
    OBVIOUS
  <1>4. ASSUME NEW n \in Names
        PROVE  \/ h[n] = NoField /\ \A k \in 1..(m + 1) : NameOf[s[k]] # n
               \/ \E k \in 1..(m + 1) : /\ NameOf[s[k]] = n /\ h[n] = s[k]
                                        /\ \A j \in 1..(m + 1) : j > k => NameOf[s[j]] # n
    <2>1. CASE n = NameOf[f]
      <3>1. \A j \in 1..(m + 1) : ~(j > m + 1)
        BY <1>3
      <3>2. NameOf[s[m + 1]] = n /\ h[n] = s[m + 1]
        BY <2>1, <1>2
      <3> QED
        BY <3>1, <3>2, <1>3
    <2>2. CASE n # NameOf[f]
      <3>1. NameOf[s[m + 1]] # n /\ h[n] = headers[n]
        BY <2>2, <1>2
      <3>2. CASE headers[n] = NoField /\ \A k \in 1..m : NameOf[s[k]] # n
        BY <3>1, <3>2, <1>3
      <3>3. CASE \E k \in 1..m : /\ NameOf[s[k]] = n /\ headers[n] = s[k]
                                 /\ \A j \in 1..m : j > k => NameOf[s[j]] # n
        <4>1. PICK k \in 1..m : /\ NameOf[s[k]] = n /\ headers[n] = s[k]
                                /\ \A j \in 1..m : j > k => NameOf[s[j]] # n
          BY <3>3
        <4>2. \A j \in 1..(m + 1) : j > k => NameOf[s[j]] # n
          BY <4>1, <3>1, <1>3
        <4> QED
          BY <4>1, <4>2, <3>1, <1>3
      <3> QED
        BY <3>2, <3>3 DEF LastUpTo
    <2> QED
      BY <2>1, <2>2
  <1> QED
    BY <1>1, <1>4 DEF LastUpTo

(* Of no fields there are none.                                             *)
LEMMA NoneLast == LastOfEach(NoHeaders, <<>>)
  BY DEF LastOfEach, NoHeaders

(* Joined fields are the last of each name when the ones before were.       *)
LEMMA WithFieldsLast ==
    ASSUME NEW headers \in Headers, NEW before \in Seq(Fields), NEW fields \in Seq(Fields),
           LastOfEach(headers, before)
    PROVE  LastOfEach(WithFields(headers, fields), before \o fields)
  <1>1. PICK g : /\ g \in [0..Len(fields) -> Headers] /\ g[0] = headers
                 /\ \A k \in 1..Len(fields) : g[k] = [g[k - 1] EXCEPT ![NameOf[fields[k]]] = fields[k]]
                 /\ WithFields(headers, fields) = g[Len(fields)]
    BY WithFieldsSteps
  <1>2. PICK s : s = before \o fields
    OBVIOUS
  <1>3. PICK m : m = Len(before)
    OBVIOUS
  <1>4. PICK n : n = Len(fields)
    OBVIOUS
  <1>5. m \in Nat /\ n \in Nat /\ Len(s) = m + n
    BY <1>2, <1>3, <1>4
  <1>6. (\A k \in 1..m : s[k] = before[k]) /\ (\A k \in 1..n : s[m + k] = fields[k] /\ fields[k] \in Fields)
    BY <1>2, <1>3, <1>4
  <1> DEFINE S == {k \in 0..n : LastUpTo(g[k], s, m + k)}
  <1>7. 0 \in S
    <2>1. m + 0 = m /\ 0 \in 0..n
      BY <1>5
    <2>2. LastUpTo(headers, s, m)
      BY <1>3, <1>6 DEF LastUpTo, LastOfEach
    <2> QED
      BY <2>1, <2>2, <1>1
  <1>8. ASSUME NEW k \in 1..n, k - 1 \in S PROVE k \in S
    <2>1. PICK i : i = m + (k - 1)
      OBVIOUS
    <2>2. i \in Nat /\ i + 1 = m + k /\ k - 1 \in 0..n /\ k \in 0..n
      BY <2>1, <1>5
    <2>3. PICK x : x = g[k - 1]
      OBVIOUS
    <2>4. x \in Headers /\ LastUpTo(x, s, i)
      BY <2>1, <2>2, <2>3, <1>1, <1>4, <1>8
    <2>5. PICK f : f = fields[k]
      OBVIOUS
    <2>6. f \in Fields /\ s[i + 1] = f /\ g[k] = [x EXCEPT ![NameOf[f]] = f]
      BY <2>2, <2>3, <2>5, <1>1, <1>4, <1>6
    <2>7. LastUpTo(g[k], s, i + 1)
      BY <2>2, <2>4, <2>6, LastOfMore
    <2> QED
      BY <2>2, <2>7
  <1>9. n \in S
    <2> HIDE DEF S
    <2>1. 0..n \subseteq S
      BY <1>5, <1>7, <1>8, UpTo
    <2> QED
      BY <2>1, <1>5
  <1>10. LastUpTo(g[n], s, Len(s))
    BY <1>5, <1>9
  <1>11. LastOfEach(g[n], s)
    <2> HIDE DEF S
    <2> QED
      BY <1>10, Zenon DEF LastUpTo, LastOfEach
  <1> QED
    BY <1>1, <1>2, <1>4, <1>11

-----------------------------------------------------------------------------
(* Types.                                                                   *)

SettingIds == {"HEADER_TABLE_SIZE", "MAX_CONCURRENT_STREAMS", "INITIAL_WINDOW_SIZE", "MAX_FRAME_SIZE"}
SettingsRecs == [HEADER_TABLE_SIZE : Nat, MAX_CONCURRENT_STREAMS : Nat,
                 INITIAL_WINDOW_SIZE : Nat, MAX_FRAME_SIZE : Nat \ {0}]

(* Frames a client may send.                                                *)
Sids == Streams \cup {0}
HeadersFrames == [type : {"headers"}, sid : Sids, block : Seq(Instructions), end_stream : BOOLEAN,
                  end_headers : BOOLEAN, bad : BOOLEAN]
Pieces == [data : Nat, padded : BOOLEAN]
DataFrames == [type : {"data"}, sid : Sids, payload : Seq(Pieces), end_stream : BOOLEAN]
SettingsFrames ==
    [type : {"settings"}, ack : {TRUE}, bad : {FALSE}] \cup [type : {"settings"}, ack : {FALSE}, bad : {TRUE}]
        \cup [type : {"settings"}, id : SettingIds, value : Nat, ack : {FALSE}, bad : {FALSE}]
PingFrames ==
    [type : {"ping"}, ack : {TRUE}, bad : {FALSE}] \cup [type : {"ping"}, ack : {FALSE}, bad : {TRUE}]
        \cup [type : {"ping"}, id : Nat, ack : {FALSE}, bad : {FALSE}]
PlainFrames ==
    [type : {"preface"}, bad : BOOLEAN] \cup [type : {"window_update"}, sid : Sids, inc : Nat]
        \cup [type : {"rst_stream", "continuation"}, sid : Sids] \cup [type : {"goaway"}]
ValidSetting(f) == f.type = "settings" /\ ~f.ack /\ ~f.bad /\ f.id = "MAX_FRAME_SIZE" => f.value # 0
Frames == {f \in HeadersFrames \cup DataFrames \cup SettingsFrames \cup PingFrames \cup PlainFrames :
              ValidSetting(f)}

(* Frames the server writes.                                                *)
OutFrames ==
    [type : {"headers"}, sid : Streams, end_stream : BOOLEAN]
        \cup [type : {"data"}, sid : Streams, len : Int, end_stream : BOOLEAN]
        \cup [type : {"settings"}, sid : {0}, ack : BOOLEAN]
        \cup [type : {"window_update"}, sid : Sids, inc : Nat]
        \cup [type : {"ping"}, sid : {0}, id : Nat]
        \cup [type : {"goaway"}, sid : {0}, last : Sids]

StreamRecs == [state : {"IDLE", "OPEN", "HALF_CLOSED_REMOTE"}, window_size : Nat,
               header_block : Seq(Instructions), headers : Headers, body : Seq(Pieces),
               headers_complete : BOOLEAN]
Requests == [sid : Streams, headers : Headers, body : Seq(Pieces)]
Said == [phase : {"idle", "open", "done", "reset"}, fields : Seq(Fields), body : Seq(Pieces)]
ClientRecs == [table : Seq(Fields), max : Nat, frames : Nat, control : Nat, pings : Nat,
               sent : [Streams -> Said], continuing : Sids, derailed : BOOLEAN]

ServerType ==
    /\ preface_received_ \in BOOLEAN /\ goaway_sent_ \in BOOLEAN
    /\ last_stream_id_ \in Sids
    /\ connection_window_ \in Nat
    /\ DOMAIN streams_ \subseteq Streams /\ streams_ \in [DOMAIN streams_ -> StreamRecs]
    /\ settings \in SettingsRecs
    /\ decoder \in SoundTables
    /\ out \in Seq(OutFrames)
    /\ handled \in Seq(Requests)

ClientType ==
    /\ inbox \in Seq(Frames)
    /\ client \in ClientRecs
    /\ TableBytes(client.table) <= client.max

H2Type == ServerType /\ ClientType

(* What the fields of a frame may be.                                       *)
LEMMA FrameFields ==
    ASSUME NEW f \in Frames
    PROVE  /\ f.type = "headers" => f \in HeadersFrames
           /\ f.type = "data" => f \in DataFrames
           /\ f.type = "settings" => f.ack \in BOOLEAN /\ f.bad \in BOOLEAN
           /\ f.type = "settings" /\ ~f.ack /\ ~f.bad =>
                f.id \in SettingIds /\ f.value \in Nat /\ (f.id = "MAX_FRAME_SIZE" => f.value # 0)
           /\ f.type = "ping" => f.ack \in BOOLEAN /\ f.bad \in BOOLEAN
           /\ f.type = "ping" /\ ~f.ack /\ ~f.bad => f.id \in Nat
           /\ f.type = "window_update" => f.sid \in Sids /\ f.inc \in Nat
           /\ f.type = "preface" => f.bad \in BOOLEAN
  BY DEF Frames, HeadersFrames, DataFrames, SettingsFrames, PingFrames, PlainFrames, ValidSetting

(* What the fields of a frame of the server may be.                         *)
LEMMA OutFields ==
    ASSUME NEW f \in OutFrames
    PROVE  /\ f.type = "window_update" => f.sid \in Sids /\ f.inc \in Nat
           /\ f.type \in {"settings", "ping", "goaway"} => f.sid = 0
           /\ f.type \in {"headers", "data"} => f.sid \in Streams /\ f.end_stream \in BOOLEAN
           /\ f.type \in {"headers", "data", "settings", "window_update", "ping", "goaway"}
           /\ f.type = "goaway" => f.last \in Sids
  BY DEF OutFrames

(* A sequence and its first element.                                        *)
LEMMA Popped ==
    ASSUME NEW S, NEW s \in Seq(S), s # <<>>
    PROVE  /\ Head(s) \in S /\ Head(s) = s[1] /\ Tail(s) \in Seq(S)
           /\ Len(s) \in Nat \ {0} /\ Len(Tail(s)) = Len(s) - 1
           /\ \A k \in 1..Len(Tail(s)) : Tail(s)[k] = s[k + 1]
  OBVIOUS

(* A sequence and a new last element.                                       *)
LEMMA Pushed ==
    ASSUME NEW S, NEW s \in Seq(S), NEW e \in S
    PROVE  /\ Append(s, e) \in Seq(S) /\ Len(Append(s, e)) = Len(s) + 1
           /\ Append(s, e)[Len(s) + 1] = e
           /\ \A k \in 1..Len(s) : Append(s, e)[k] = s[k]
  OBVIOUS

(* Types at the start.                                                      *)
LEMMA TypeInit == Init => H2Type
  <1> SUFFICES ASSUME Init PROVE H2Type
    OBVIOUS
  <1>1. PICK bad \in BOOLEAN : inbox = <<[type |-> "preface", bad |-> bad]>>
    BY DEF Init
  <1>2. [type |-> "preface", bad |-> bad] \in Frames
    BY DEF Frames, PlainFrames, ValidSetting
  <1>3. inbox \in Seq(Frames)
    BY <1>1, <1>2
  <1>4. PICK none : none = <<>>
    OBVIOUS
  <1>5. none \in Seq(Fields) /\ Len(none) = 0 /\ none \in Seq(Pieces) /\ none \in Seq(Instructions)
    BY <1>4
  <1>6. TableBytes(none) = 0
    BY <1>5, SizesNat, TotalOfFew
  <1>7. NoHeaders \in Headers
    BY DEF NoHeaders, Headers
  <1>8. TableSize \in Nat /\ StreamWindow \in Nat /\ ConnWindow \in Nat
    BY Http2Assumption
  <1>9. decoder \in SoundTables
    <2>1. decoder = [table |-> none, max |-> TableSize]
      BY <1>4 DEF Init
    <2>2. decoder \in Tables /\ decoder.table = none /\ decoder.max = TableSize
      BY <2>1, <1>5, <1>8 DEF Tables
    <2> QED
      BY <2>2, <1>6, <1>8 DEF SoundTables
  <1>10. Idle \in Said
    BY <1>4, <1>5 DEF Idle, Said
  <1>11. client \in ClientRecs /\ TableBytes(client.table) <= client.max
    <2>1. client = [table |-> none, max |-> TableSize, frames |-> 0, control |-> 0, pings |-> 0,
                    sent |-> [s \in Streams |-> Idle], continuing |-> 0, derailed |-> FALSE]
      BY <1>4 DEF Init, ClientInit
    <2>2. [s \in Streams |-> Idle] \in [Streams -> Said]
      BY <1>10
    <2>3. client \in ClientRecs
      BY <2>1, <2>2, <1>5, <1>8 DEF ClientRecs, Sids
    <2>4. client.table = none /\ client.max = TableSize
      BY <2>1
    <2> QED
      BY <2>3, <2>4, <1>6, <1>8
  <1>12. settings \in SettingsRecs
    BY <1>8 DEF Init, SettingsRecs
  <1>13. streams_ \in [DOMAIN streams_ -> StreamRecs] /\ DOMAIN streams_ = {}
    BY DEF Init
  <1>14. out \in Seq(OutFrames) /\ handled \in Seq(Requests)
    BY DEF Init
  <1>15. /\ preface_received_ \in BOOLEAN /\ goaway_sent_ \in BOOLEAN
         /\ last_stream_id_ \in Sids /\ connection_window_ \in Nat
    BY <1>8 DEF Init, Sids
  <1> QED
    BY <1>3, <1>9, <1>11, <1>12, <1>13, <1>14, <1>15 DEF H2Type, ServerType, ClientType

-----------------------------------------------------------------------------
(* What the server's steps do.                                              *)

(* The record of one stream changed, or is new.                             *)
OneStream(s) ==
    /\ DOMAIN streams_' = DOMAIN streams_ \cup {s}
    /\ \A x \in DOMAIN streams_ : x # s => streams_'[x] = streams_[x]
    /\ last_stream_id_' = LastStreamId(s)

(* A step after which the connection is closed.                             *)
Failed ==
    /\ goaway_sent_' = TRUE
    /\ handled' = handled
    /\ \/ out' = out
       \/ out' = out \o <<Goaway(last_stream_id_')>>
    /\ \/ streams_' = streams_ /\ last_stream_id_' = last_stream_id_
       \/ \E s \in Streams : OneStream(s)

(* A frame that is neither HEADERS nor DATA has passed.                     *)
Answered ==
    \/ out' = out
    \/ \E w \in OutFrames : w.type \in {"settings", "ping"} /\ out' = out \o <<w>>

SameRequests ==
    /\ DOMAIN streams_' = DOMAIN streams_
    /\ \A s \in DOMAIN streams_ :
          /\ streams_'[s].headers = streams_[s].headers
          /\ streams_'[s].body = streams_[s].body
          /\ streams_'[s].header_block = streams_[s].header_block
          /\ streams_'[s].headers_complete = streams_[s].headers_complete

Resizes(f) == f.type = "settings" /\ ~f.ack /\ ~f.bad /\ f.id = "HEADER_TABLE_SIZE"

Passed ==
    LET f == Head(inbox) IN
    /\ ~goaway_sent_' /\ inbox' = Tail(inbox)
    /\ f.type \notin {"headers", "data"}
    /\ handled' = handled /\ last_stream_id_' = last_stream_id_
    /\ Answered
    /\ SameRequests
    /\ decoder' = IF Resizes(f) THEN SetMaxTableSize(decoder, f.value) ELSE decoder

(* A response: HEADERS, then DATA, END_STREAM on the last of them.          *)
IsResponse(w, s) ==
    /\ w \in Seq(OutFrames) /\ Len(w) >= 1
    /\ w[1].type = "headers"
    /\ \A k \in 1..Len(w) :
          /\ w[k].sid = s
          /\ k # 1 => w[k].type = "data"
          /\ w[k].end_stream <=> k = Len(w)

(* The request of a stream is handled, or none is.                          *)
HandledNow(s) ==
    /\ handled' = Append(handled, [sid |-> s, headers |-> streams_'[s].headers, body |-> streams_'[s].body])
    /\ \E w : IsResponse(w, s) /\ out' = out \o w

(* HEADERS without END_HEADERS, with it, and DATA have passed.              *)
FragmentTaken(f) ==
    /\ f.type = "headers" /\ ~f.bad /\ ~f.end_headers
    /\ f.sid \in Streams /\ OneStream(f.sid)
    /\ handled' = handled /\ out' = out

HeadersTaken(f) ==
    /\ f.type = "headers" /\ ~f.bad /\ f.end_headers
    /\ f.sid \in Streams /\ OneStream(f.sid)
    /\ streams_'[f.sid].headers = WithFields(GetOrCreateStream(f.sid).headers, Decoded.fields)
    /\ streams_'[f.sid].body = GetOrCreateStream(f.sid).body
    /\ streams_'[f.sid].header_block = <<>> /\ streams_'[f.sid].headers_complete
    /\ Decoded.ok /\ decoder' = Decoded.d
    /\ f.end_stream => HandledNow(f.sid)
    /\ ~f.end_stream => handled' = handled /\ out' = out

Credits(f) ==
    IF Len(f.payload) > 0 THEN <<WindowUpdate(0, Len(f.payload)), WindowUpdate(f.sid, Len(f.payload))>>
                          ELSE <<>>

DataTaken(f) ==
    /\ f.type = "data"
    /\ f.sid \in DOMAIN streams_ /\ OneStream(f.sid)
    /\ streams_'[f.sid].headers = streams_[f.sid].headers
    /\ streams_'[f.sid].body = streams_[f.sid].body \o f.payload
    /\ streams_'[f.sid].header_block = streams_[f.sid].header_block
    /\ streams_'[f.sid].headers_complete = streams_[f.sid].headers_complete
    /\ decoder' = decoder
    /\ Completes(f) => HandledNow(f.sid)
    /\ ~Completes(f) => handled' = handled /\ out' = out \o Credits(f)

Requested ==
    LET f == Head(inbox) IN
    /\ ~goaway_sent_' /\ inbox' = Tail(inbox)
    /\ FragmentTaken(f) \/ HeadersTaken(f) \/ DataTaken(f)

ServerEffect ==
    /\ H2Type' /\ client' = client
    /\ ~goaway_sent_ /\ inbox # <<>>
    /\ Failed \/ Passed \/ Requested

(* The greater of two.                                                      *)
LEMMA MaxOfTwo ==
    ASSUME NEW a \in Nat, NEW b \in Nat
    PROVE  Max({a, b}) \in {a, b} /\ a <= Max({a, b}) /\ b <= Max({a, b})
  <1>1. PICK m : m \in {a, b} /\ \A y \in {a, b} : m >= y
    <2>1. CASE a >= b
      BY <2>1
    <2>2. CASE ~(a >= b)
      BY <2>2
    <2> QED
      BY <2>1, <2>2
  <1>2. Max({a, b}) \in {a, b} /\ \A y \in {a, b} : Max({a, b}) >= y
    BY <1>1 DEF Max
  <1> QED
    BY <1>2

(* Identifiers are numbers.                                                 *)
LEMMA SidsNat == Sids \subseteq Nat /\ 0 \notin Streams /\ Streams \subseteq Sids
  BY Http2Assumption DEF Sids

(* The last stream's identifier grows.                                      *)
LEMMA LastStreamGrows ==
    ASSUME H2Type, NEW s \in Streams
    PROVE  LastStreamId(s) \in Sids /\ last_stream_id_ <= LastStreamId(s)
           /\ (s \notin DOMAIN streams_ => s <= LastStreamId(s))
  <1>1. last_stream_id_ \in Nat /\ s \in Nat /\ s \in Sids /\ last_stream_id_ \in Sids
    BY SidsNat DEF H2Type, ServerType
  <1> QED
    BY <1>1, MaxOfTwo DEF LastStreamId

(* One more frame written.                                                  *)
LEMMA OutTyped ==
    ASSUME H2Type, NEW w \in OutFrames
    PROVE  out \o <<w>> \in Seq(OutFrames)
  BY DEF H2Type, ServerType

(* GOAWAY is a frame.                                                       *)
LEMMA GoawayTyped ==
    ASSUME NEW s \in Sids
    PROVE  Goaway(s) \in OutFrames
  BY DEF Goaway, OutFrames

(* What every step of the parser does.                                      *)
LEMMA Parsing ==
    ASSUME H2Type, NEW type, Parse(type)
    PROVE  /\ ~goaway_sent_ /\ inbox # <<>> /\ Head(inbox) \in Frames /\ Head(inbox).type = type
           /\ inbox' = Tail(inbox) /\ inbox' \in Seq(Frames)
           /\ client' = client /\ preface_received_' = preface_received_
           /\ preface_received_
           /\ ClientType'
  <1>1. inbox \in Seq(Frames)
    BY DEF H2Type, ClientType
  <1>2. inbox # <<>> /\ inbox' = Tail(inbox)
    BY DEF Parse
  <1>3. Head(inbox) \in Frames /\ Tail(inbox) \in Seq(Frames)
    BY <1>1, <1>2, Popped
  <1> QED
    BY <1>2, <1>3 DEF Parse, H2Type, ClientType

(* A step that fails and changes nothing else.                              *)
LEMMA FailTyped ==
    ASSUME H2Type, Fail, ClientType',
           UNCHANGED <<last_stream_id_, connection_window_, streams_, settings, decoder, handled, preface_received_>>
    PROVE  H2Type' /\ Failed
  <1>1. last_stream_id_ \in Sids /\ last_stream_id_' = last_stream_id_
    BY DEF H2Type, ServerType
  <1>2. out' = out \o <<Goaway(last_stream_id_)>> /\ goaway_sent_' = TRUE
    BY DEF Fail, FailWith, Emit
  <1>3. out' \in Seq(OutFrames)
    BY <1>1, <1>2, GoawayTyped, OutTyped
  <1>4. H2Type'
    BY <1>2, <1>3 DEF H2Type, ServerType
  <1>5. Failed
    BY <1>1, <1>2 DEF Failed
  <1> QED
    BY <1>4, <1>5

(* The preface.                                                             *)
LEMMA PrefaceEffect == H2Type /\ ReceivePreface => ServerEffect
  <1> SUFFICES ASSUME H2Type, ReceivePreface PROVE ServerEffect
    OBVIOUS
  <1>1. /\ inbox \in Seq(Frames) /\ inbox # <<>> /\ ~goaway_sent_ /\ client' = client
        /\ Head(inbox).type = "preface"
        /\ UNCHANGED <<last_stream_id_, connection_window_, streams_, settings, decoder, handled>>
    BY DEF H2Type, ClientType, ReceivePreface
  <1>2. Head(inbox) \in Frames /\ Tail(inbox) \in Seq(Frames)
    BY <1>1, Popped
  <1>3. CASE Head(inbox).bad
    <2>1. Fail /\ inbox' = inbox /\ preface_received_' = preface_received_
      BY <1>3 DEF ReceivePreface
    <2>2. ClientType'
      BY <2>1, <1>1 DEF H2Type, ClientType
    <2>3. H2Type' /\ Failed
      BY <2>1, <2>2, <1>1, FailTyped
    <2> QED
      BY <2>3, <1>1 DEF ServerEffect
  <1>4. CASE ~Head(inbox).bad
    <2>1. /\ inbox' = Tail(inbox) /\ preface_received_' = TRUE /\ goaway_sent_' = goaway_sent_
          /\ out' = out \o <<SettingsFrame(FALSE)>>
      BY <1>4 DEF ReceivePreface, Emit
    <2>2. SettingsFrame(FALSE) \in OutFrames /\ SettingsFrame(FALSE).type = "settings"
      BY DEF SettingsFrame, OutFrames
    <2>3. out' \in Seq(OutFrames)
      BY <2>1, <2>2, OutTyped
    <2>4. H2Type'
      BY <2>1, <2>3, <1>1, <1>2 DEF H2Type, ServerType, ClientType
    <2>5. Answered
      BY <2>1, <2>2 DEF Answered
    <2>6. SameRequests
      BY <1>1 DEF SameRequests
    <2>7. Passed
      BY <2>1, <2>5, <2>6, <1>1 DEF Passed, Resizes
    <2> QED
      BY <2>4, <2>7, <1>1 DEF ServerEffect
  <1> QED
    BY <1>3, <1>4

(* SETTINGS.                                                                *)
LEMMA SettingsEffect == H2Type /\ HandleSettings => ServerEffect
  <1> SUFFICES ASSUME H2Type, HandleSettings PROVE ServerEffect
    OBVIOUS
  <1>1. PICK f : f = Head(inbox)
    OBVIOUS
  <1>2. /\ ~goaway_sent_ /\ inbox # <<>> /\ f \in Frames /\ f.type = "settings"
        /\ inbox' = Tail(inbox) /\ client' = client /\ preface_received_' = preface_received_ /\ ClientType'
    BY <1>1, Parsing DEF HandleSettings
  <1>3. UNCHANGED <<last_stream_id_, connection_window_, streams_, handled>>
    BY DEF HandleSettings
  <1>4. f.ack \in BOOLEAN /\ f.bad \in BOOLEAN
    BY <1>2, FrameFields
  <1>5. SameRequests
    BY <1>3 DEF SameRequests
  <1>6. CASE f.ack
    <2>1. UNCHANGED <<settings, decoder, goaway_sent_, out>>
      BY <1>1, <1>6 DEF HandleSettings
    <2>2. H2Type'
      BY <2>1, <1>2, <1>3 DEF H2Type, ServerType
    <2>3. Passed
      BY <2>1, <1>1, <1>2, <1>3, <1>5, <1>6 DEF Passed, Answered, Resizes
    <2> QED
      BY <2>2, <2>3, <1>2 DEF ServerEffect
  <1>7. CASE ~f.ack /\ f.bad
    <2>1. Fail /\ UNCHANGED <<settings, decoder>>
      BY <1>1, <1>7 DEF HandleSettings
    <2>2. H2Type' /\ Failed
      BY <2>1, <1>2, <1>3, FailTyped
    <2> QED
      BY <2>2, <1>2 DEF ServerEffect
  <1>8. CASE ~f.ack /\ ~f.bad
    <2>1. /\ settings' = [settings EXCEPT ![f.id] = f.value]
          /\ decoder' = IF f.id = "HEADER_TABLE_SIZE" THEN SetMaxTableSize(decoder, f.value) ELSE decoder
          /\ out' = out \o <<SettingsFrame(TRUE)>>
          /\ goaway_sent_' = goaway_sent_
      BY <1>1, <1>8 DEF HandleSettings, Emit
    <2>2. f.id \in SettingIds /\ f.value \in Nat /\ (f.id = "MAX_FRAME_SIZE" => f.value # 0)
      BY <1>2, <1>8, FrameFields
    <2>3. settings' \in SettingsRecs
      BY <2>1, <2>2 DEF SettingsRecs, SettingIds, H2Type, ServerType
    <2>4. decoder' \in SoundTables
      BY <2>1, <2>2, ResizeSound DEF H2Type, ServerType
    <2>5. SettingsFrame(TRUE) \in OutFrames /\ SettingsFrame(TRUE).type = "settings"
      BY DEF SettingsFrame, OutFrames
    <2>6. out' \in Seq(OutFrames)
      BY <2>1, <2>5, OutTyped
    <2>7. H2Type'
      BY <2>1, <2>3, <2>4, <2>6, <1>2, <1>3 DEF H2Type, ServerType
    <2>8. Answered
      BY <2>1, <2>5 DEF Answered
    <2>9. Passed
      BY <2>1, <2>8, <1>1, <1>2, <1>3, <1>5, <1>8 DEF Passed, Resizes
    <2> QED
      BY <2>7, <2>9, <1>2 DEF ServerEffect
  <1> QED
    BY <1>4, <1>6, <1>7, <1>8

(* WINDOW_UPDATE.                                                           *)
LEMMA WindowEffect == H2Type /\ HandleWindowUpdate => ServerEffect
  <1> SUFFICES ASSUME H2Type, HandleWindowUpdate PROVE ServerEffect
    OBVIOUS
  <1>1. PICK f : f = Head(inbox)
    OBVIOUS
  <1>2. /\ ~goaway_sent_ /\ inbox # <<>> /\ f \in Frames /\ f.type = "window_update"
        /\ inbox' = Tail(inbox) /\ client' = client /\ preface_received_' = preface_received_ /\ ClientType'
    BY <1>1, Parsing DEF HandleWindowUpdate
  <1>3. UNCHANGED <<last_stream_id_, settings, decoder, handled>>
    BY DEF HandleWindowUpdate
  <1>4. f.sid \in Sids /\ f.inc \in Nat
    BY <1>2, FrameFields
  <1>5. CASE f.inc = 0
    <2>1. Fail /\ UNCHANGED <<connection_window_, streams_>>
      BY <1>1, <1>5 DEF HandleWindowUpdate
    <2>2. H2Type' /\ Failed
      BY <2>1, <1>2, <1>3, FailTyped
    <2> QED
      BY <2>2, <1>2 DEF ServerEffect
  <1>6. CASE f.inc # 0
    <2>1. /\ connection_window_' = IF f.sid = 0 THEN connection_window_ + f.inc ELSE connection_window_
          /\ streams_' = IF f.sid \in DOMAIN streams_
                         THEN [streams_ EXCEPT ![f.sid].window_size = @ + f.inc] ELSE streams_
          /\ UNCHANGED <<goaway_sent_, out>>
      BY <1>1, <1>6 DEF HandleWindowUpdate
    <2>2. connection_window_' \in Nat
      BY <2>1, <1>4 DEF H2Type, ServerType
    <2>3. DOMAIN streams_' = DOMAIN streams_ /\ streams_' \in [DOMAIN streams_ -> StreamRecs] /\ SameRequests
      <3>0. streams_ \in [DOMAIN streams_ -> StreamRecs]
        BY DEF H2Type, ServerType
      <3>1. CASE f.sid \in DOMAIN streams_
        <4>0. PICK old : old = streams_[f.sid]
          OBVIOUS
        <4>1. PICK r : r = [old EXCEPT !.window_size = @ + f.inc]
          OBVIOUS
        <4>2. old \in StreamRecs
          BY <3>0, <3>1, <4>0
        <4>5. old.window_size + f.inc \in Nat
          BY <4>2, <1>4 DEF StreamRecs
        <4>3. r \in StreamRecs /\ r.headers = old.headers /\ r.body = old.body
              /\ r.header_block = old.header_block
              /\ r.headers_complete = old.headers_complete
          BY <4>1, <4>2, <4>5 DEF StreamRecs
        <4>4. streams_' = [streams_ EXCEPT ![f.sid] = r]
          BY <4>0, <4>1, <3>1, <2>1
        <4> QED
          BY <4>0, <4>3, <4>4, <3>0, <3>1 DEF SameRequests
      <3>2. CASE f.sid \notin DOMAIN streams_
        BY <3>0, <3>2, <2>1 DEF SameRequests
      <3> QED
        BY <3>1, <3>2
    <2>4. H2Type'
      BY <2>1, <2>2, <2>3, <1>2, <1>3 DEF H2Type, ServerType
    <2>5. Passed
      BY <2>1, <2>3, <1>1, <1>2, <1>3 DEF Passed, Answered, Resizes
    <2> QED
      BY <2>4, <2>5, <1>2 DEF ServerEffect
  <1> QED
    BY <1>5, <1>6

(* PING.                                                                    *)
LEMMA PingEffect == H2Type /\ HandlePing => ServerEffect
  <1> SUFFICES ASSUME H2Type, HandlePing PROVE ServerEffect
    OBVIOUS
  <1>1. PICK f : f = Head(inbox)
    OBVIOUS
  <1>2. /\ ~goaway_sent_ /\ inbox # <<>> /\ f \in Frames /\ f.type = "ping"
        /\ inbox' = Tail(inbox) /\ client' = client /\ preface_received_' = preface_received_ /\ ClientType'
    BY <1>1, Parsing DEF HandlePing
  <1>3. UNCHANGED <<last_stream_id_, connection_window_, streams_, settings, decoder, handled>>
    BY DEF HandlePing
  <1>4. f.ack \in BOOLEAN /\ f.bad \in BOOLEAN
    BY <1>2, FrameFields
  <1>5. CASE f.bad
    <2>1. Fail
      BY <1>1, <1>5 DEF HandlePing
    <2>2. H2Type' /\ Failed
      BY <2>1, <1>2, <1>3, FailTyped
    <2> QED
      BY <2>2, <1>2 DEF ServerEffect
  <1>6. CASE ~f.bad
    <2>1. /\ out' = out \o (IF f.ack THEN <<>> ELSE <<[type |-> "ping", sid |-> 0, id |-> f.id]>>)
          /\ goaway_sent_' = goaway_sent_
      BY <1>1, <1>6 DEF HandlePing, Emit
    <2>2. out \in Seq(OutFrames)
      BY DEF H2Type, ServerType
    <2>3. Answered /\ out' \in Seq(OutFrames)
      <3>1. CASE f.ack
        <4>1. out' = out
          BY <3>1, <2>1, <2>2
        <4> QED
          BY <4>1, <2>2 DEF Answered
      <3>2. CASE ~f.ack
        <4>1. PICK w : w = [type |-> "ping", sid |-> 0, id |-> f.id]
          OBVIOUS
        <4>2. f.id \in Nat
          BY <3>2, <1>2, <1>6, FrameFields
        <4>3. w \in OutFrames /\ w.type = "ping"
          BY <4>1, <4>2 DEF OutFrames
        <4>4. out' = out \o <<w>>
          BY <3>2, <4>1, <2>1
        <4> QED
          BY <4>3, <4>4, OutTyped DEF Answered
      <3> QED
        BY <3>1, <3>2, <1>4
    <2>4. SameRequests
      BY <1>3 DEF SameRequests
    <2>5. H2Type'
      BY <2>1, <2>3, <1>2, <1>3 DEF H2Type, ServerType
    <2>6. Passed
      BY <2>1, <2>3, <2>4, <1>1, <1>2, <1>3 DEF Passed, Resizes
    <2> QED
      BY <2>5, <2>6, <1>2 DEF ServerEffect
  <1> QED
    BY <1>5, <1>6

(* GOAWAY, and frames without a handler.                                    *)
LEMMA OtherEffect == H2Type /\ (HandleGoaway \/ IgnoreFrame) => ServerEffect
  <1> SUFFICES ASSUME H2Type, HandleGoaway \/ IgnoreFrame PROVE ServerEffect
    OBVIOUS
  <1>1. CASE HandleGoaway
    <2>1. /\ ~goaway_sent_ /\ inbox # <<>> /\ client' = client /\ preface_received_' = preface_received_ /\ ClientType'
      BY <1>1, Parsing DEF HandleGoaway
    <2>2. /\ UNCHANGED <<last_stream_id_, connection_window_, streams_, settings, decoder, out, handled>>
          /\ goaway_sent_' = TRUE
      BY <1>1 DEF HandleGoaway
    <2>3. H2Type' /\ Failed
      BY <2>1, <2>2 DEF H2Type, ServerType, Failed
    <2> QED
      BY <2>1, <2>3 DEF ServerEffect
  <1>2. CASE IgnoreFrame
    <2>1. PICK t \in {"rst_stream", "continuation"} : Parse(t)
      BY <1>2 DEF IgnoreFrame
    <2>2. /\ ~goaway_sent_ /\ inbox # <<>> /\ client' = client /\ preface_received_' = preface_received_ /\ ClientType'
          /\ inbox' = Tail(inbox) /\ Head(inbox).type = t
      BY <2>1, Parsing
    <2>3. UNCHANGED <<goaway_sent_, last_stream_id_, connection_window_, streams_, settings, decoder, out, handled>>
      BY <1>2 DEF IgnoreFrame
    <2>4. H2Type' /\ Passed
      BY <2>1, <2>2, <2>3 DEF H2Type, ServerType, Passed, Answered, SameRequests, Resizes
    <2> QED
      BY <2>2, <2>4 DEF ServerEffect
  <1> QED
    BY <1>1, <1>2

(* How many DATA frames a body takes: none for an empty one.                *)
LEMMA DataCut ==
    ASSUME NEW size \in Nat, NEW max \in Nat \ {0}
    PROVE  /\ (size + max - 1) \div max \in Nat
           /\ size = 0 => (size + max - 1) \div max = 0
           /\ size # 0 => (size + max - 1) \div max >= 1
  <1>1. ASSUME NEW a \in Nat PROVE a \div max \in Nat
    OBVIOUS
  <1>2. ASSUME NEW a \in Nat, a < max PROVE a \div max = 0
    BY <1>2
  <1>3. ASSUME NEW a \in Nat, a >= max PROVE a \div max >= 1
    BY <1>3
  <1>4. PICK a : a = size + max - 1
    OBVIOUS
  <1>5. a \in Nat /\ (size = 0 => a < max) /\ (size # 0 => a >= max)
    BY <1>4
  <1> QED
    BY <1>1, <1>2, <1>3, <1>4, <1>5

(* build_headers_response builds one.                                       *)
LEMMA ResponseShape ==
    ASSUME H2Type, NEW s \in Streams, NEW size \in ResponseSizes
    PROVE  IsResponse(Response(s, size), s)
  <1>1. PICK max : max = settings.MAX_FRAME_SIZE
    OBVIOUS
  <1>2. max \in Nat \ {0} /\ size \in Nat
    BY <1>1, Http2Assumption DEF H2Type, ServerType, SettingsRecs
  <1>3. PICK n : n = (size + max - 1) \div max
    OBVIOUS
  <1>4. n \in Nat /\ (size = 0 => n = 0) /\ (size # 0 => n >= 1)
    BY <1>2, <1>3, DataCut
  <1>5. PICK h : h = [type |-> "headers", sid |-> s, end_stream |-> size = 0]
    OBVIOUS
  <1>6. h \in OutFrames /\ h.type = "headers" /\ h.sid = s /\ (h.end_stream <=> size = 0)
    BY <1>5 DEF OutFrames
  <1>7. PICK d : d = [k \in 1..n |-> [type |-> "data", sid |-> s,
                                      len |-> IF k < n THEN max ELSE size - (n - 1) * max,
                                      end_stream |-> k = n]]
    OBVIOUS
  <1>8. ASSUME NEW k \in 1..n
        PROVE  d[k] \in OutFrames /\ d[k].type = "data" /\ d[k].sid = s /\ (d[k].end_stream <=> k = n)
    <2>1. PICK len : len = IF k < n THEN max ELSE size - (n - 1) * max
      OBVIOUS
    <2>2. len \in Int
      BY <2>1, <1>2, <1>4
    <2>3. PICK e : e = (k = n)
      OBVIOUS
    <2>4. e \in BOOLEAN /\ (e <=> k = n)
      BY <2>3
    <2>5. d[k] = [type |-> "data", sid |-> s, len |-> len, end_stream |-> e]
      BY <1>7, <2>1, <2>3
    <2> QED
      BY <2>2, <2>4, <2>5 DEF OutFrames
  <1>9. d \in Seq(OutFrames) /\ Len(d) = n
    <2>1. \A k \in 1..n : d[k] \in OutFrames
      BY <1>8
    <2>2. DOMAIN d = 1..n
      BY <1>7
    <2>3. d \in [1..n -> OutFrames]
      BY <2>1, <2>2, <1>7
    <2> QED
      BY <2>3, <1>4
  <1>10. PICK w : w = <<h>> \o d
    OBVIOUS
  <1>11. PICK one : one = <<h>>
    OBVIOUS
  <1>12. one \in Seq(OutFrames) /\ Len(one) = 1 /\ one[1] = h
    BY <1>6, <1>11
  <1>13. w \in Seq(OutFrames) /\ IsJoin(w, one, d)
    BY <1>9, <1>10, <1>11, <1>12, Joined
  <1>14. Len(w) = n + 1 /\ w[1] = h
    <2>1. 1 \in 1..Len(one)
      BY <1>12
    <2> QED
      BY <2>1, <1>4, <1>9, <1>12, <1>13 DEF IsJoin
  <1>15. ASSUME NEW k \in 1..Len(w), k # 1
         PROVE  w[k].sid = s /\ w[k].type = "data" /\ (w[k].end_stream <=> k = Len(w))
    <2>1. k - 1 \in 1..n /\ 1 + (k - 1) = k /\ (k - 1 = n <=> k = Len(w))
      BY <1>4, <1>14, <1>15
    <2>2. PICK i \in 1..n : i = k - 1
      BY <2>1
    <2>3. w[1 + i] = d[i] /\ 1 + i = k
      BY <2>1, <2>2, <1>9, <1>12, <1>13 DEF IsJoin
    <2> QED
      BY <2>1, <2>2, <2>3, <1>8
  <1>16. h.end_stream <=> 1 = Len(w)
    BY <1>4, <1>6, <1>14
  <1>17. IsResponse(w, s)
    BY <1>4, <1>6, <1>13, <1>14, <1>15, <1>16 DEF IsResponse
  <1>18. Response(s, size) = w
    BY <1>1, <1>3, <1>5, <1>7, <1>10 DEF Response
  <1> QED
    BY <1>17, <1>18

(* The record of a stream.                                                  *)
LEMMA StreamTyped ==
    ASSUME H2Type, NEW s \in Streams
    PROVE  GetOrCreateStream(s) \in StreamRecs /\ NewStream \in StreamRecs
  <1>1. settings.INITIAL_WINDOW_SIZE \in Nat /\ NoHeaders \in Headers
    BY DEF H2Type, ServerType, SettingsRecs, NoHeaders, Headers
  <1>2. PICK none : none = <<>>
    OBVIOUS
  <1>3. none \in Seq(Pieces) /\ none \in Seq(Instructions)
    BY <1>2
  <1>4. NewStream \in StreamRecs
    BY <1>1, <1>2, <1>3 DEF NewStream, StreamRecs
  <1>5. s \in DOMAIN streams_ => streams_[s] \in StreamRecs
    BY DEF H2Type, ServerType
  <1> QED
    BY <1>4, <1>5 DEF GetOrCreateStream

(* A stream is updated, or created.                                         *)
LEMMA SetTyped ==
    ASSUME H2Type, NEW s \in Streams, NEW r \in StreamRecs, SetStream(s, r)
    PROVE  /\ DOMAIN streams_' = DOMAIN streams_ \cup {s}
           /\ streams_' \in [DOMAIN streams_' -> StreamRecs]
           /\ DOMAIN streams_' \subseteq Streams
           /\ streams_'[s] = r
           /\ \A x \in DOMAIN streams_ : x # s => streams_'[x] = streams_[x]
  <1>1. DOMAIN streams_ \subseteq Streams /\ streams_ \in [DOMAIN streams_ -> StreamRecs]
    BY DEF H2Type, ServerType
  <1>2. streams_' = [x \in DOMAIN streams_ \cup {s} |-> IF x = s THEN r ELSE streams_[x]]
    BY DEF SetStream
  <1> QED
    BY <1>1, <1>2

(* A request is given to the handler.                                       *)
LEMMA HandleEffect ==
    ASSUME H2Type, NEW s \in Streams, NEW r \in StreamRecs, Handle(s, r)
    PROVE  /\ handled' \in Seq(Requests) /\ out' \in Seq(OutFrames)
           /\ handled' = Append(handled, [sid |-> s, headers |-> r.headers, body |-> r.body])
           /\ [sid |-> s, headers |-> r.headers, body |-> r.body] \in Requests
           /\ \E w : IsResponse(w, s) /\ out' = out \o w
  <1>1. PICK q : q = [sid |-> s, headers |-> r.headers, body |-> r.body]
    OBVIOUS
  <1>2. q \in Requests
    BY <1>1 DEF Requests, StreamRecs
  <1>3. handled' = Append(handled, q) /\ handled \in Seq(Requests) /\ out \in Seq(OutFrames)
    BY <1>1 DEF Handle, H2Type, ServerType
  <1>4. handled' \in Seq(Requests)
    BY <1>2, <1>3
  <1>5. PICK size \in ResponseSizes : out' = out \o Response(s, size)
    BY DEF Handle, Emit
  <1>6. IsResponse(Response(s, size), s)
    BY ResponseShape
  <1>7. out' \in Seq(OutFrames)
    BY <1>3, <1>5, <1>6 DEF IsResponse
  <1> QED
    BY <1>1, <1>2, <1>3, <1>4, <1>5, <1>6, <1>7

(* The block so far is a sequence of instructions.                          *)
LEMMA AccumulatedTyped ==
    ASSUME H2Type, NEW f, f = Head(inbox), f \in HeadersFrames, f.sid \in Streams
    PROVE  /\ Accumulated \in StreamRecs
           /\ Accumulated.header_block = GetOrCreateStream(f.sid).header_block \o f.block
           /\ Accumulated.headers = GetOrCreateStream(f.sid).headers
           /\ Accumulated.body = GetOrCreateStream(f.sid).body
           /\ Decoded \in DStates
  <1>1. PICK g : g = GetOrCreateStream(f.sid)
    OBVIOUS
  <1>2. g \in StreamRecs
    BY <1>1, StreamTyped
  <1>3. f.block \in Seq(Instructions)
    BY DEF HeadersFrames
  <1>4. PICK b : b = g.header_block \o f.block
    OBVIOUS
  <1>5. b \in Seq(Instructions)
    BY <1>2, <1>3, <1>4 DEF StreamRecs
  <1>6. PICK a : a = Accumulated
    OBVIOUS
  <1>7. a = [g EXCEPT !.header_block = b]
    BY <1>1, <1>4, <1>6 DEF Accumulated
  <1>8. a \in StreamRecs /\ a.header_block = b /\ a.headers = g.headers /\ a.body = g.body
    BY <1>2, <1>5, <1>7 DEF StreamRecs
  <1>9. Decoded \in DStates
    BY <1>5, <1>6, <1>8, DecodeSound DEF Decoded, H2Type, ServerType
  <1> QED
    BY <1>1, <1>4, <1>6, <1>8, <1>9

(* Any HEADERS frame but one on stream 0.                                   *)
LEMMA HeadersParsed ==
    ASSUME H2Type, NEW f, f = Head(inbox), NEW r \in StreamRecs, HeadersFor(r)
    PROVE  /\ ~goaway_sent_ /\ inbox # <<>> /\ f \in HeadersFrames /\ f.type = "headers"
           /\ f.sid \in Streams
           /\ inbox' = Tail(inbox) /\ client' = client /\ preface_received_' = preface_received_ /\ ClientType'
           /\ UNCHANGED <<connection_window_, settings>>
           /\ last_stream_id_' \in Sids /\ OneStream(f.sid) /\ streams_'[f.sid] = r
           /\ DOMAIN streams_' \subseteq Streams /\ streams_' \in [DOMAIN streams_' -> StreamRecs]
  <1>1. /\ ~goaway_sent_ /\ inbox # <<>> /\ f \in Frames /\ f.type = "headers"
        /\ inbox' = Tail(inbox) /\ client' = client /\ preface_received_' = preface_received_ /\ ClientType'
    BY Parsing DEF HeadersFor
  <1>2. f \in HeadersFrames
    BY <1>1, FrameFields
  <1>3. f.sid \in Sids /\ f.sid # 0
    BY <1>2 DEF HeadersFor, HeadersFrames
  <1>4. f.sid \in Streams
    BY <1>3 DEF Sids
  <1>5. last_stream_id_' = LastStreamId(f.sid) /\ SetStream(f.sid, r) /\ UNCHANGED <<connection_window_, settings>>
    BY DEF HeadersFor
  <1>6. last_stream_id_' \in Sids
    BY <1>4, <1>5, LastStreamGrows
  <1>7. /\ DOMAIN streams_' = DOMAIN streams_ \cup {f.sid}
        /\ streams_' \in [DOMAIN streams_' -> StreamRecs]
        /\ DOMAIN streams_' \subseteq Streams
        /\ streams_'[f.sid] = r
        /\ \A x \in DOMAIN streams_ : x # f.sid => streams_'[x] = streams_[x]
    BY <1>4, <1>5, SetTyped
  <1> QED
    BY <1>1, <1>2, <1>4, <1>5, <1>6, <1>7 DEF OneStream

(* GOAWAY after the stream was created.                                     *)
LEMMA FailedWithNew ==
    ASSUME H2Type, FailWith(last_stream_id_'), last_stream_id_' \in Sids
    PROVE  out' \in Seq(OutFrames) /\ goaway_sent_' = TRUE /\ (handled' = handled /\ (\E s \in Streams : OneStream(s)) => Failed)
  <1>1. out' = out \o <<Goaway(last_stream_id_')>> /\ goaway_sent_' = TRUE
    BY DEF FailWith, Emit
  <1>2. out' \in Seq(OutFrames)
    BY <1>1, GoawayTyped, OutTyped
  <1> QED
    BY <1>1, <1>2 DEF Failed

(* HEADERS.                                                                 *)
LEMMA HeadersEffect == H2Type /\ HandleHeaders => ServerEffect
  <1> SUFFICES ASSUME H2Type, HandleHeaders PROVE ServerEffect
    OBVIOUS
  <1>1. PICK f : f = Head(inbox)
    OBVIOUS
  <1>2. CASE HeadersOnStreamZero
    <2>1. /\ ~goaway_sent_ /\ inbox # <<>> /\ client' = client
          /\ preface_received_' = preface_received_ /\ ClientType'
      BY <1>2, Parsing DEF HeadersOnStreamZero
    <2>2. H2Type' /\ Failed
      BY <2>1, <1>2, FailTyped DEF HeadersOnStreamZero
    <2> QED
      BY <2>1, <2>2 DEF ServerEffect
  <1>3. ASSUME ~HeadersOnStreamZero PROVE f \in HeadersFrames /\ f.sid \in Streams
    <2>1. Parse("headers") /\ f.sid # 0
      BY <1>1, <1>3 DEF HandleHeaders, HeadersBadPadding, HeadersFragment, HeadersUndecodable, HeadersComplete, HeadersFor
    <2>2. f \in Frames /\ f.type = "headers"
      BY <2>1, <1>1, Parsing
    <2>3. f \in HeadersFrames
      BY <2>2, FrameFields
    <2> QED
      BY <2>1, <2>3 DEF HeadersFrames, Sids
  <1>4. CASE HeadersBadPadding
    <2>1. f.sid \in Streams /\ f \in HeadersFrames
      BY <1>1, <1>3, <1>4 DEF HeadersOnStreamZero, HeadersBadPadding, HeadersFor
    <2>2. PICK r : r = GetOrCreateStream(f.sid)
      OBVIOUS
    <2>3. r \in StreamRecs
      BY <2>1, <2>2, StreamTyped
    <2>4. HeadersFor(r) /\ FailWith(last_stream_id_') /\ UNCHANGED <<decoder, handled>>
      BY <1>1, <1>4, <2>2 DEF HeadersBadPadding
    <2>5. /\ ~goaway_sent_ /\ inbox # <<>> /\ client' = client
          /\ preface_received_' = preface_received_ /\ ClientType'
          /\ UNCHANGED <<connection_window_, settings>>
          /\ last_stream_id_' \in Sids /\ f.sid \in Streams /\ OneStream(f.sid)
          /\ DOMAIN streams_' \subseteq Streams /\ streams_' \in [DOMAIN streams_' -> StreamRecs]
      BY <1>1, <2>3, <2>4, HeadersParsed
    <2>6. out' \in Seq(OutFrames) /\ goaway_sent_' = TRUE /\ Failed
      BY <2>4, <2>5, FailedWithNew
    <2>7. H2Type'
      BY <2>4, <2>5, <2>6 DEF H2Type, ServerType
    <2> QED
      BY <2>5, <2>6, <2>7 DEF ServerEffect
  <1>5. ASSUME HeadersFragment \/ HeadersUndecodable \/ HeadersComplete
        PROVE  /\ f \in HeadersFrames /\ f.sid \in Streams /\ f.type = "headers"
               /\ Accumulated \in StreamRecs
               /\ Accumulated.headers = GetOrCreateStream(f.sid).headers
               /\ Accumulated.body = GetOrCreateStream(f.sid).body
               /\ Decoded \in DStates
    <2>1. Parse("headers") /\ f.sid # 0
      BY <1>1, <1>5 DEF HeadersFragment, HeadersUndecodable, HeadersComplete, HeadersFor
    <2>2. ~HeadersOnStreamZero
      BY <2>1, <1>1 DEF HeadersOnStreamZero
    <2>3. f \in HeadersFrames /\ f.sid \in Streams
      BY <2>2, <1>3
    <2> QED
      BY <2>3, <1>1, AccumulatedTyped DEF HeadersFrames
  <1>6. CASE HeadersFragment
    <2>1. HeadersFor(Accumulated) /\ ~f.bad /\ ~f.end_headers /\ UNCHANGED <<decoder, handled, goaway_sent_, out>>
      BY <1>1, <1>6 DEF HeadersFragment
    <2>2. /\ ~goaway_sent_ /\ inbox # <<>> /\ client' = client /\ f.type = "headers"
          /\ preface_received_' = preface_received_ /\ ClientType' /\ inbox' = Tail(inbox)
          /\ UNCHANGED <<connection_window_, settings>>
          /\ last_stream_id_' \in Sids /\ OneStream(f.sid) /\ f.sid \in Streams
          /\ DOMAIN streams_' \subseteq Streams /\ streams_' \in [DOMAIN streams_' -> StreamRecs]
      BY <1>1, <1>5, <1>6, <2>1, HeadersParsed
    <2>3. H2Type'
      BY <2>1, <2>2 DEF H2Type, ServerType
    <2>4. FragmentTaken(f)
      BY <2>1, <2>2 DEF FragmentTaken
    <2>5. Requested
      BY <2>1, <2>2, <2>4, <1>1 DEF Requested
    <2> QED
      BY <2>2, <2>3, <2>5 DEF ServerEffect
  <1>7. CASE HeadersUndecodable
    <2>1. HeadersFor(Accumulated) /\ decoder' = Decoded.d /\ FailWith(last_stream_id_') /\ UNCHANGED handled
      BY <1>1, <1>7 DEF HeadersUndecodable
    <2>2. /\ ~goaway_sent_ /\ inbox # <<>> /\ client' = client
          /\ preface_received_' = preface_received_ /\ ClientType'
          /\ UNCHANGED <<connection_window_, settings>>
          /\ last_stream_id_' \in Sids /\ f.sid \in Streams /\ OneStream(f.sid)
          /\ DOMAIN streams_' \subseteq Streams /\ streams_' \in [DOMAIN streams_' -> StreamRecs]
      BY <1>1, <1>5, <1>7, <2>1, HeadersParsed
    <2>3. decoder' \in SoundTables
      BY <1>5, <1>7, <2>1 DEF DStates
    <2>4. out' \in Seq(OutFrames) /\ goaway_sent_' = TRUE /\ Failed
      BY <2>1, <2>2, FailedWithNew
    <2>5. H2Type'
      BY <2>1, <2>2, <2>3, <2>4 DEF H2Type, ServerType
    <2> QED
      BY <2>2, <2>4, <2>5 DEF ServerEffect
  <1>8. CASE HeadersComplete
    <2>00. PICK none : none = <<>>
      OBVIOUS
    <2>0. none = <<>> /\ none \in Seq(Instructions)
      BY <2>00
    <2>1. PICK r : r = [Accumulated EXCEPT
                          !.headers = WithFields(@, Decoded.fields), !.header_block = none,
                          !.headers_complete = TRUE,
                          !.state = IF f.end_stream THEN "HALF_CLOSED_REMOTE" ELSE "OPEN"]
      OBVIOUS
    <2>2. PICK a : a = Accumulated
      OBVIOUS
    <2>3. a \in StreamRecs
      BY <1>5, <1>8, <2>2
    <2>4. PICK h : h = WithFields(a.headers, Decoded.fields)
      OBVIOUS
    <2>5. h \in Headers
      <3>1. a.headers \in Headers /\ Decoded.fields \in Seq(Fields)
        BY <2>3, <1>5, <1>8 DEF StreamRecs, DStates
      <3> QED
        BY <3>1, <2>4, WithFieldsTyped
    <2>6. PICK st : st = IF f.end_stream THEN "HALF_CLOSED_REMOTE" ELSE "OPEN"
      OBVIOUS
    <2>7. r = [a EXCEPT !.headers = h, !.header_block = none, !.headers_complete = TRUE, !.state = st]
      BY <2>1, <2>2, <2>4, <2>6
    <2>8. /\ r \in StreamRecs /\ r.headers = h /\ r.body = a.body /\ r.header_block = none
          /\ r.headers_complete = TRUE
      BY <2>0, <2>3, <2>5, <2>6, <2>7 DEF StreamRecs
    <2>9. /\ HeadersFor(r) /\ ~f.bad /\ f.end_headers /\ Decoded.ok /\ decoder' = Decoded.d
          /\ IF f.end_stream THEN Handle(f.sid, r) ELSE UNCHANGED <<handled, out>>
          /\ goaway_sent_' = goaway_sent_
      BY <1>1, <1>8, <2>0, <2>1 DEF HeadersComplete
    <2>10. /\ ~goaway_sent_ /\ inbox # <<>> /\ client' = client /\ f.type = "headers"
           /\ preface_received_' = preface_received_ /\ ClientType' /\ inbox' = Tail(inbox)
           /\ UNCHANGED <<connection_window_, settings>>
           /\ last_stream_id_' \in Sids /\ OneStream(f.sid) /\ f.sid \in Streams
           /\ streams_'[f.sid] = r
           /\ DOMAIN streams_' \subseteq Streams /\ streams_' \in [DOMAIN streams_' -> StreamRecs]
      BY <1>1, <2>8, <2>9, HeadersParsed
    <2>11. decoder' \in SoundTables
      BY <1>5, <1>8, <2>9 DEF DStates
    <2>12. f.end_stream \in BOOLEAN
      BY <1>5, <1>8 DEF HeadersFrames
    <2>13. f.end_stream => handled' \in Seq(Requests) /\ out' \in Seq(OutFrames) /\ HandledNow(f.sid)
      BY <2>8, <2>9, <2>10, HandleEffect DEF HandledNow
    <2>14. ~f.end_stream => handled' = handled /\ out' = out
      BY <2>9
    <2>15. handled' \in Seq(Requests) /\ out' \in Seq(OutFrames)
      BY <2>12, <2>13, <2>14 DEF H2Type, ServerType
    <2>16. H2Type'
      BY <2>9, <2>10, <2>11, <2>15 DEF H2Type, ServerType
    <2>17. h = WithFields(GetOrCreateStream(f.sid).headers, Decoded.fields) /\ a.body = GetOrCreateStream(f.sid).body
      BY <1>5, <1>8, <2>2, <2>4
    <2>18. HeadersTaken(f)
      BY <2>0, <2>8, <2>9, <2>10, <2>13, <2>14, <2>17 DEF HeadersTaken
    <2>19. Requested
      BY <2>9, <2>10, <2>18, <1>1 DEF Requested
    <2> QED
      BY <2>10, <2>16, <2>19 DEF ServerEffect
  <1> QED
    BY <1>2, <1>4, <1>6, <1>7, <1>8 DEF HandleHeaders

(* DATA.                                                                    *)
LEMMA DataEffect == H2Type /\ HandleData => ServerEffect
  <1> SUFFICES ASSUME H2Type, HandleData PROVE ServerEffect
    OBVIOUS
  <1>1. PICK f : f = Head(inbox)
    OBVIOUS
  <1>2. /\ ~goaway_sent_ /\ inbox # <<>> /\ f \in Frames /\ f.type = "data"
        /\ inbox' = Tail(inbox) /\ client' = client /\ preface_received_' = preface_received_ /\ ClientType'
    BY <1>1, Parsing DEF HandleData, DataOnUnknownStream, DataCompletes, DataContinues, DataFor
  <1>3. CASE DataOnUnknownStream
    <2>1. H2Type' /\ Failed
      BY <1>2, <1>3, FailTyped DEF DataOnUnknownStream
    <2> QED
      BY <2>1, <1>2 DEF ServerEffect
  <1>4. CASE DataCompletes \/ DataContinues
    <2>1. f.sid \in DOMAIN streams_ /\ SetStream(f.sid, WithBody(f))
          /\ UNCHANGED <<goaway_sent_, last_stream_id_, connection_window_, settings, decoder>>
      BY <1>1, <1>4 DEF DataCompletes, DataContinues, DataFor
    <2>2. f.sid \in Streams /\ streams_[f.sid] \in StreamRecs
      BY <2>1 DEF H2Type, ServerType
    <2>3. f.payload \in Seq(Pieces) /\ f.end_stream \in BOOLEAN
      BY <1>2, FrameFields DEF DataFrames
    <2>4. PICK old : old = streams_[f.sid]
      OBVIOUS
    <2>5. PICK r : r = WithBody(f)
      OBVIOUS
    <2>6. PICK b : b = old.body \o f.payload
      OBVIOUS
    <2>7. PICK st : st = IF f.end_stream THEN "HALF_CLOSED_REMOTE" ELSE old.state
      OBVIOUS
    <2>8. old \in StreamRecs /\ b \in Seq(Pieces)
      BY <2>2, <2>3, <2>4, <2>6 DEF StreamRecs
    <2>9. r = [old EXCEPT !.body = b, !.state = st]
      BY <2>4, <2>5, <2>6, <2>7 DEF WithBody
    <2>10. st \in {"IDLE", "OPEN", "HALF_CLOSED_REMOTE"}
      BY <2>7, <2>8 DEF StreamRecs
    <2>11. /\ r \in StreamRecs /\ r.body = b /\ r.headers = old.headers
           /\ r.header_block = old.header_block /\ r.headers_complete = old.headers_complete
      BY <2>8, <2>9, <2>10 DEF StreamRecs
    <2>12. /\ DOMAIN streams_' = DOMAIN streams_ \cup {f.sid}
           /\ streams_' \in [DOMAIN streams_' -> StreamRecs]
           /\ DOMAIN streams_' \subseteq Streams
           /\ streams_'[f.sid] = r
           /\ \A x \in DOMAIN streams_ : x # f.sid => streams_'[x] = streams_[x]
      BY <2>1, <2>2, <2>5, <2>11, SetTyped
    <2>13. OneStream(f.sid)
      BY <2>1, <2>12 DEF OneStream, LastStreamId
    <2>14. CASE DataCompletes
      <3>1. Completes(f) /\ Handle(f.sid, r)
        BY <1>1, <2>5, <2>14 DEF DataCompletes
      <3>2. handled' \in Seq(Requests) /\ out' \in Seq(OutFrames) /\ HandledNow(f.sid)
        BY <3>1, <2>2, <2>11, <2>12, HandleEffect DEF HandledNow
      <3>3. H2Type'
        BY <3>2, <1>2, <2>1, <2>12 DEF H2Type, ServerType
      <3>4. DataTaken(f)
        BY <3>1, <3>2, <1>2, <2>1, <2>4, <2>6, <2>11, <2>12, <2>13 DEF DataTaken
      <3> QED
        BY <3>3, <3>4, <1>1, <1>2, <2>1 DEF ServerEffect, Requested
    <2>15. CASE DataContinues
      <3>1. ~Completes(f) /\ out' = out \o Credits(f) /\ handled' = handled
        BY <1>1, <2>15 DEF DataContinues, Emit, Credits
      <3>2. Credits(f) \in Seq(OutFrames)
        <4>1. PICK n : n = Len(f.payload)
          OBVIOUS
        <4>2. n \in Nat
          BY <4>1, <2>3
        <4>3. WindowUpdate(0, n) \in OutFrames /\ WindowUpdate(f.sid, n) \in OutFrames
          BY <4>2, <2>2 DEF WindowUpdate, OutFrames, Sids
        <4>4. <<WindowUpdate(0, n), WindowUpdate(f.sid, n)>> \in Seq(OutFrames) /\ <<>> \in Seq(OutFrames)
          BY <4>3
        <4> QED
          BY <4>1, <4>4 DEF Credits
      <3>3. out' \in Seq(OutFrames)
        BY <3>1, <3>2 DEF H2Type, ServerType
      <3>4. H2Type'
        BY <3>1, <3>3, <1>2, <2>1, <2>12 DEF H2Type, ServerType
      <3>5. DataTaken(f)
        BY <3>1, <1>2, <2>1, <2>4, <2>6, <2>11, <2>12, <2>13 DEF DataTaken
      <3> QED
        BY <3>4, <3>5, <1>1, <1>2, <2>1 DEF ServerEffect, Requested
    <2> QED
      BY <1>4, <2>14, <2>15
  <1> QED
    BY <1>3, <1>4 DEF HandleData

(* Every step of the server.                                                *)
LEMMA ServerStepEffect == H2Type /\ ServerStep => ServerEffect
  BY PrefaceEffect, SettingsEffect, HeadersEffect, DataEffect, WindowEffect, PingEffect, OtherEffect
  DEF ServerStep

-----------------------------------------------------------------------------
(* What the client's steps do.                                              *)

(* What was said on other streams stays.                                    *)
SaidOn(s) == \A t \in Streams : t # s => client'.sent[t] = client.sent[t]

Ended(f) == IF f.end_stream THEN "done" ELSE "open"

(* HEADERS, DATA, and any other frame has been sent.                        *)
HeadersSent(f) ==
    LET e == Encoding(client.table, client.max, f.block)[Len(f.block)] IN
    /\ f.type = "headers" /\ f.sid \in Streams /\ ~f.bad
    /\ client.sent[f.sid].phase \in {"idle", "open"}
    /\ Encodable(client.table, client.max, f.block)
    /\ client'.table = e.table /\ client'.max = e.max
    /\ SaidOn(f.sid)
    /\ client'.sent[f.sid].fields = client.sent[f.sid].fields \o e.fields
    /\ client'.sent[f.sid].body = client.sent[f.sid].body
    /\ client'.sent[f.sid].phase = Ended(f)
    /\ client.derailed \/ ~f.end_headers => client'.derailed

DataSent(f) ==
    /\ f.type = "data" /\ f.sid \in Streams
    /\ client.sent[f.sid].phase = "open"
    /\ client'.table = client.table /\ client'.max = client.max
    /\ SaidOn(f.sid)
    /\ client'.sent[f.sid].fields = client.sent[f.sid].fields
    /\ client'.sent[f.sid].body = client.sent[f.sid].body \o f.payload
    /\ client'.sent[f.sid].phase = Ended(f)
    /\ client'.derailed = client.derailed

OtherSent(f) ==
    /\ f.type = "headers" => f.sid = 0 \/ f.bad
    /\ f.type = "data" => f.sid = 0
    /\ client'.table = client.table /\ client'.max = client.max
    /\ \A s \in Streams :
          /\ client'.sent[s].fields = client.sent[s].fields
          /\ client'.sent[s].body = client.sent[s].body
          /\ \/ client'.sent[s].phase = client.sent[s].phase
             \/ client.sent[s].phase = "open" /\ client'.sent[s].phase = "reset"
    /\ client.derailed \/ (Resizes(f) /\ f.value < client.max) => client'.derailed

ClientEffect ==
    /\ H2Type' /\ UNCHANGED h2Vars
    /\ \A k \in 1..Len(out) : out[k].type # "goaway"
    /\ \E f \in Frames :
          /\ inbox' = Append(inbox, f)
          /\ HeadersSent(f) \/ DataSent(f) \/ OtherSent(f)

(* What is common to them.                                                  *)
LEMMA Posting ==
    ASSUME H2Type, NEW f \in Frames, NEW c \in ClientRecs, TableBytes(c.table) <= c.max,
           Post(f, c)
    PROVE  /\ H2Type' /\ UNCHANGED h2Vars
           /\ \A k \in 1..Len(out) : out[k].type # "goaway"
           /\ inbox' = Append(inbox, f)
           /\ client'.table = c.table /\ client'.max = c.max /\ client'.sent = c.sent
           /\ client'.derailed = c.derailed
  <1>1. /\ UNCHANGED h2Vars /\ inbox' = Append(inbox, f) /\ client' = [c EXCEPT !.frames = @ + 1]
        /\ \A k \in 1..Len(out) : out[k].type # "goaway"
    BY DEF Post, Ready
  <1>2. c.frames + 1 \in Nat
    BY DEF ClientRecs
  <1>3. /\ client' \in ClientRecs /\ client'.table = c.table /\ client'.max = c.max
        /\ client'.sent = c.sent /\ client'.derailed = c.derailed
    BY <1>1, <1>2 DEF ClientRecs
  <1>4. inbox' \in Seq(Frames)
    BY <1>1 DEF H2Type, ClientType
  <1>5. H2Type'
    BY <1>1, <1>3, <1>4 DEF H2Type, ServerType, ClientType, h2Vars
  <1> QED
    BY <1>1, <1>3, <1>5

(* A control frame.                                                         *)
LEMMA PostingControl ==
    ASSUME H2Type, NEW f \in Frames, NEW c \in ClientRecs, TableBytes(c.table) <= c.max,
           PostControl(f, c)
    PROVE  /\ H2Type' /\ UNCHANGED h2Vars
           /\ \A k \in 1..Len(out) : out[k].type # "goaway"
           /\ inbox' = Append(inbox, f)
           /\ client'.table = c.table /\ client'.max = c.max /\ client'.sent = c.sent
           /\ client'.derailed = c.derailed
  <1>1. PICK d : d = [c EXCEPT !.control = @ + 1]
    OBVIOUS
  <1>2. Post(f, d)
    BY <1>1 DEF PostControl
  <1>3. c.control + 1 \in Nat
    BY DEF ClientRecs
  <1>4. /\ d \in ClientRecs /\ d.table = c.table /\ d.max = c.max
        /\ d.sent = c.sent /\ d.derailed = c.derailed
    BY <1>1, <1>3 DEF ClientRecs
  <1> QED
    BY <1>2, <1>4, Posting

(* The client's encoder.                                                    *)
LEMMA EncodeTyped ==
    ASSUME H2Type, NEW block \in Blocks
    PROVE  /\ block \in Seq(Instructions) /\ Encodable(client.table, client.max, block)
           /\ Encode(block) = Encoding(client.table, client.max, block)[Len(block)]
           /\ Encode(block) \in EStates
           /\ TableBytes(Encode(block).table) <= Encode(block).max
  <1>1. block \in Seq(Instructions)
    BY DEF Blocks, BoundedSeq, SeqOf
  <1>2. Encodable(client.table, client.max, block)
    BY DEF Blocks
  <1>3. PICK d : d = [table |-> client.table, max |-> client.max]
    OBVIOUS
  <1>4. client.table \in Seq(Fields) /\ client.max \in Nat /\ TableBytes(client.table) <= client.max
    BY DEF H2Type, ClientType, ClientRecs
  <1>5. d \in SoundTables /\ d.table = client.table /\ d.max = client.max
    BY <1>3, <1>4 DEF SoundTables, Tables
  <1>6. Pre(client.table, client.table)
    BY <1>4 DEF Pre
  <1>7. Follower(client, d)
    BY <1>4, <1>5, <1>6 DEF Follower
  <1>8. InStep(Encode(block), Decode(d, block))
    BY <1>1, <1>2, <1>7, BlockInStep DEF Encode
  <1> QED
    BY <1>1, <1>2, <1>8 DEF InStep, Follower, Encode

(* c is the client after the encoder's result e was said on stream s.       *)
SaidBlock(c, s, e, end_stream) ==
    /\ c \in ClientRecs /\ TableBytes(c.table) <= c.max
    /\ c.table = e.table /\ c.max = e.max /\ c.derailed = client.derailed
    /\ \A t \in Streams : t # s => c.sent[t] = client.sent[t]
    /\ c.sent[s].fields = client.sent[s].fields \o e.fields
    /\ c.sent[s].body = client.sent[s].body
    /\ c.sent[s].phase = IF end_stream THEN "done" ELSE "open"

(* What the client says with a header block.                                *)
LEMMA SayingTyped ==
    ASSUME H2Type, NEW s \in Streams, NEW block \in Blocks, NEW end_stream \in BOOLEAN
    PROVE  SaidBlock(Saying(s, block, end_stream), s, Encode(block), end_stream)
  <1>1. PICK e : e = Encode(block)
    OBVIOUS
  <1>2. e \in EStates /\ TableBytes(e.table) <= e.max
    BY <1>1, EncodeTyped
  <1>3. client \in ClientRecs /\ client.sent \in [Streams -> Said]
    BY DEF H2Type, ClientType, ClientRecs
  <1>4. PICK old : old = client.sent[s]
    OBVIOUS
  <1>5. old \in Said
    BY <1>3, <1>4
  <1>6. PICK h : h = old.fields \o e.fields
    OBVIOUS
  <1>7. h \in Seq(Fields)
    <2>1. old.fields \in Seq(Fields) /\ e.fields \in Seq(Fields)
      BY <1>2, <1>5 DEF Said, EStates
    <2> QED
      BY <2>1, <1>6
  <1>8. PICK ph : ph = IF end_stream THEN "done" ELSE "open"
    OBVIOUS
  <1>9. PICK new : new = [old EXCEPT !.fields = h, !.phase = ph]
    OBVIOUS
  <1>10. new \in Said /\ new.fields = h /\ new.body = old.body /\ new.phase = ph
    BY <1>5, <1>7, <1>8, <1>9 DEF Said
  <1>11. PICK sent : sent = [client.sent EXCEPT ![s] = new]
    OBVIOUS
  <1>12. sent \in [Streams -> Said] /\ sent[s] = new /\ \A t \in Streams : t # s => sent[t] = client.sent[t]
    BY <1>3, <1>10, <1>11
  <1>13. PICK c : c = Saying(s, block, end_stream)
    OBVIOUS
  <1>14. c = [client EXCEPT !.table = e.table, !.max = e.max, !.sent = sent]
    <2>1. PICK a : a = [client EXCEPT !.table = e.table, !.max = e.max]
      OBVIOUS
    <2>2. a \in ClientRecs /\ a.sent = client.sent
      BY <2>1, <1>2, <1>3 DEF ClientRecs, EStates
    <2>3. c = [a EXCEPT !.sent[s].fields = @ \o e.fields, !.sent[s].phase = ph]
      BY <2>1, <1>1, <1>8, <1>13, Zenon DEF Saying
    <2>4. c = [a EXCEPT !.sent = sent]
      BY <2>2, <2>3, <1>3, <1>4, <1>5, <1>6, <1>9, <1>11 DEF ClientRecs, Said
    <2> QED
      BY <2>1, <2>4, <1>3 DEF ClientRecs
  <1>15. /\ c \in ClientRecs /\ c.table = e.table /\ c.max = e.max /\ c.derailed = client.derailed
         /\ c.sent = sent
    BY <1>2, <1>3, <1>12, <1>14 DEF ClientRecs, EStates
  <1>16. TableBytes(c.table) <= c.max
    BY <1>2, <1>15
  <1> QED
    BY <1>1, <1>4, <1>6, <1>8, <1>10, <1>12, <1>13, <1>15, <1>16 DEF SaidBlock

(* HEADERS.                                                                 *)
LEMMA SendHeadersEffect ==
    ASSUME H2Type, NEW s \in Streams, SendHeaders(s)
    PROVE  ClientEffect
  <1>1. PICK block \in Blocks, end_stream \in BOOLEAN :
           /\ MaySendHeaders(s, end_stream)
           /\ Post(HeadersOf(s, block, end_stream, TRUE), Saying(s, block, end_stream))
    BY DEF SendHeaders
  <1>2. PICK f : f = HeadersOf(s, block, end_stream, TRUE)
    OBVIOUS
  <1>3. PICK c : c = Saying(s, block, end_stream)
    OBVIOUS
  <1>4. /\ block \in Seq(Instructions) /\ Encodable(client.table, client.max, block)
        /\ Encode(block) = Encoding(client.table, client.max, block)[Len(block)]
    BY EncodeTyped
  <1>5. /\ f \in Frames /\ f.type = "headers" /\ f.sid = s /\ f.block = block
        /\ f.end_stream = end_stream /\ f.end_headers = TRUE /\ ~f.bad
    <2>1. f = [type |-> "headers", sid |-> s, block |-> block, end_stream |-> end_stream,
               end_headers |-> TRUE, bad |-> FALSE]
      BY <1>2 DEF HeadersOf
    <2>2. f \in HeadersFrames /\ f.type = "headers"
      BY <2>1, <1>4 DEF HeadersFrames, Sids
    <2>3. f \in Frames
      BY <2>2 DEF Frames, ValidSetting
    <2> QED
      BY <2>1, <2>3
  <1>6. /\ c \in ClientRecs /\ TableBytes(c.table) <= c.max
        /\ c.table = Encode(block).table /\ c.max = Encode(block).max /\ c.derailed = client.derailed
        /\ \A t \in Streams : t # s => c.sent[t] = client.sent[t]
        /\ c.sent[s].fields = client.sent[s].fields \o Encode(block).fields
        /\ c.sent[s].body = client.sent[s].body
        /\ c.sent[s].phase = IF end_stream THEN "done" ELSE "open"
    <2>1. PICK e : e = Encode(block)
      OBVIOUS
    <2>2. SaidBlock(c, s, e, end_stream)
      BY <2>1, <1>3, SayingTyped
    <2> QED
      BY <2>1, <2>2 DEF SaidBlock
  <1>7. Post(f, c)
    BY <1>1, <1>2, <1>3
  <1>8. /\ H2Type' /\ UNCHANGED h2Vars
        /\ \A k \in 1..Len(out) : out[k].type # "goaway"
        /\ inbox' = Append(inbox, f)
        /\ client'.table = c.table /\ client'.max = c.max /\ client'.sent = c.sent
        /\ client'.derailed = c.derailed
    BY <1>5, <1>6, <1>7, Posting
  <1>9. client.sent[s].phase \in {"idle", "open"}
    BY <1>1 DEF MaySendHeaders
  <1>10. HeadersSent(f)
    BY <1>4, <1>5, <1>6, <1>8, <1>9 DEF HeadersSent, SaidOn, Ended
  <1> QED
    BY <1>5, <1>8, <1>10 DEF ClientEffect

(* HEADERS without END_HEADERS.                                             *)
LEMMA SendSplitHeadersEffect ==
    ASSUME H2Type, NEW s \in Streams, SendSplitHeaders(s)
    PROVE  ClientEffect
  <1>1. PICK block \in Blocks, end_stream \in BOOLEAN :
           /\ MaySendHeaders(s, end_stream)
           /\ PostControl(HeadersOf(s, block, end_stream, FALSE),
                          [Saying(s, block, end_stream) EXCEPT !.continuing = s, !.derailed = TRUE])
    BY DEF SendSplitHeaders
  <1>2. PICK f : f = HeadersOf(s, block, end_stream, FALSE)
    OBVIOUS
  <1>3. PICK b : b = Saying(s, block, end_stream)
    OBVIOUS
  <1>4. /\ block \in Seq(Instructions) /\ Encodable(client.table, client.max, block)
        /\ Encode(block) = Encoding(client.table, client.max, block)[Len(block)]
    BY EncodeTyped
  <1>5. /\ f \in Frames /\ f.type = "headers" /\ f.sid = s /\ f.block = block
        /\ f.end_stream = end_stream /\ f.end_headers = FALSE /\ ~f.bad
    <2>1. f = [type |-> "headers", sid |-> s, block |-> block, end_stream |-> end_stream,
               end_headers |-> FALSE, bad |-> FALSE]
      BY <1>2 DEF HeadersOf
    <2>2. f \in HeadersFrames /\ f.type = "headers"
      BY <2>1, <1>4 DEF HeadersFrames, Sids
    <2>3. f \in Frames
      BY <2>2 DEF Frames, ValidSetting
    <2> QED
      BY <2>1, <2>3
  <1>6. /\ b \in ClientRecs /\ TableBytes(b.table) <= b.max
        /\ b.table = Encode(block).table /\ b.max = Encode(block).max /\ b.derailed = client.derailed
        /\ \A t \in Streams : t # s => b.sent[t] = client.sent[t]
        /\ b.sent[s].fields = client.sent[s].fields \o Encode(block).fields
        /\ b.sent[s].body = client.sent[s].body
        /\ b.sent[s].phase = IF end_stream THEN "done" ELSE "open"
    <2>1. PICK e : e = Encode(block)
      OBVIOUS
    <2>2. SaidBlock(b, s, e, end_stream)
      BY <2>1, <1>3, SayingTyped
    <2> QED
      BY <2>1, <2>2 DEF SaidBlock
  <1>7. PICK c : c = [b EXCEPT !.continuing = s, !.derailed = TRUE]
    OBVIOUS
  <1>8. /\ c \in ClientRecs /\ c.table = b.table /\ c.max = b.max /\ c.sent = b.sent /\ c.derailed = TRUE
    BY <1>6, <1>7 DEF ClientRecs, Sids
  <1>9. PostControl(f, c) /\ TableBytes(c.table) <= c.max
    BY <1>1, <1>2, <1>3, <1>6, <1>7, <1>8
  <1>10. /\ H2Type' /\ UNCHANGED h2Vars
         /\ \A k \in 1..Len(out) : out[k].type # "goaway"
         /\ inbox' = Append(inbox, f)
         /\ client'.table = c.table /\ client'.max = c.max /\ client'.sent = c.sent
         /\ client'.derailed = c.derailed
    BY <1>5, <1>8, <1>9, PostingControl
  <1>11. client.sent[s].phase \in {"idle", "open"}
    BY <1>1 DEF MaySendHeaders
  <1>12. HeadersSent(f)
    BY <1>4, <1>5, <1>6, <1>8, <1>10, <1>11 DEF HeadersSent, SaidOn, Ended
  <1> QED
    BY <1>5, <1>10, <1>12 DEF ClientEffect

(* The client with another record of a stream.                              *)
WithSent(s, new) == [client EXCEPT !.sent[s] = new]

(* Only that record changes.                                                *)
LEMMA SentTyped ==
    ASSUME H2Type, NEW s \in Streams, NEW new \in Said, NEW c, c = WithSent(s, new)
    PROVE  /\ c \in ClientRecs /\ c.table = client.table /\ c.max = client.max /\ c.derailed = client.derailed
           /\ c.sent[s] = new /\ \A t \in Streams : t # s => c.sent[t] = client.sent[t]
           /\ TableBytes(c.table) <= c.max
  <1>1. client \in ClientRecs /\ client.sent \in [Streams -> Said] /\ TableBytes(client.table) <= client.max
    BY DEF H2Type, ClientType, ClientRecs
  <1>2. PICK sent : sent = [client.sent EXCEPT ![s] = new]
    OBVIOUS
  <1>3. sent \in [Streams -> Said] /\ sent[s] = new /\ \A t \in Streams : t # s => sent[t] = client.sent[t]
    BY <1>1, <1>2
  <1>4. c = [client EXCEPT !.sent = sent]
    BY <1>1, <1>2 DEF ClientRecs, WithSent
  <1>5. c \in ClientRecs /\ c.table = client.table /\ c.max = client.max /\ c.derailed = client.derailed /\ c.sent = sent
    BY <1>1, <1>3, <1>4 DEF ClientRecs
  <1> QED
    BY <1>1, <1>3, <1>5

(* DATA.                                                                    *)
LEMMA SendDataEffect ==
    ASSUME H2Type, NEW s \in Streams, SendData(s)
    PROVE  ClientEffect
  <1>1. PICK payload \in {<<>>} \cup {<<Piece(client.frames, padded)>> : padded \in BOOLEAN},
             end_stream \in BOOLEAN :
           Post([type |-> "data", sid |-> s, payload |-> payload, end_stream |-> end_stream],
                [client EXCEPT !.sent[s].body = @ \o payload,
                               !.sent[s].phase = IF end_stream THEN "done" ELSE "open"])
    BY DEF SendData
  <1>2. client.sent[s].phase = "open"
    BY DEF SendData
  <1>3. client \in ClientRecs /\ client.sent \in [Streams -> Said] /\ client.frames \in Nat
    BY DEF H2Type, ClientType, ClientRecs
  <1>4. payload \in Seq(Pieces)
    <2>1. CASE payload = <<>>
      BY <2>1
    <2>2. ASSUME NEW padded \in BOOLEAN, payload = <<Piece(client.frames, padded)>>
          PROVE  payload \in Seq(Pieces)
      <3>1. PICK piece : piece = Piece(client.frames, padded)
        OBVIOUS
      <3>2. piece \in Pieces
        BY <3>1, <1>3 DEF Piece, Pieces
      <3> QED
        BY <3>1, <3>2, <2>2
    <2> QED
      BY <2>1, <2>2
  <1>5. PICK f : f = [type |-> "data", sid |-> s, payload |-> payload, end_stream |-> end_stream]
    OBVIOUS
  <1>6. f \in DataFrames /\ f.type = "data" /\ f.sid = s /\ f.payload = payload /\ f.end_stream = end_stream
    BY <1>4, <1>5 DEF DataFrames, Sids
  <1>7. f \in Frames
    BY <1>6 DEF Frames, ValidSetting
  <1>8. PICK old : old = client.sent[s]
    OBVIOUS
  <1>9. PICK b : b = old.body \o payload
    OBVIOUS
  <1>10. old \in Said /\ b \in Seq(Pieces)
    BY <1>3, <1>4, <1>8, <1>9 DEF Said
  <1>11. PICK ph : ph = IF end_stream THEN "done" ELSE "open"
    OBVIOUS
  <1>12. PICK new : new = [old EXCEPT !.body = b, !.phase = ph]
    OBVIOUS
  <1>13. new \in Said /\ new.fields = old.fields /\ new.body = b /\ new.phase = ph
    BY <1>10, <1>11, <1>12 DEF Said
  <1>14. PICK c : c = WithSent(s, new)
    OBVIOUS
  <1>15. /\ c \in ClientRecs /\ c.table = client.table /\ c.max = client.max /\ c.derailed = client.derailed
         /\ c.sent[s] = new /\ \A t \in Streams : t # s => c.sent[t] = client.sent[t]
         /\ TableBytes(c.table) <= c.max
    BY <1>13, <1>14, SentTyped
  <1>16. c = [client EXCEPT !.sent[s].body = @ \o payload, !.sent[s].phase = IF end_stream THEN "done" ELSE "open"]
    BY <1>3, <1>8, <1>9, <1>10, <1>11, <1>12, <1>14 DEF ClientRecs, Said, WithSent
  <1>17. Post(f, c)
    BY <1>1, <1>5, <1>16
  <1>18. /\ H2Type' /\ UNCHANGED h2Vars
         /\ \A k \in 1..Len(out) : out[k].type # "goaway"
         /\ inbox' = Append(inbox, f)
         /\ client'.table = c.table /\ client'.max = c.max /\ client'.sent = c.sent
         /\ client'.derailed = c.derailed
    BY <1>7, <1>15, <1>17, Posting
  <1>19. DataSent(f)
    BY <1>2, <1>6, <1>8, <1>9, <1>11, <1>13, <1>15, <1>18 DEF DataSent, SaidOn, Ended
  <1> QED
    BY <1>7, <1>18, <1>19 DEF ClientEffect

(* RST_STREAM.                                                              *)
LEMMA SendResetEffect ==
    ASSUME H2Type, NEW s \in Streams, SendReset(s)
    PROVE  ClientEffect
  <1>1. /\ client.sent[s].phase = "open"
        /\ PostControl([type |-> "rst_stream", sid |-> s], [client EXCEPT !.sent[s].phase = "reset"])
    BY DEF SendReset
  <1>2. client \in ClientRecs /\ client.sent \in [Streams -> Said]
    BY DEF H2Type, ClientType, ClientRecs
  <1>3. PICK f : f = [type |-> "rst_stream", sid |-> s]
    OBVIOUS
  <1>4. f.type = "rst_stream" /\ f \in Frames
    BY <1>3 DEF Frames, PlainFrames, Sids, ValidSetting
  <1>5. PICK old : old = client.sent[s]
    OBVIOUS
  <1>6. PICK new : new = [old EXCEPT !.phase = "reset"]
    OBVIOUS
  <1>7. old \in Said
    BY <1>2, <1>5
  <1>8. new \in Said /\ new.fields = old.fields /\ new.body = old.body /\ new.phase = "reset"
    BY <1>6, <1>7 DEF Said
  <1>9. PICK c : c = WithSent(s, new)
    OBVIOUS
  <1>10. /\ c \in ClientRecs /\ c.table = client.table /\ c.max = client.max /\ c.derailed = client.derailed
         /\ c.sent[s] = new /\ \A t \in Streams : t # s => c.sent[t] = client.sent[t]
         /\ TableBytes(c.table) <= c.max
    BY <1>8, <1>9, SentTyped
  <1>11. c = [client EXCEPT !.sent[s].phase = "reset"]
    BY <1>2, <1>5, <1>6, <1>7, <1>9 DEF ClientRecs, Said, WithSent
  <1>12. PostControl(f, c)
    BY <1>1, <1>3, <1>11
  <1>13. /\ H2Type' /\ UNCHANGED h2Vars
         /\ \A k \in 1..Len(out) : out[k].type # "goaway"
         /\ inbox' = Append(inbox, f)
         /\ client'.table = c.table /\ client'.max = c.max /\ client'.sent = c.sent
         /\ client'.derailed = c.derailed
    BY <1>4, <1>10, <1>12, PostingControl
  <1>14. ASSUME NEW t \in Streams
         PROVE  /\ client'.sent[t].fields = client.sent[t].fields
                /\ client'.sent[t].body = client.sent[t].body
                /\ \/ client'.sent[t].phase = client.sent[t].phase
                   \/ client.sent[t].phase = "open" /\ client'.sent[t].phase = "reset"
    <2>1. CASE t = s
      BY <2>1, <1>1, <1>5, <1>8, <1>10, <1>13
    <2>2. CASE t # s
      BY <2>2, <1>10, <1>13
    <2> QED
      BY <2>1, <2>2
  <1>15. OtherSent(f)
    BY <1>4, <1>10, <1>13, <1>14 DEF OtherSent, Resizes
  <1> QED
    BY <1>4, <1>13, <1>15 DEF ClientEffect

(* A frame that says nothing about requests.                                *)
LEMMA OtherPosted ==
    ASSUME H2Type, NEW f \in Frames, NEW c \in ClientRecs,
           c.table = client.table, c.max = client.max, c.sent = client.sent,
           client.derailed \/ (Resizes(f) /\ f.value < client.max) => c.derailed,
           f.type = "headers" => f.sid = 0 \/ f.bad, f.type = "data" => f.sid = 0,
           Post(f, c) \/ PostControl(f, c)
    PROVE  ClientEffect
  <1>1. TableBytes(c.table) <= c.max
    BY DEF H2Type, ClientType
  <1>2. /\ H2Type' /\ UNCHANGED h2Vars
        /\ \A k \in 1..Len(out) : out[k].type # "goaway"
        /\ inbox' = Append(inbox, f)
        /\ client'.table = c.table /\ client'.max = c.max /\ client'.sent = c.sent
        /\ client'.derailed = c.derailed
    BY <1>1, Posting, PostingControl
  <1>3. OtherSent(f)
    BY <1>2 DEF OtherSent
  <1> QED
    BY <1>2, <1>3 DEF ClientEffect

(* CONTINUATION, SETTINGS, PING and the others.                             *)
LEMMA SendOthersEffect ==
    ASSUME H2Type, SendContinuation \/ SendSettings \/ SendPing \/ SendOther
    PROVE  ClientEffect
  <1>0. client \in ClientRecs
    BY DEF H2Type, ClientType
  <1>1. CASE SendContinuation
    <2>1. PICK f : f = [type |-> "continuation", sid |-> client.continuing]
      OBVIOUS
    <2>2. f \in Frames /\ f.type = "continuation"
      BY <1>0, <2>1 DEF Frames, PlainFrames, ValidSetting, ClientRecs
    <2>3. PICK c : c = [client EXCEPT !.continuing = 0]
      OBVIOUS
    <2>4. c \in ClientRecs /\ c.table = client.table /\ c.max = client.max /\ c.sent = client.sent
          /\ c.derailed = client.derailed
      BY <1>0, <2>3 DEF ClientRecs, Sids
    <2>5. Post(f, c)
      BY <1>1, <2>1, <2>3 DEF SendContinuation
    <2> QED
      BY <2>2, <2>4, <2>5, OtherPosted DEF Resizes
  <1>2. CASE SendSettings
    <2>1. PICK a \in Announced :
            PostControl([type |-> "settings", id |-> a.id, value |-> a.value, ack |-> FALSE, bad |-> FALSE],
                        [client EXCEPT !.derailed = @ \/ (a.id = "HEADER_TABLE_SIZE" /\ a.value < client.max)])
      BY <1>2 DEF SendSettings
    <2>2. a.id \in SettingIds /\ a.value \in Nat /\ (a.id = "MAX_FRAME_SIZE" => a.value # 0)
      BY Http2Assumption DEF SettingIds
    <2>3. PICK f : f = [type |-> "settings", id |-> a.id, value |-> a.value, ack |-> FALSE, bad |-> FALSE]
      OBVIOUS
    <2>4. f.type = "settings" /\ f.id = a.id /\ f.value = a.value /\ ~f.ack /\ ~f.bad /\ f \in SettingsFrames
      BY <2>2, <2>3 DEF SettingsFrames
    <2>5. f \in Frames
      BY <2>2, <2>4 DEF Frames, ValidSetting
    <2>6. PICK d : d = (client.derailed \/ (a.id = "HEADER_TABLE_SIZE" /\ a.value < client.max))
      OBVIOUS
    <2>7. PICK c : c = [client EXCEPT !.derailed = d]
      OBVIOUS
    <2>8. d \in BOOLEAN
      BY <2>6
    <2>9. c \in ClientRecs /\ c.table = client.table /\ c.max = client.max /\ c.sent = client.sent
          /\ c.derailed = d
      BY <1>0, <2>7, <2>8 DEF ClientRecs
    <2>10. PostControl(f, c)
      BY <2>1, <2>3, <2>6, <2>7
    <2>11. client.derailed \/ (Resizes(f) /\ f.value < client.max) => c.derailed
      BY <2>4, <2>6, <2>9 DEF Resizes
    <2> QED
      BY <2>4, <2>5, <2>9, <2>10, <2>11, OtherPosted
  <1>3. CASE SendPing
    <2>1. PICK f : f = [type |-> "ping", id |-> client.pings + 1, ack |-> FALSE, bad |-> FALSE]
      OBVIOUS
    <2>2. client.pings + 1 \in Nat
      BY <1>0 DEF ClientRecs
    <2>3. f \in Frames /\ f.type = "ping"
      BY <2>1, <2>2 DEF Frames, PingFrames, ValidSetting
    <2>4. PICK c : c = [client EXCEPT !.pings = @ + 1]
      OBVIOUS
    <2>5. c \in ClientRecs /\ c.table = client.table /\ c.max = client.max /\ c.sent = client.sent
          /\ c.derailed = client.derailed
      BY <1>0, <2>2, <2>4 DEF ClientRecs
    <2>6. PostControl(f, c)
      BY <1>3, <2>1, <2>4 DEF SendPing
    <2> QED
      BY <2>3, <2>5, <2>6, OtherPosted DEF Resizes
  <1>4. CASE SendOther
    <2>1. PICK f \in Others : PostControl(f, client)
      BY <1>4 DEF SendOther
    <2>2. /\ f \in Frames
          /\ f.type = "headers" => f.sid = 0 \/ f.bad
          /\ f.type = "data" => f.sid = 0
          /\ ~Resizes(f)
      <3>0. PICK none : none = <<>>
        OBVIOUS
      <3>1. PICK p : p = <<Piece(0, FALSE)>>
        OBVIOUS
      <3>2. PICK q : q = [k \in 1..3 |-> Piece(0, FALSE)]
        OBVIOUS
      <3>3. none \in Seq(Instructions) /\ p \in Seq(Pieces) /\ q \in Seq(Pieces)
        <4>1. PICK piece : piece = Piece(0, FALSE)
          OBVIOUS
        <4>2. piece \in Pieces
          BY <4>1 DEF Piece, Pieces
        <4>3. q \in [1..3 -> Pieces] /\ 3 \in Nat
          BY <3>2, <4>1, <4>2
        <4>4. q \in Seq(Pieces)
          BY <4>3, SeqDef
        <4>5. p = <<piece>>
          BY <3>1, <4>1, Zenon
        <4>6. p \in Seq(Pieces)
          BY <4>2, <4>5
        <4> QED
          BY <3>0, <4>4, <4>6
      <3>4. \/ f = [type |-> "settings", ack |-> TRUE, bad |-> FALSE]
            \/ f = [type |-> "settings", ack |-> FALSE, bad |-> TRUE]
            \/ f = [type |-> "ping", ack |-> TRUE, bad |-> FALSE]
            \/ f = [type |-> "ping", ack |-> FALSE, bad |-> TRUE]
            \/ f = [type |-> "goaway"]
            \/ f = [type |-> "headers", sid |-> 0, block |-> none, end_stream |-> TRUE,
                    end_headers |-> TRUE, bad |-> FALSE]
            \/ f = [type |-> "data", sid |-> 0, payload |-> p, end_stream |-> TRUE]
            \/ f = [type |-> "data", sid |-> 0, payload |-> q, end_stream |-> TRUE]
            \/ f \in [type : {"window_update"}, sid : Streams \cup {0}, inc : {0, 1}]
            \/ f \in [type : {"headers"}, sid : Streams, block : {none}, end_stream : {TRUE},
                      end_headers : {TRUE}, bad : {TRUE}]
        BY <2>1, <3>0, <3>1, <3>2, Zenon DEF Others
      <3>5. CASE f \in [type : {"window_update"}, sid : Streams \cup {0}, inc : {0, 1}]
        BY <3>5 DEF Frames, PlainFrames, ValidSetting, Sids, Resizes
      <3>6. CASE f \in [type : {"headers"}, sid : Streams, block : {none}, end_stream : {TRUE},
                        end_headers : {TRUE}, bad : {TRUE}]
        <4>1. f \in HeadersFrames /\ f.type = "headers" /\ f.bad
          BY <3>3, <3>6 DEF HeadersFrames, Sids
        <4> QED
          BY <4>1 DEF Frames, ValidSetting, Resizes
      <3>7. CASE f = [type |-> "settings", ack |-> TRUE, bad |-> FALSE]
        <4>1. f \in SettingsFrames /\ f.type = "settings" /\ (f.ack \/ f.bad)
          BY <3>7 DEF SettingsFrames
        <4> QED
          BY <4>1 DEF Frames, ValidSetting, Resizes
      <3>72. CASE f = [type |-> "settings", ack |-> FALSE, bad |-> TRUE]
        <4>1. f \in SettingsFrames /\ f.type = "settings" /\ (f.ack \/ f.bad)
          BY <3>72 DEF SettingsFrames
        <4> QED
          BY <4>1 DEF Frames, ValidSetting, Resizes
      <3>8. CASE f = [type |-> "ping", ack |-> TRUE, bad |-> FALSE]
        <4>1. f \in PingFrames /\ f.type = "ping"
          BY <3>8 DEF PingFrames
        <4> QED
          BY <4>1 DEF Frames, ValidSetting, Resizes
      <3>82. CASE f = [type |-> "ping", ack |-> FALSE, bad |-> TRUE]
        <4>1. f \in PingFrames /\ f.type = "ping"
          BY <3>82 DEF PingFrames
        <4> QED
          BY <4>1 DEF Frames, ValidSetting, Resizes
      <3>9. CASE f = [type |-> "goaway"]
        <4>1. f \in PlainFrames /\ f.type = "goaway"
          BY <3>9 DEF PlainFrames
        <4> QED
          BY <4>1 DEF Frames, ValidSetting, Resizes
      <3>10. CASE f = [type |-> "data", sid |-> 0, payload |-> p, end_stream |-> TRUE]
        <4>1. f \in DataFrames /\ f.sid = 0 /\ f.type = "data"
          BY <3>3, <3>10 DEF DataFrames, Sids
        <4> QED
          BY <4>1 DEF Frames, ValidSetting, Resizes
      <3>102. CASE f = [type |-> "data", sid |-> 0, payload |-> q, end_stream |-> TRUE]
        <4>1. f \in DataFrames /\ f.sid = 0 /\ f.type = "data"
          BY <3>3, <3>102 DEF DataFrames, Sids
        <4> QED
          BY <4>1 DEF Frames, ValidSetting, Resizes
      <3>11. CASE f = [type |-> "headers", sid |-> 0, block |-> none, end_stream |-> TRUE,
                       end_headers |-> TRUE, bad |-> FALSE]
        <4>1. f \in HeadersFrames /\ f.type = "headers" /\ f.sid = 0
          BY <3>3, <3>11 DEF HeadersFrames, Sids
        <4> QED
          BY <4>1 DEF Frames, ValidSetting, Resizes
      <3> QED
        BY <3>4, <3>5, <3>6, <3>7, <3>72, <3>8, <3>82, <3>9, <3>10, <3>102, <3>11
    <2> QED
      BY <1>0, <2>1, <2>2, OtherPosted
  <1> QED
    BY <1>1, <1>2, <1>3, <1>4

(* Every step of the client.                                                *)
LEMMA ClientStepEffect == H2Type /\ ClientStep => ClientEffect
  <1> SUFFICES ASSUME H2Type, ClientStep PROVE ClientEffect
    OBVIOUS
  <1>1. ASSUME NEW s \in Streams, SendHeaders(s) \/ SendSplitHeaders(s) \/ SendData(s) \/ SendReset(s)
        PROVE  ClientEffect
    BY <1>1, SendHeadersEffect, SendSplitHeadersEffect, SendDataEffect, SendResetEffect
  <1> QED
    BY <1>1, SendOthersEffect DEF ClientStep

-----------------------------------------------------------------------------
(* Which requests are handled, and what is written.                         *)

(* Streams are numbered up to last_stream_id_, and requests are handled on  *)
(* streams that exist.                                                      *)
OrderInv ==
    /\ \A s \in DOMAIN streams_ : s <= last_stream_id_
    /\ \A k \in 1..Len(handled) : handled[k].sid \in DOMAIN streams_
    /\ \A k \in 1..Len(out) : out[k].type = "goaway" => goaway_sent_
    /\ GoawayIsLast

(* A frame that ends a request.                                             *)
IsEnd(f, s) ==
    \/ f.type = "headers" /\ f.sid = s /\ ~f.bad /\ f.end_stream
    \/ f.type = "data" /\ f.sid = s /\ f.end_stream
EndAt(s) == {k \in 1..Len(inbox) : IsEnd(inbox[k], s)}

(* A request ends once: the end is still to come, or on its way, or parsed. *)
EndsOnce(s) ==
    /\ \A j, k \in EndAt(s) : j = k
    /\ \A j, k \in HandledAt(s) : j = k
    /\ EndAt(s) # {} => HandledAt(s) = {} /\ client.sent[s].phase = "done"
    /\ HandledAt(s) # {} => client.sent[s].phase = "done"

EndInv == \A s \in Streams : EndsOnce(s)

(* The last stream is the greatest, after a stream was used or created.     *)
LEMMA OrderOfStreams ==
    ASSUME H2Type, OrderInv, H2Type',
           \/ DOMAIN streams_' = DOMAIN streams_ /\ last_stream_id_' = last_stream_id_
           \/ \E s \in Streams : OneStream(s)
    PROVE  /\ \A s \in DOMAIN streams_' : s <= last_stream_id_'
           /\ DOMAIN streams_ \subseteq DOMAIN streams_'
           /\ \A k \in 1..Len(handled) : handled[k].sid \in DOMAIN streams_' /\ handled[k].sid <= last_stream_id_'
  <1>1. \A k \in 1..Len(handled) : handled[k].sid \in DOMAIN streams_
    BY DEF OrderInv
  <1>2. CASE DOMAIN streams_' = DOMAIN streams_ /\ last_stream_id_' = last_stream_id_
    BY <1>1, <1>2 DEF OrderInv
  <1>3. ASSUME NEW s \in Streams, OneStream(s)
        PROVE  (\A x \in DOMAIN streams_' : x <= last_stream_id_') /\ DOMAIN streams_ \subseteq DOMAIN streams_'
    <2>1. DOMAIN streams_' = DOMAIN streams_ \cup {s} /\ last_stream_id_' = LastStreamId(s)
      BY <1>3 DEF OneStream
    <2>2. last_stream_id_ <= last_stream_id_' /\ (s \notin DOMAIN streams_ => s <= last_stream_id_')
      BY <2>1, LastStreamGrows
    <2>3. last_stream_id_ \in Nat /\ last_stream_id_' \in Nat /\ DOMAIN streams_' \subseteq Nat
      BY SidsNat DEF H2Type, ServerType
    <2>4. \A x \in DOMAIN streams_ : x <= last_stream_id_
      BY DEF OrderInv
    <2> QED
      BY <2>1, <2>2, <2>3, <2>4
  <1> QED
    BY <1>1, <1>2, <1>3

(* Frames are written after the ones there are.                             *)
LEMMA Written ==
    ASSUME H2Type, NEW w \in Seq(OutFrames), out' = out \o w
    PROVE  /\ IsJoin(out', out, w) /\ Len(out) \in Nat /\ Len(w) \in Nat
           /\ out' \in Seq(OutFrames)
  BY Joined DEF H2Type, ServerType

(* w is what a step writes.                                                 *)
Writes(w) == w \in Seq(OutFrames) /\ out' = out \o w

(* w answers no request.                                                    *)
Notes(w) == \A k \in 1..Len(w) : w[k].type \in {"settings", "ping", "window_update"}

(* What a step that does not close the connection writes: a response if it  *)
(* is the end of a request that has been parsed.                            *)
Output ==
    \/ handled' = handled /\ \E w : Writes(w) /\ Notes(w)
    \/ \E s \in Streams :
          /\ IsEnd(Head(inbox), s)
          /\ s \in DOMAIN streams_'
          /\ handled' = Append(handled, [sid |-> s, headers |-> streams_'[s].headers, body |-> streams_'[s].body])
          /\ \E w : Writes(w) /\ IsResponse(w, s)

(* Credit is given back in two frames, or none.                             *)
LEMMA CreditFrames ==
    ASSUME NEW f \in DataFrames, f.sid \in Streams
    PROVE  /\ Credits(f) \in Seq(OutFrames) /\ Notes(Credits(f))
           /\ Len(f.payload) = 0 => Len(Credits(f)) = 0
           /\ Len(f.payload) # 0 =>
                /\ Len(Credits(f)) = 2
                /\ Credits(f)[1] = WindowUpdate(0, Len(f.payload))
                /\ Credits(f)[2] = WindowUpdate(f.sid, Len(f.payload))
  <1>1. PICK n : n = Len(f.payload)
    OBVIOUS
  <1>2. n \in Nat
    BY <1>1 DEF DataFrames
  <1>3. PICK a : a = WindowUpdate(0, n)
    OBVIOUS
  <1>4. PICK b : b = WindowUpdate(f.sid, n)
    OBVIOUS
  <1>5. a \in OutFrames /\ b \in OutFrames /\ a.type = "window_update" /\ b.type = "window_update"
    BY <1>2, <1>3, <1>4 DEF WindowUpdate, OutFrames, Sids
  <1>6. PICK v : v = <<a, b>>
    OBVIOUS
  <1>7. v \in Seq(OutFrames) /\ Len(v) = 2 /\ v[1] = a /\ v[2] = b
    BY <1>5, <1>6
  <1>8. PICK none : none = <<>>
    OBVIOUS
  <1>9. none \in Seq(OutFrames) /\ Len(none) = 0
    BY <1>8
  <1>10. Notes(v) /\ Notes(none)
    BY <1>5, <1>7, <1>9 DEF Notes
  <1>11. CASE n = 0
    <2>1. Credits(f) = none
      BY <1>1, <1>8, <1>11 DEF Credits
    <2> QED
      BY <2>1, <1>1, <1>9, <1>10, <1>11
  <1>12. CASE n # 0
    <2>1. Credits(f) = v
      BY <1>1, <1>2, <1>3, <1>4, <1>6, <1>12 DEF Credits
    <2> QED
      BY <2>1, <1>1, <1>3, <1>4, <1>7, <1>10, <1>12
  <1> QED
    BY <1>11, <1>12

(* A step that does not close the connection.                               *)
LEMMA OutputOfStep ==
    ASSUME H2Type, H2Type', inbox # <<>>, Passed \/ Requested
    PROVE  Output
  <1>1. PICK f : f = Head(inbox)
    OBVIOUS
  <1>2. f \in Frames /\ out \in Seq(OutFrames)
    BY <1>1, Popped DEF H2Type, ClientType, ServerType
  <1>3. \A w : w \in Seq(OutFrames) /\ out' = out \o w => Writes(w)
    BY DEF Writes
  <1>4. ASSUME out' = out PROVE \E w : Writes(w) /\ Notes(w)
    <2>1. PICK none : none = <<>>
      OBVIOUS
    <2>2. none \in Seq(OutFrames) /\ Len(none) = 0
      BY <2>1
    <2>3. out \o none = out
      BY <2>1, <1>2
    <2>4. Writes(none)
      BY <2>2, <2>3, <1>4 DEF Writes
    <2>5. Notes(none)
      BY <2>2 DEF Notes
    <2> QED
      BY <2>4, <2>5
  <1>5. ASSUME NEW w \in OutFrames, w.type \in {"settings", "ping"}, out' = out \o <<w>>
        PROVE  \E v : Writes(v) /\ Notes(v)
    <2>1. PICK v : v = <<w>>
      OBVIOUS
    <2>2. v \in Seq(OutFrames) /\ Len(v) = 1 /\ v[1] = w
      BY <2>1
    <2>3. Writes(v)
      BY <2>1, <2>2, <1>5 DEF Writes
    <2>4. Notes(v)
      BY <2>2, <1>5 DEF Notes
    <2> QED
      BY <2>3, <2>4
  <1>6. CASE Passed
    <2>1. handled' = handled /\ Answered
      BY <1>6 DEF Passed
    <2> QED
      BY <2>1, <1>4, <1>5 DEF Output, Answered
  <1>7. ASSUME NEW s \in Streams, IsEnd(f, s), HandledNow(s), s \in DOMAIN streams_'
        PROVE  Output
    <2>1. PICK w : IsResponse(w, s) /\ out' = out \o w
      BY <1>7 DEF HandledNow
    <2>2. Writes(w)
      BY <2>1 DEF IsResponse, Writes
    <2>3. handled' = Append(handled, [sid |-> s, headers |-> streams_'[s].headers, body |-> streams_'[s].body])
      BY <1>7 DEF HandledNow
    <2> QED
      BY <2>1, <2>2, <2>3, <1>1, <1>7 DEF Output
  <1>8. CASE FragmentTaken(f)
    BY <1>4, <1>8 DEF FragmentTaken, Output
  <1>9. CASE HeadersTaken(f)
    <2>1. f \in HeadersFrames /\ f.sid \in Streams /\ f.end_stream \in BOOLEAN
      BY <1>2, <1>9, FrameFields DEF HeadersTaken, HeadersFrames
    <2>2. CASE f.end_stream
      <3>1. IsEnd(f, f.sid) /\ HandledNow(f.sid) /\ f.sid \in DOMAIN streams_'
        BY <2>2, <1>9 DEF HeadersTaken, IsEnd, OneStream
      <3> QED
        BY <3>1, <2>1, <1>7
    <2>3. CASE ~f.end_stream
      BY <2>3, <1>4, <1>9 DEF HeadersTaken, Output
    <2> QED
      BY <2>1, <2>2, <2>3
  <1>10. CASE DataTaken(f)
    <2>1. f \in DataFrames /\ f.sid \in Streams /\ f.sid \in DOMAIN streams_'
      BY <1>2, <1>10, FrameFields DEF DataTaken, OneStream, H2Type, ServerType
    <2>2. CASE Completes(f)
      <3>1. IsEnd(f, f.sid) /\ HandledNow(f.sid)
        BY <2>2, <1>10 DEF DataTaken, IsEnd, Completes
      <3> QED
        BY <3>1, <2>1, <1>7
    <2>3. CASE ~Completes(f)
      <3>1. handled' = handled /\ out' = out \o Credits(f)
        BY <2>3, <1>10 DEF DataTaken
      <3>2. Writes(Credits(f)) /\ Notes(Credits(f))
        BY <3>1, <2>1, CreditFrames DEF Writes
      <3> QED
        BY <3>1, <3>2 DEF Output
    <2> QED
      BY <2>2, <2>3
  <1> QED
    BY <1>1, <1>6, <1>8, <1>9, <1>10 DEF Requested

(* What follows what is written already.                                    *)
LEMMA WritesWhere ==
    ASSUME H2Type, NEW w, Writes(w)
    PROVE  /\ Len(out) \in Nat /\ Len(w) \in Nat /\ Len(out') = Len(out) + Len(w)
           /\ \A k \in 1..Len(out) : k \in 1..Len(out') /\ out'[k] = out[k]
           /\ \A i \in 1..Len(w) : Len(out) + i \in 1..Len(out') /\ out'[Len(out) + i] = w[i]
           /\ \A k \in 1..Len(out') : k \in 1..Len(out) \/ \E i \in 1..Len(w) : k = Len(out) + i
  <1>1. IsJoin(out', out, w) /\ Len(out) \in Nat /\ Len(w) \in Nat
    BY Written DEF Writes
  <1>2. Len(out') = Len(out) + Len(w)
    BY <1>1 DEF IsJoin
  <1>3. ASSUME NEW k \in 1..Len(out'), ~(k \in 1..Len(out)) PROVE \E i \in 1..Len(w) : k = Len(out) + i
    <2>1. k - Len(out) \in 1..Len(w) /\ k = Len(out) + (k - Len(out))
      BY <1>1, <1>2, <1>3
    <2> QED
      BY <2>1
  <1>4. \A k \in 1..Len(out) : k \in 1..Len(out') /\ out'[k] = out[k]
    BY <1>1, <1>2 DEF IsJoin
  <1>5. \A i \in 1..Len(w) : Len(out) + i \in 1..Len(out') /\ out'[Len(out) + i] = w[i]
    BY <1>1, <1>2 DEF IsJoin
  <1> QED
    BY <1>1, <1>2, <1>3, <1>4, <1>5

(* One more request handled.                                                *)
LEMMA HandledMore ==
    ASSUME H2Type, NEW q \in Requests, handled' = Append(handled, q)
    PROVE  /\ Len(handled) \in Nat /\ Len(handled') = Len(handled) + 1
           /\ handled'[Len(handled) + 1] = q
           /\ \A k \in 1..Len(handled) : handled'[k] = handled[k]
           /\ \A k \in 1..Len(handled') : k \in 1..Len(handled) \/ k = Len(handled) + 1
  BY DEF H2Type, ServerType

(* The request a step hands over.                                           *)
LEMMA RequestTyped ==
    ASSUME H2Type', NEW s \in Streams, s \in DOMAIN streams_'
    PROVE  [sid |-> s, headers |-> streams_'[s].headers, body |-> streams_'[s].body] \in Requests
  <1>1. streams_'[s] \in StreamRecs
    BY DEF H2Type, ServerType
  <1> QED
    BY <1>1 DEF StreamRecs, Requests

(* The order of streams is kept by a step of the server.                    *)
LEMMA OrderKept ==
    ASSUME H2Type, OrderInv, ServerEffect
    PROVE  OrderInv'
  <1>0. H2Type' /\ ~goaway_sent_ /\ inbox # <<>>
    BY DEF ServerEffect
  <1>1. \A k \in 1..Len(out) : out[k].type # "goaway"
    BY <1>0 DEF OrderInv
  <1>2. CASE Failed
    <2>1. /\ handled' = handled /\ goaway_sent_'
          /\ \A s \in DOMAIN streams_' : s <= last_stream_id_'
          /\ \A k \in 1..Len(handled) : handled[k].sid \in DOMAIN streams_' /\ handled[k].sid <= last_stream_id_'
      BY <1>0, <1>2, OrderOfStreams DEF Failed
    <2>2. CASE out' = out
      <3>1. GoawayIsLast'
        BY <2>2, <1>1 DEF GoawayIsLast
      <3> QED
        BY <2>1, <2>2, <3>1 DEF OrderInv
    <2>3. CASE out' = out \o <<Goaway(last_stream_id_')>>
      <3>1. PICK w : w = <<Goaway(last_stream_id_')>>
        OBVIOUS
      <3>2. Goaway(last_stream_id_') \in OutFrames
        BY <1>0, GoawayTyped DEF H2Type, ServerType
      <3>3. Len(w) = 1 /\ w[1] = Goaway(last_stream_id_') /\ Writes(w)
        BY <2>3, <3>1, <3>2 DEF Writes
      <3>7. Len(w) = 1 /\ 1 \in 1..1 /\ \A i \in 1..1 : i = 1
        BY <3>3
      <3>4. /\ Len(out) \in Nat /\ Len(out') = Len(out) + 1
            /\ \A k \in 1..Len(out) : out'[k] = out[k]
            /\ out'[Len(out) + 1] = Goaway(last_stream_id_')
            /\ \A k \in 1..Len(out') : k \in 1..Len(out) \/ k = Len(out) + 1
        BY <3>3, <3>7, WritesWhere
      <3>5. out'[Len(out) + 1].last = last_stream_id_'
        BY <3>4 DEF Goaway
      <3>6. GoawayIsLast'
        BY <2>1, <3>4, <3>5, <1>1 DEF GoawayIsLast
      <3> QED
        BY <2>1, <3>6 DEF OrderInv
    <2> QED
      BY <2>2, <2>3, <1>2 DEF Failed
  <1>3. CASE Passed \/ Requested
    <2>1. \/ DOMAIN streams_' = DOMAIN streams_ /\ last_stream_id_' = last_stream_id_
          \/ \E s \in Streams : OneStream(s)
      <3>1. CASE Passed
        BY <3>1 DEF Passed, SameRequests
      <3>2. CASE Requested
        <4>1. ASSUME NEW f, DataTaken(f) PROVE f.sid \in Streams
          BY <4>1 DEF DataTaken, H2Type, ServerType
        <4> QED
          BY <3>2, <4>1, Zenon DEF Requested, FragmentTaken, HeadersTaken, DataTaken
      <3> QED
        BY <3>1, <3>2, <1>3
    <2>2. /\ \A s \in DOMAIN streams_' : s <= last_stream_id_'
          /\ \A k \in 1..Len(handled) : handled[k].sid \in DOMAIN streams_'
      BY <1>0, <2>1, OrderOfStreams
    <2>3. Output
      BY <1>0, <1>3, OutputOfStep
    <2>4. PICK w : Writes(w) /\ (Notes(w) \/ \E s \in Streams : IsResponse(w, s))
      BY <2>3 DEF Output
    <2>5. \A k \in 1..Len(w) : w[k].type # "goaway"
      <3>1. CASE Notes(w)
        BY <3>1 DEF Notes
      <3>2. CASE \E s \in Streams : IsResponse(w, s)
        BY <3>2 DEF IsResponse
      <3> QED
        BY <3>1, <3>2, <2>4
    <2>6. \A k \in 1..Len(out') : out'[k].type # "goaway"
      <3> TAKE k \in 1..Len(out')
      <3>1. /\ \A j \in 1..Len(out) : out'[j] = out[j]
            /\ \A i \in 1..Len(w) : out'[Len(out) + i] = w[i]
            /\ k \in 1..Len(out) \/ \E i \in 1..Len(w) : k = Len(out) + i
        BY <2>4, WritesWhere
      <3> QED
        BY <3>1, <2>5, <1>1
    <2>7. \A k \in 1..Len(handled') : handled'[k].sid \in DOMAIN streams_'
      <3>1. CASE handled' = handled
        BY <3>1, <2>2
      <3>2. ASSUME NEW s \in Streams, s \in DOMAIN streams_',
                   handled' = Append(handled, [sid |-> s, headers |-> streams_'[s].headers, body |-> streams_'[s].body])
            PROVE  \A k \in 1..Len(handled') : handled'[k].sid \in DOMAIN streams_'
        <4>1. PICK q : q = [sid |-> s, headers |-> streams_'[s].headers, body |-> streams_'[s].body]
          OBVIOUS
        <4>2. q \in Requests /\ q.sid = s /\ handled' = Append(handled, q)
          BY <4>1, <3>2, <1>0, RequestTyped
        <4> QED
          BY <4>2, <3>2, <2>2, HandledMore
      <3> QED
        BY <3>1, <3>2, <2>3 DEF Output
    <2> QED
      BY <2>2, <2>6, <2>7 DEF OrderInv, GoawayIsLast
  <1> QED
    BY <1>2, <1>3 DEF ServerEffect

(* Where the ends of requests are once a frame was parsed.                  *)
LEMMA EndsAfterParsing ==
    ASSUME H2Type, inbox # <<>>, inbox' = Tail(inbox), NEW s
    PROVE  /\ \A k \in EndAt(s)' : k + 1 \in EndAt(s) /\ k \in Nat \ {0}
           /\ \A k \in EndAt(s) : k # 1 => k - 1 \in EndAt(s)'
           /\ 1 \in EndAt(s) <=> IsEnd(Head(inbox), s)
  <1>1. /\ Head(inbox) = inbox[1] /\ Len(inbox) \in Nat \ {0} /\ Len(inbox') = Len(inbox) - 1
        /\ \A k \in 1..Len(inbox') : inbox'[k] = inbox[k + 1]
    BY Popped DEF H2Type, ClientType
  <1>2. EndAt(s)' = {k \in 1..Len(inbox') : IsEnd(inbox'[k], s)}
    BY DEF EndAt, IsEnd
  <1>3. ASSUME NEW k \in EndAt(s)' PROVE k + 1 \in EndAt(s) /\ k \in Nat \ {0}
    <2>1. k \in 1..Len(inbox') /\ IsEnd(inbox'[k], s)
      BY <1>2, <1>3
    <2>2. k + 1 \in 1..Len(inbox) /\ k \in Nat \ {0} /\ inbox'[k] = inbox[k + 1]
      BY <2>1, <1>1
    <2> QED
      BY <2>1, <2>2 DEF EndAt
  <1>4. ASSUME NEW k \in EndAt(s), k # 1 PROVE k - 1 \in EndAt(s)'
    <2>1. k \in 1..Len(inbox) /\ IsEnd(inbox[k], s)
      BY <1>4 DEF EndAt
    <2>2. k - 1 \in 1..Len(inbox') /\ (k - 1) + 1 = k
      BY <2>1, <1>1, <1>4
    <2>3. inbox'[k - 1] = inbox[k]
      BY <2>2, <1>1
    <2> QED
      BY <2>1, <2>2, <2>3, <1>2
  <1>5. 1 \in 1..Len(inbox)
    BY <1>1
  <1> QED
    BY <1>1, <1>3, <1>4, <1>5 DEF EndAt

(* Where they are once a frame was sent.                                    *)
LEMMA EndsAfterSending ==
    ASSUME H2Type, NEW f \in Frames, inbox' = Append(inbox, f), NEW s
    PROVE  /\ EndAt(s)' = EndAt(s) \cup (IF IsEnd(f, s) THEN {Len(inbox) + 1} ELSE {})
           /\ \A k \in EndAt(s) : k # Len(inbox) + 1
  <1>1. /\ Len(inbox) \in Nat /\ Len(inbox') = Len(inbox) + 1 /\ inbox'[Len(inbox) + 1] = f
        /\ \A k \in 1..Len(inbox) : inbox'[k] = inbox[k]
    BY Pushed DEF H2Type, ClientType
  <1>2. EndAt(s)' = {k \in 1..Len(inbox') : IsEnd(inbox'[k], s)}
    BY DEF EndAt, IsEnd
  <1>3. \A k \in 1..Len(inbox') : k \in 1..Len(inbox) \/ k = Len(inbox) + 1
    BY <1>1
  <1>4. \A k \in 1..Len(inbox) : k \in 1..Len(inbox') /\ k # Len(inbox) + 1
    BY <1>1
  <1>5. Len(inbox) + 1 \in 1..Len(inbox')
    BY <1>1
  <1>6. ASSUME NEW k \in EndAt(s)' PROVE k \in EndAt(s) \cup (IF IsEnd(f, s) THEN {Len(inbox) + 1} ELSE {})
    BY <1>1, <1>2, <1>3, <1>6 DEF EndAt
  <1>7. ASSUME NEW k \in EndAt(s) \cup (IF IsEnd(f, s) THEN {Len(inbox) + 1} ELSE {}) PROVE k \in EndAt(s)'
    <2>1. CASE k \in EndAt(s)
      BY <2>1, <1>1, <1>2, <1>4 DEF EndAt
    <2>2. CASE IsEnd(f, s) /\ k = Len(inbox) + 1
      BY <2>2, <1>1, <1>2, <1>5
    <2> QED
      BY <1>7, <2>1, <2>2
  <1>8. \A k \in EndAt(s) : k # Len(inbox) + 1
    BY <1>4 DEF EndAt
  <1> QED
    BY <1>6, <1>7, <1>8

(* Where a stream's requests are in handled.                                *)
LEMMA HandledWhere ==
    ASSUME H2Type, NEW q \in Requests, handled' = Append(handled, q), NEW s
    PROVE  HandledAt(s)' = HandledAt(s) \cup (IF q.sid = s THEN {Len(handled) + 1} ELSE {})
  <1>1. /\ Len(handled) \in Nat /\ Len(handled') = Len(handled) + 1
        /\ handled'[Len(handled) + 1] = q
        /\ \A k \in 1..Len(handled) : handled'[k] = handled[k]
    BY HandledMore
  <1>2. \A k : k \in 1..Len(handled') <=> k \in 1..Len(handled) \/ k = Len(handled) + 1
    BY <1>1
  <1>3. HandledAt(s)' = {k \in 1..Len(handled') : handled'[k].sid = s}
    BY DEF HandledAt
  <1>4. ASSUME NEW k \in HandledAt(s)' PROVE k \in HandledAt(s) \cup (IF q.sid = s THEN {Len(handled) + 1} ELSE {})
    BY <1>1, <1>2, <1>3, <1>4 DEF HandledAt
  <1>5. ASSUME NEW k \in HandledAt(s) \cup (IF q.sid = s THEN {Len(handled) + 1} ELSE {}) PROVE k \in HandledAt(s)'
    <2>1. CASE k \in HandledAt(s)
      BY <2>1, <1>1, <1>2, <1>3 DEF HandledAt
    <2>2. CASE q.sid = s /\ k = Len(handled) + 1
      BY <2>2, <1>1, <1>2, <1>3
    <2> QED
      BY <1>5, <2>1, <2>2
  <1> QED
    BY <1>4, <1>5

(* A step of the server consumes a frame, or leaves a bad preface.          *)
LEMMA Consumed == ServerStep => inbox' = inbox \/ inbox' = Tail(inbox)
  <1>1. \A t : Parse(t) => inbox' = Tail(inbox)
    BY DEF Parse
  <1>2. ReceivePreface => inbox' = inbox \/ inbox' = Tail(inbox)
    BY DEF ReceivePreface
  <1>3. HandleHeaders \/ HandleData => inbox' = Tail(inbox)
    BY <1>1 DEF HandleHeaders, HeadersOnStreamZero, HeadersBadPadding, HeadersFragment, HeadersUndecodable,
                HeadersComplete, HeadersFor, HandleData, DataOnUnknownStream, DataCompletes, DataContinues, DataFor
  <1> QED
    BY <1>1, <1>2, <1>3 DEF ServerStep, HandleSettings, HandleWindowUpdate, HandlePing, HandleGoaway, IgnoreFrame

(* Requests end once, a step of the server.                                 *)
LEMMA EndsKept ==
    ASSUME H2Type, EndInv, ServerEffect, inbox' = inbox \/ inbox' = Tail(inbox)
    PROVE  EndInv'
  <1>0. H2Type' /\ client' = client /\ inbox # <<>>
    BY DEF ServerEffect
  <1> SUFFICES ASSUME NEW s \in Streams PROVE EndsOnce(s)'
    BY DEF EndInv
  <1>1. EndsOnce(s)
    BY DEF EndInv
  <1>2. \A j, k \in EndAt(s)' : j = k
    <2>1. CASE inbox' = inbox
      BY <2>1, <1>1 DEF EndsOnce, EndAt
    <2>2. CASE inbox' = Tail(inbox)
      <3>1. \A k \in EndAt(s)' : k + 1 \in EndAt(s) /\ k \in Nat
        BY <2>2, <1>0, EndsAfterParsing
      <3>2. \A j, k \in EndAt(s) : j = k
        BY <1>1 DEF EndsOnce
      <3> QED
        BY <3>1, <3>2
    <2> QED
      BY <2>1, <2>2
  <1>3. EndAt(s)' # {} => EndAt(s) # {}
    <2>1. CASE inbox' = inbox
      BY <2>1 DEF EndAt
    <2>2. CASE inbox' = Tail(inbox)
      BY <2>2, <1>0, EndsAfterParsing
    <2> QED
      BY <2>1, <2>2
  <1>4. ASSUME HandledAt(s)' = HandledAt(s) PROVE EndsOnce(s)'
    BY <1>0, <1>1, <1>2, <1>3, <1>4 DEF EndsOnce
  <1>5. CASE handled' = handled
    BY <1>4, <1>5 DEF HandledAt
  <1>6. ASSUME NEW t \in Streams, IsEnd(Head(inbox), t), t \in DOMAIN streams_', inbox' = Tail(inbox),
               handled' = Append(handled, [sid |-> t, headers |-> streams_'[t].headers, body |-> streams_'[t].body])
        PROVE  EndsOnce(s)'
    <2>1. PICK q : q = [sid |-> t, headers |-> streams_'[t].headers, body |-> streams_'[t].body]
      OBVIOUS
    <2>2. q \in Requests /\ q.sid = t /\ handled' = Append(handled, q)
      BY <2>1, <1>6, <1>0, RequestTyped
    <2>3. HandledAt(s)' = HandledAt(s) \cup (IF t = s THEN {Len(handled) + 1} ELSE {})
      BY <2>2, HandledWhere
    <2>4. CASE t # s
      BY <2>3, <2>4, <1>4
    <2>5. CASE t = s
      <3>1. 1 \in EndAt(s) /\ \A k \in EndAt(s)' : k + 1 \in EndAt(s) /\ k \in Nat \ {0}
        BY <2>5, <1>0, <1>6, EndsAfterParsing
      <3>2. HandledAt(s) = {} /\ client.sent[s].phase = "done" /\ \A j, k \in EndAt(s) : j = k
        BY <3>1, <1>1 DEF EndsOnce
      <3>3. EndAt(s)' = {}
        BY <3>1, <3>2
      <3>4. HandledAt(s)' = {Len(handled) + 1}
        BY <2>3, <2>5, <3>2
      <3> QED
        BY <3>2, <3>3, <3>4, <1>0 DEF EndsOnce
    <2> QED
      BY <2>4, <2>5
  <1>7. CASE Failed
    BY <1>5, <1>7 DEF Failed
  <1>8. CASE Passed \/ Requested
    <2>1. Output /\ inbox' = Tail(inbox)
      BY <1>0, <1>8, OutputOfStep DEF Passed, Requested
    <2> QED
      BY <2>1, <1>5, <1>6 DEF Output
  <1> QED
    BY <1>7, <1>8 DEF ServerEffect

(* Requests end once, a step of the client.                                 *)
LEMMA EndsSent ==
    ASSUME H2Type, EndInv, ClientEffect
    PROVE  EndInv'
  <1> SUFFICES ASSUME NEW s \in Streams PROVE EndsOnce(s)'
    BY DEF EndInv
  <1>1. EndsOnce(s)
    BY DEF EndInv
  <1>2. PICK f \in Frames : inbox' = Append(inbox, f) /\ (HeadersSent(f) \/ DataSent(f) \/ OtherSent(f))
    BY DEF ClientEffect
  <1>3. EndAt(s)' = EndAt(s) \cup (IF IsEnd(f, s) THEN {Len(inbox) + 1} ELSE {})
    BY <1>2, EndsAfterSending
  <1>4. HandledAt(s)' = HandledAt(s)
    BY DEF ClientEffect, h2Vars, HandledAt
  <1>5. 0 \notin Streams
    BY Http2Assumption
  <1>6. ASSUME ~IsEnd(f, s), client.sent[s].phase = "done" => client'.sent[s].phase = "done"
        PROVE  EndsOnce(s)'
    <2>1. EndAt(s)' = EndAt(s)
      BY <1>3, <1>6
    <2> QED
      BY <2>1, <1>1, <1>4, <1>6 DEF EndsOnce
  <1>7. CASE OtherSent(f)
    BY <1>5, <1>6, <1>7 DEF OtherSent, IsEnd
  <1>8. CASE HeadersSent(f) \/ DataSent(f)
    <2>1. /\ client.sent[f.sid].phase \in {"idle", "open"} /\ SaidOn(f.sid)
          /\ client'.sent[f.sid].phase = Ended(f)
      BY <1>8 DEF HeadersSent, DataSent
    <2>2. CASE f.sid # s
      <3>1. client'.sent[s] = client.sent[s] /\ ~IsEnd(f, s)
        BY <2>1, <2>2 DEF SaidOn, IsEnd
      <3> QED
        BY <3>1, <1>6
    <2>3. CASE f.sid = s
      <3>1. client.sent[s].phase # "done"
        BY <2>1, <2>3
      <3>2. EndAt(s) = {} /\ HandledAt(s) = {}
        BY <3>1, <1>1 DEF EndsOnce
      <3>3. CASE ~IsEnd(f, s)
        BY <3>1, <3>3, <1>6
      <3>4. CASE IsEnd(f, s)
        <4>1. EndAt(s)' = {Len(inbox) + 1} /\ HandledAt(s)' = {}
          BY <3>2, <3>4, <1>3, <1>4
        <4>2. client'.sent[s].phase = "done"
          BY <2>1, <2>3, <3>4 DEF IsEnd, Ended
        <4> QED
          BY <4>1, <4>2 DEF EndsOnce
      <3> QED
        BY <3>3, <3>4
    <2> QED
      BY <2>2, <2>3
  <1> QED
    BY <1>2, <1>7, <1>8

(* ResponsesFramed for one stream.                                          *)
FramedOn(s) ==
    /\ HandledAt(s) # {} <=> AnswerAt(s) # {}
    /\ \A k \in AnswerAt(s) :
          /\ out[k].type = "headers" <=> \A j \in AnswerAt(s) : k <= j
          /\ out[k].end_stream <=> \A j \in AnswerAt(s) : j <= k

(* Frames that are no answer on a stream.                                   *)
NoAnswerOn(w, s) == \A i \in 1..Len(w) : w[i].sid # s \/ w[i].type = "window_update"

(* Nothing is written on a stream.                                          *)
LEMMA FramedSame ==
    ASSUME H2Type, NEW s, NEW w, Writes(w), NoAnswerOn(w, s), FramedOn(s), HandledAt(s)' = HandledAt(s)
    PROVE  FramedOn(s)'
  <1>1. /\ Len(out) \in Nat /\ Len(w) \in Nat
        /\ \A k \in 1..Len(out) : k \in 1..Len(out') /\ out'[k] = out[k]
        /\ \A i \in 1..Len(w) : out'[Len(out) + i] = w[i]
        /\ \A k \in 1..Len(out') : k \in 1..Len(out) \/ \E i \in 1..Len(w) : k = Len(out) + i
    BY WritesWhere
  <1>2. AnswerAt(s)' = {k \in 1..Len(out') : out'[k].sid = s /\ out'[k].type # "window_update"}
    BY DEF AnswerAt
  <1>3. AnswerAt(s)' = AnswerAt(s) /\ \A k \in AnswerAt(s) : out'[k] = out[k]
    <2>1. ASSUME NEW k \in AnswerAt(s) PROVE k \in AnswerAt(s)' /\ out'[k] = out[k]
      BY <2>1, <1>1, <1>2 DEF AnswerAt
    <2>2. ASSUME NEW k \in AnswerAt(s)' PROVE k \in AnswerAt(s)
      <3>1. k \in 1..Len(out') /\ out'[k].sid = s /\ out'[k].type # "window_update"
        BY <2>2, <1>2
      <3>2. ~ \E i \in 1..Len(w) : k = Len(out) + i
        BY <3>1, <1>1 DEF NoAnswerOn
      <3>3. k \in 1..Len(out) /\ out'[k] = out[k]
        BY <3>1, <3>2, <1>1
      <3> QED
        BY <3>1, <3>3 DEF AnswerAt
    <2> QED
      BY <2>1, <2>2
  <1> QED
    BY <1>3 DEF FramedOn

(* The answer is written.                                                   *)
LEMMA FramedNew ==
    ASSUME H2Type, NEW s \in Streams, NEW w, Writes(w), IsResponse(w, s),
           FramedOn(s), HandledAt(s) = {}, HandledAt(s)' # {}
    PROVE  FramedOn(s)'
  <1>1. /\ Len(out) \in Nat /\ Len(w) \in Nat
        /\ \A k \in 1..Len(out) : k \in 1..Len(out') /\ out'[k] = out[k]
        /\ \A i \in 1..Len(w) : Len(out) + i \in 1..Len(out') /\ out'[Len(out) + i] = w[i]
        /\ \A k \in 1..Len(out') : k \in 1..Len(out) \/ \E i \in 1..Len(w) : k = Len(out) + i
    BY WritesWhere
  <1>2. AnswerAt(s)' = {k \in 1..Len(out') : out'[k].sid = s /\ out'[k].type # "window_update"}
    BY DEF AnswerAt
  <1>3. AnswerAt(s) = {}
    BY DEF FramedOn
  <1>4. /\ w[1].type = "headers" /\ Len(w) >= 1
        /\ \A i \in 1..Len(w) : /\ w[i].sid = s
                                /\ i # 1 => w[i].type = "data"
                                /\ w[i].end_stream <=> i = Len(w)
    BY DEF IsResponse
  <1>5. \A i \in 1..Len(w) : w[i].type # "window_update" /\ (w[i].type = "headers" <=> i = 1)
    BY <1>4
  <1>6. \A k \in AnswerAt(s)' : \E i \in 1..Len(w) : k = Len(out) + i
    BY <1>1, <1>2, <1>3 DEF AnswerAt
  <1>7. \A i \in 1..Len(w) : Len(out) + i \in AnswerAt(s)'
    BY <1>1, <1>2, <1>4, <1>5
  <1>8. 1 \in 1..Len(w) /\ Len(w) \in 1..Len(w)
    BY <1>1, <1>4
  <1>9. AnswerAt(s)' # {}
    BY <1>7, <1>8
  <1>10. ASSUME NEW k \in AnswerAt(s)'
         PROVE  /\ out'[k].type = "headers" <=> \A j \in AnswerAt(s)' : k <= j
                /\ out'[k].end_stream <=> \A j \in AnswerAt(s)' : j <= k
    <2>1. PICK i \in 1..Len(w) : k = Len(out) + i
      BY <1>6, <1>10
    <2>2. out'[k] = w[i]
      BY <2>1, <1>1
    <2>3. (\A j \in AnswerAt(s)' : k <= j) <=> i = 1
      <3>1. (\A j \in AnswerAt(s)' : k <= j) => k <= Len(out) + 1
        BY <1>7, <1>8
      <3>2. k <= Len(out) + 1 => i = 1
        BY <2>1, <1>1
      <3>3. \A n \in 1..Len(w) : Len(out) + 1 <= Len(out) + n
        BY <1>1
      <3>4. i = 1 => \A j \in AnswerAt(s)' : k <= j
        BY <2>1, <3>3, <1>6
      <3> QED
        BY <3>1, <3>2, <3>4
    <2>4. (\A j \in AnswerAt(s)' : j <= k) <=> i = Len(w)
      <3>1. (\A j \in AnswerAt(s)' : j <= k) => Len(out) + Len(w) <= k
        BY <1>7, <1>8
      <3>2. Len(out) + Len(w) <= k => i = Len(w)
        BY <2>1, <1>1
      <3>3. \A n \in 1..Len(w) : Len(out) + n <= Len(out) + Len(w)
        BY <1>1
      <3>4. i = Len(w) => \A j \in AnswerAt(s)' : j <= k
        BY <2>1, <3>3, <1>6
      <3> QED
        BY <3>1, <3>2, <3>4
    <2> QED
      BY <2>1, <2>2, <2>3, <2>4, <1>4, <1>5
  <1> QED
    BY <1>9, <1>10 DEF FramedOn

(* A frame or more that a failing step writes.                              *)
LEMMA WritesOfFailure ==
    ASSUME H2Type, H2Type', Failed
    PROVE  \E w : Writes(w) /\ \A s \in Streams : NoAnswerOn(w, s)
  <1>1. 0 \notin Streams /\ out \in Seq(OutFrames)
    BY Http2Assumption DEF H2Type, ServerType
  <1>2. CASE out' = out
    <2>1. PICK none : none = <<>>
      OBVIOUS
    <2>2. none \in Seq(OutFrames) /\ Len(none) = 0
      BY <2>1
    <2>3. out \o none = out
      BY <2>1, <1>1
    <2>4. Writes(none)
      BY <2>2, <2>3, <1>2 DEF Writes
    <2>5. \A s \in Streams : NoAnswerOn(none, s)
      BY <2>2 DEF NoAnswerOn
    <2> QED
      BY <2>4, <2>5
  <1>3. CASE out' = out \o <<Goaway(last_stream_id_')>>
    <2>1. PICK g : g = Goaway(last_stream_id_')
      OBVIOUS
    <2>2. PICK w : w = <<g>>
      OBVIOUS
    <2>3. g \in OutFrames /\ g.sid = 0
      BY <2>1, GoawayTyped DEF H2Type, ServerType, Goaway
    <2>4. w \in Seq(OutFrames) /\ Len(w) = 1 /\ w[1] = g
      BY <2>2, <2>3
    <2>5. Writes(w)
      BY <2>1, <2>2, <2>4, <1>3 DEF Writes
    <2>6. \A s \in Streams : NoAnswerOn(w, s)
      BY <2>3, <2>4, <1>1 DEF NoAnswerOn
    <2> QED
      BY <2>5, <2>6
  <1> QED
    BY <1>2, <1>3 DEF Failed

(* Responses stay framed, a step of the server.                             *)
LEMMA FramedKept ==
    ASSUME H2Type, EndInv, ServerEffect, ResponsesFramed
    PROVE  ResponsesFramed'
  <1>0. H2Type' /\ inbox # <<>> /\ 0 \notin Streams
    BY Http2Assumption DEF ServerEffect
  <1> SUFFICES ASSUME NEW s \in Streams PROVE FramedOn(s)'
    BY DEF ResponsesFramed, FramedOn
  <1>1. FramedOn(s)
    BY DEF ResponsesFramed, FramedOn
  <1>2. CASE Failed
    <2>1. HandledAt(s)' = HandledAt(s)
      BY <1>2 DEF Failed, HandledAt
    <2>2. PICK w : Writes(w) /\ NoAnswerOn(w, s)
      BY <1>0, <1>2, WritesOfFailure
    <2> QED
      BY <2>1, <2>2, <1>1, FramedSame
  <1>3. ASSUME handled' = handled, NEW w, Writes(w), Notes(w) PROVE FramedOn(s)'
    <2>1. HandledAt(s)' = HandledAt(s)
      BY <1>3 DEF HandledAt
    <2>2. \A i \in 1..Len(w) : w[i] \in OutFrames
      BY <1>3 DEF Writes
    <2>3. NoAnswerOn(w, s)
      BY <2>2, <1>0, <1>3, OutFields DEF NoAnswerOn, Notes
    <2> QED
      BY <2>1, <2>3, <1>1, <1>3, FramedSame
  <1>4. ASSUME NEW t \in Streams, IsEnd(Head(inbox), t), t \in DOMAIN streams_', inbox' = Tail(inbox),
               handled' = Append(handled, [sid |-> t, headers |-> streams_'[t].headers, body |-> streams_'[t].body]),
               NEW w, Writes(w), IsResponse(w, t)
        PROVE  FramedOn(s)'
    <2>1. PICK q : q = [sid |-> t, headers |-> streams_'[t].headers, body |-> streams_'[t].body]
      OBVIOUS
    <2>2. q \in Requests /\ q.sid = t /\ handled' = Append(handled, q)
      BY <2>1, <1>4, <1>0, RequestTyped
    <2>3. HandledAt(s)' = HandledAt(s) \cup (IF t = s THEN {Len(handled) + 1} ELSE {})
      BY <2>2, HandledWhere
    <2>4. CASE t # s
      <3>1. NoAnswerOn(w, s)
        BY <2>4, <1>4 DEF NoAnswerOn, IsResponse
      <3>2. HandledAt(s)' = HandledAt(s)
        BY <2>3, <2>4
      <3> QED
        BY <3>1, <3>2, <1>1, <1>4, FramedSame
    <2>5. CASE t = s
      <3>1. 1 \in EndAt(s)
        BY <2>5, <1>0, <1>4, EndsAfterParsing
      <3>2. HandledAt(s) = {}
        BY <3>1 DEF EndInv, EndsOnce
      <3>3. HandledAt(s)' # {}
        BY <2>3, <2>5
      <3> QED
        BY <2>5, <3>2, <3>3, <1>1, <1>4, FramedNew
    <2> QED
      BY <2>4, <2>5
  <1>5. CASE Passed \/ Requested
    <2>1. Output /\ inbox' = Tail(inbox)
      BY <1>0, <1>5, OutputOfStep DEF Passed, Requested
    <2> QED
      BY <2>1, <1>3, <1>4 DEF Output
  <1> QED
    BY <1>2, <1>5 DEF ServerEffect

(* At the start nothing has been said.                                      *)
LEMMA OutputInit == Init => OrderInv /\ EndInv /\ ResponsesFramed
  <1> SUFFICES ASSUME Init PROVE OrderInv /\ EndInv /\ ResponsesFramed
    OBVIOUS
  <1>1. PICK none : none = <<>>
    OBVIOUS
  <1>2. Len(none) = 0 /\ \A k : k \notin 1..0
    BY <1>1
  <1>3. out = none /\ handled = none /\ DOMAIN streams_ = {}
    BY <1>1 DEF Init
  <1>4. OrderInv
    BY <1>2, <1>3 DEF OrderInv, GoawayIsLast
  <1>5. ASSUME NEW s PROVE HandledAt(s) = {} /\ AnswerAt(s) = {} /\ EndAt(s) = {}
    <2>1. PICK bad \in BOOLEAN : inbox = <<[type |-> "preface", bad |-> bad]>>
      BY DEF Init
    <2>2. \A k \in 1..Len(inbox) : inbox[k].type = "preface"
      BY <2>1
    <2>3. EndAt(s) = {}
      BY <2>2 DEF EndAt, IsEnd
    <2> QED
      BY <2>3, <1>2, <1>3 DEF HandledAt, AnswerAt
  <1> QED
    BY <1>4, <1>5 DEF EndInv, EndsOnce, ResponsesFramed

(* The induction: types, the order of streams and frames, one end for each  *)
(* request, and its answer.                                                 *)
OutputInv == H2Type /\ OrderInv /\ EndInv /\ ResponsesFramed

(* Every step keeps it.                                                     *)
LEMMA OutputKept == OutputInv /\ [Next]_vars => OutputInv'
  <1> SUFFICES ASSUME OutputInv, [Next]_vars PROVE OutputInv'
    OBVIOUS
  <1>0. H2Type /\ OrderInv /\ EndInv /\ ResponsesFramed
    BY DEF OutputInv
  <1>1. CASE ServerStep
    <2>1. ServerEffect /\ (inbox' = inbox \/ inbox' = Tail(inbox))
      BY <1>0, <1>1, ServerStepEffect, Consumed
    <2>2. H2Type'
      BY <2>1 DEF ServerEffect
    <2>3. OrderInv'
      BY <1>0, <2>1, OrderKept
    <2>4. EndInv'
      BY <1>0, <2>1, EndsKept
    <2>5. ResponsesFramed'
      BY <1>0, <2>1, FramedKept
    <2> QED
      BY <2>2, <2>3, <2>4, <2>5 DEF OutputInv
  <1>2. CASE ClientStep
    <2>1. ClientEffect
      BY <1>0, <1>2, ClientStepEffect
    <2>2. H2Type' /\ UNCHANGED h2Vars
      BY <2>1 DEF ClientEffect
    <2>3. OrderInv'
      BY <1>0, <2>2 DEF OrderInv, GoawayIsLast, h2Vars
    <2>4. EndInv'
      BY <1>0, <2>1, EndsSent
    <2>5. ResponsesFramed'
      <3>1. \A s : HandledAt(s)' = HandledAt(s) /\ AnswerAt(s)' = AnswerAt(s)
        BY <2>2 DEF HandledAt, AnswerAt, h2Vars
      <3>2. out' = out
        BY <2>2 DEF h2Vars
      <3> QED
        BY <1>0, <3>1, <3>2 DEF ResponsesFramed
    <2> QED
      BY <2>2, <2>3, <2>4, <2>5 DEF OutputInv
  <1>3. CASE UNCHANGED vars
    <2>1. \A s : HandledAt(s)' = HandledAt(s) /\ AnswerAt(s)' = AnswerAt(s) /\ EndAt(s)' = EndAt(s)
      BY <1>3 DEF HandledAt, AnswerAt, EndAt, vars, h2Vars
    <2>2. out' = out /\ client' = client
      BY <1>3 DEF vars, h2Vars
    <2>3. H2Type'
      BY <1>0, <1>3 DEF vars, h2Vars, H2Type, ServerType, ClientType
    <2>4. OrderInv'
      BY <1>0, <1>3 DEF vars, h2Vars, OrderInv, GoawayIsLast
    <2>5. EndInv'
      BY <1>0, <2>1, <2>2 DEF EndInv, EndsOnce
    <2>6. ResponsesFramed'
      BY <1>0, <2>1, <2>2 DEF ResponsesFramed
    <2> QED
      BY <2>3, <2>4, <2>5, <2>6 DEF OutputInv
  <1> QED
    BY <1>1, <1>2, <1>3 DEF Next

(* It holds throughout.                                                     *)
LEMMA OutputInvariant == Spec => []OutputInv
  <1>1. Init => OutputInv
    BY TypeInit, OutputInit DEF OutputInv
  <1> QED
    BY <1>1, OutputKept, PTL DEF Spec

(* What process_input returns is framed: an answer for every request that   *)
(* was handled and for no other, END_STREAM on its last frame only, and     *)
(* GOAWAY after everything, with a stream no lower than any handled.        *)
THEOREM Http2OutputSound == Spec => []OutputSound
  <1>1. OutputInv => OutputSound
    BY DEF OutputInv, OrderInv, OutputSound
  <1> QED
    BY <1>1, OutputInvariant, PTL

-----------------------------------------------------------------------------
(* Flow control: what the client may send on a stream.                      *)

(* The sum of zeros, and of two numbers.                                    *)
LEMMA TotalOfZeros ==
    ASSUME NEW s \in Seq(Nat), \A k \in 1..Len(s) : s[k] = 0
    PROVE  Total(s) = 0
  <1>1. Len(s) \in Nat
    OBVIOUS
  <1>2. PICK g : g = [k \in 0..Len(s) |-> 0]
    OBVIOUS
  <1>3. ASSUME NEW n \in 1..Len(s) PROVE g[n] = g[n - 1] + s[n]
    <2>1. n \in 0..Len(s) /\ n - 1 \in 0..Len(s)
      BY <1>1
    <2> QED
      BY <2>1, <1>2
  <1>4. Sums(s, g)
    BY <1>1, <1>2, <1>3 DEF Sums
  <1> QED
    BY <1>1, <1>2, <1>4, TotalIsSum

(* The sum of two.                                                          *)
LEMMA TotalOfPair ==
    ASSUME NEW s \in Seq(Nat), Len(s) = 2
    PROVE  Total(s) = s[1] + s[2]
  <1>1. s[1] \in Nat /\ s[2] \in Nat
    OBVIOUS
  <1>2. PICK g : g = [k \in 0..2 |-> IF k = 0 THEN 0 ELSE IF k = 1 THEN s[1] ELSE s[1] + s[2]]
    OBVIOUS
  <1>3. g[0] = 0 /\ g[1] = s[1] /\ g[2] = s[1] + s[2] /\ g \in [0..2 -> Nat]
    BY <1>1, <1>2
  <1>4. ASSUME NEW n \in 1..2 PROVE g[n] = g[n - 1] + s[n]
    <2>1. CASE n = 1
      BY <2>1, <1>1, <1>3
    <2>2. CASE n = 2
      BY <2>2, <1>1, <1>3
    <2> QED
      BY <2>1, <2>2
  <1>5. Sums(s, g)
    BY <1>3, <1>4 DEF Sums
  <1> QED
    BY <1>3, <1>5, TotalIsSum

(* The credit each frame of the server grants to a stream, and what each    *)
(* frame of the client uses.                                                *)
Gain(f, s) == IF f.type = "window_update" /\ f.sid = s THEN f.inc ELSE 0
Gains(w, s) == [k \in 1..Len(w) |-> Gain(w[k], s)]
Use(f, s) == IF f.type = "data" /\ f.sid = s THEN Len(f.payload) ELSE 0
Uses(b, s) == [k \in 1..Len(b) |-> Use(b[k], s)]

(* Credit used by frames that have not been parsed yet.                     *)
Pending(s) == Total(Uses(inbox, s))

(* Gains are numbers.                                                       *)
LEMMA GainsTyped ==
    ASSUME NEW w \in Seq(OutFrames), NEW s
    PROVE  /\ Gains(w, s) \in Seq(Nat) /\ Len(Gains(w, s)) = Len(w)
           /\ \A k \in 1..Len(w) : Gains(w, s)[k] = Gain(w[k], s)
  <1>1. Len(w) \in Nat /\ \A k \in 1..Len(w) : w[k] \in OutFrames
    OBVIOUS
  <1>2. \A k \in 1..Len(w) : Gain(w[k], s) \in Nat
    BY <1>1, OutFields DEF Gain
  <1> QED
    BY <1>1, <1>2 DEF Gains

(* Uses are numbers.                                                        *)
LEMMA UsesTyped ==
    ASSUME NEW b \in Seq(Frames), NEW s
    PROVE  /\ Uses(b, s) \in Seq(Nat) /\ Len(Uses(b, s)) = Len(b)
           /\ \A k \in 1..Len(b) : Uses(b, s)[k] = Use(b[k], s)
  <1>1. Len(b) \in Nat /\ \A k \in 1..Len(b) : b[k] \in Frames
    OBVIOUS
  <1>2. ASSUME NEW k \in 1..Len(b) PROVE Use(b[k], s) \in Nat
    <2>1. b[k].type = "data" => b[k].payload \in Seq(Pieces)
      BY <1>1, FrameFields DEF DataFrames
    <2> QED
      BY <2>1 DEF Use
  <1> QED
    BY <1>1, <1>2 DEF Uses

(* What is granted is the sum of the gains.                                 *)
LEMMA GrantedIs ==
    ASSUME NEW s
    PROVE  Granted(s) = Total(Gains(out, s)) /\ Granted(s)' = Total(Gains(out', s))
  BY DEF Granted, Gains, Gain

(* Frames add to it what they grant.                                        *)
LEMMA GrantedMore ==
    ASSUME H2Type, NEW s, NEW w, Writes(w)
    PROVE  /\ Granted(s) \in Nat /\ Total(Gains(w, s)) \in Nat
           /\ Granted(s)' = Granted(s) + Total(Gains(w, s))
  <1>1. PICK c : c = out'
    OBVIOUS
  <1>2. IsJoin(c, out, w) /\ c \in Seq(OutFrames) /\ out \in Seq(OutFrames) /\ w \in Seq(OutFrames)
    BY <1>1, Written DEF Writes, H2Type, ServerType
  <1>3. PICK x : x = Gains(out, s)
    OBVIOUS
  <1>4. PICK y : y = Gains(w, s)
    OBVIOUS
  <1>5. PICK z : z = Gains(c, s)
    OBVIOUS
  <1>6. x \in Seq(Nat) /\ Len(x) = Len(out) /\ \A k \in 1..Len(out) : x[k] = Gain(out[k], s)
    BY <1>2, <1>3, GainsTyped
  <1>7. y \in Seq(Nat) /\ Len(y) = Len(w) /\ \A k \in 1..Len(w) : y[k] = Gain(w[k], s)
    BY <1>2, <1>4, GainsTyped
  <1>8. z \in Seq(Nat) /\ Len(z) = Len(c) /\ \A k \in 1..Len(c) : z[k] = Gain(c[k], s)
    BY <1>2, <1>5, GainsTyped
  <1>9. Len(c) = Len(out) + Len(w) /\ Len(out) \in Nat /\ Len(w) \in Nat
    BY <1>2 DEF IsJoin
  <1>10. ASSUME NEW i \in 1..Len(out) PROVE z[i] = x[i]
    <2>1. i \in 1..Len(c) /\ c[i] = out[i]
      BY <1>2, <1>9 DEF IsJoin
    <2> QED
      BY <2>1, <1>6, <1>8
  <1>11. ASSUME NEW i \in 1..Len(w) PROVE z[Len(out) + i] = y[i]
    <2>1. Len(out) + i \in 1..Len(c) /\ c[Len(out) + i] = w[i]
      BY <1>2, <1>9 DEF IsJoin
    <2> QED
      BY <2>1, <1>7, <1>8
  <1>12. IsJoin(z, x, y)
    BY <1>6, <1>7, <1>8, <1>9, <1>10, <1>11 DEF IsJoin
  <1>13. Total(z) = Total(x) + Total(y) /\ Total(x) \in Nat /\ Total(y) \in Nat
    BY <1>6, <1>7, <1>8, <1>12, TotalOfJoin, TotalNat
  <1> QED
    BY <1>1, <1>3, <1>4, <1>5, <1>13, GrantedIs

(* Uses of a sequence whose first frame is f.                               *)
LEMMA UsesOfFirst ==
    ASSUME NEW b \in Seq(Frames), b # <<>>, NEW s
    PROVE  /\ Total(Uses(b, s)) = Use(Head(b), s) + Total(Uses(Tail(b), s))
           /\ Use(Head(b), s) \in Nat /\ Total(Uses(Tail(b), s)) \in Nat
  <1>1. PICK t : t = Tail(b)
    OBVIOUS
  <1>2. /\ Head(b) \in Frames /\ Head(b) = b[1] /\ t \in Seq(Frames) /\ Len(b) \in Nat \ {0}
        /\ Len(t) = Len(b) - 1 /\ \A k \in 1..Len(t) : t[k] = b[k + 1]
    BY <1>1, Popped
  <1>3. PICK u : u = Use(Head(b), s)
    OBVIOUS
  <1>4. PICK x : x = <<u>>
    OBVIOUS
  <1>5. PICK y : y = Uses(t, s)
    OBVIOUS
  <1>6. PICK z : z = Uses(b, s)
    OBVIOUS
  <1>7. y \in Seq(Nat) /\ Len(y) = Len(t) /\ \A k \in 1..Len(t) : y[k] = Use(t[k], s)
    BY <1>2, <1>5, UsesTyped
  <1>8. z \in Seq(Nat) /\ Len(z) = Len(b) /\ \A k \in 1..Len(b) : z[k] = Use(b[k], s)
    BY <1>6, UsesTyped
  <1>9. 1 \in 1..Len(b) /\ z[1] = u /\ u \in Nat
    <2>1. 1 \in 1..Len(b)
      BY <1>2
    <2>2. z[1] = u
      BY <2>1, <1>2, <1>3, <1>8
    <2>3. z[1] \in Nat
      BY <2>1, <1>8
    <2> QED
      BY <2>1, <2>2, <2>3
  <1>10. x \in Seq(Nat) /\ Len(x) = 1 /\ x[1] = u /\ \A i \in 1..1 : i = 1
    BY <1>4, <1>9
  <1>11. ASSUME NEW i \in 1..Len(t) PROVE z[1 + i] = y[i]
    <2>1. i + 1 \in 1..Len(b) /\ 1 + i = i + 1 /\ t[i] = b[i + 1]
      BY <1>2
    <2> QED
      BY <2>1, <1>7, <1>8
  <1>12. Len(z) = 1 + Len(t) /\ Len(x) = 1 /\ Len(y) = Len(t)
    BY <1>2, <1>7, <1>8, <1>10
  <1>13. IsJoin(z, x, y)
    BY <1>9, <1>10, <1>11, <1>12 DEF IsJoin
  <1>14. Total(z) = Total(x) + Total(y) /\ Total(x) = u /\ Total(y) \in Nat
    BY <1>7, <1>8, <1>10, <1>13, TotalOfJoin, TotalOfFew, TotalNat
  <1> QED
    BY <1>1, <1>3, <1>5, <1>6, <1>9, <1>14

(* Uses of a sequence whose last frame is f.                                *)
LEMMA UsesOfLast ==
    ASSUME NEW b \in Seq(Frames), NEW f \in Frames, NEW s
    PROVE  /\ Total(Uses(Append(b, f), s)) = Total(Uses(b, s)) + Use(f, s)
           /\ Total(Uses(b, s)) \in Nat /\ Use(f, s) \in Nat
  <1>1. PICK c : c = Append(b, f)
    OBVIOUS
  <1>2. /\ c \in Seq(Frames) /\ Len(b) \in Nat /\ Len(c) = Len(b) + 1 /\ c[Len(b) + 1] = f
        /\ \A k \in 1..Len(b) : c[k] = b[k]
    BY <1>1, Pushed
  <1>3. PICK u : u = Use(f, s)
    OBVIOUS
  <1>4. PICK x : x = <<u>>
    OBVIOUS
  <1>5. PICK y : y = Uses(b, s)
    OBVIOUS
  <1>6. PICK z : z = Uses(c, s)
    OBVIOUS
  <1>7. y \in Seq(Nat) /\ Len(y) = Len(b) /\ \A k \in 1..Len(b) : y[k] = Use(b[k], s)
    BY <1>5, UsesTyped
  <1>8. z \in Seq(Nat) /\ Len(z) = Len(c) /\ \A k \in 1..Len(c) : z[k] = Use(c[k], s)
    BY <1>2, <1>6, UsesTyped
  <1>9. z[Len(b) + 1] = u /\ u \in Nat
    <2>1. Len(b) + 1 \in 1..Len(c)
      BY <1>2
    <2>2. z[Len(b) + 1] = u
      BY <2>1, <1>2, <1>3, <1>8
    <2>3. z[Len(b) + 1] \in Nat
      BY <2>1, <1>8
    <2> QED
      BY <2>2, <2>3
  <1>10. x \in Seq(Nat) /\ Len(x) = 1 /\ x[1] = u /\ \A i \in 1..1 : i = 1
    BY <1>4, <1>9
  <1>11. ASSUME NEW i \in 1..Len(b) PROVE z[i] = y[i]
    <2>1. i \in 1..Len(c) /\ c[i] = b[i]
      BY <1>2
    <2> QED
      BY <2>1, <1>7, <1>8
  <1>12. Len(z) = Len(b) + 1 /\ Len(x) = 1 /\ Len(y) = Len(b)
    BY <1>2, <1>7, <1>8, <1>10
  <1>13. IsJoin(z, y, x)
    BY <1>9, <1>10, <1>11, <1>12 DEF IsJoin
  <1>14. Total(z) = Total(y) + Total(x) /\ Total(x) = u /\ Total(y) \in Nat
    BY <1>7, <1>8, <1>10, <1>13, TotalOfJoin, TotalOfFew, TotalNat
  <1> QED
    BY <1>1, <1>3, <1>5, <1>6, <1>9, <1>14

(* Frames that grant nothing.                                               *)
LEMMA NoGain ==
    ASSUME NEW w \in Seq(OutFrames), NEW s, \A k \in 1..Len(w) : w[k].type # "window_update"
    PROVE  Total(Gains(w, s)) = 0
  <1>1. PICK g : g = Gains(w, s)
    OBVIOUS
  <1>2. g \in Seq(Nat) /\ Len(g) = Len(w) /\ \A k \in 1..Len(w) : g[k] = Gain(w[k], s)
    BY <1>1, GainsTyped
  <1>3. \A k \in 1..Len(g) : g[k] = 0
    BY <1>2 DEF Gain
  <1> QED
    BY <1>1, <1>2, <1>3, TotalOfZeros

(* What handle_data gives back.                                             *)
LEMMA CreditGain ==
    ASSUME NEW f \in DataFrames, f.sid \in Streams, NEW s \in Streams
    PROVE  Total(Gains(Credits(f), s)) = Use(f, s)
  <1>0. f.type = "data" /\ Len(f.payload) \in Nat /\ 0 \notin Streams
    BY Http2Assumption DEF DataFrames
  <1>1. PICK w : w = Credits(f)
    OBVIOUS
  <1>2. PICK n : n = Len(f.payload)
    OBVIOUS
  <1>3. /\ w \in Seq(OutFrames)
        /\ n = 0 => Len(w) = 0
        /\ n # 0 => Len(w) = 2 /\ w[1] = WindowUpdate(0, n) /\ w[2] = WindowUpdate(f.sid, n)
    BY <1>1, <1>2, CreditFrames
  <1>4. PICK g : g = Gains(w, s)
    OBVIOUS
  <1>5. g \in Seq(Nat) /\ Len(g) = Len(w) /\ \A k \in 1..Len(w) : g[k] = Gain(w[k], s)
    BY <1>3, <1>4, GainsTyped
  <1>6. CASE n = 0
    <2>1. Total(g) = 0
      BY <1>3, <1>5, <1>6, TotalOfFew
    <2> QED
      BY <2>1, <1>1, <1>2, <1>4, <1>6 DEF Use
  <1>7. CASE n # 0
    <2>1. g[1] = Gain(WindowUpdate(0, n), s) /\ g[2] = Gain(WindowUpdate(f.sid, n), s)
      BY <1>3, <1>5, <1>7
    <2>2. Gain(WindowUpdate(0, n), s) = 0
      BY <1>0 DEF Gain, WindowUpdate
    <2>3. Gain(WindowUpdate(f.sid, n), s) = IF f.sid = s THEN n ELSE 0
      BY DEF Gain, WindowUpdate
    <2>4. Total(g) = g[1] + g[2]
      BY <1>3, <1>5, <1>7, TotalOfPair
    <2>5. Total(g) = IF f.sid = s THEN n ELSE 0
      BY <2>1, <2>2, <2>3, <2>4, <1>0, <1>2
    <2> QED
      BY <2>5, <1>0, <1>1, <1>2, <1>4 DEF Use
  <1> QED
    BY <1>6, <1>7

(* Until its end is sent, what a stream has used is back, or on its way to  *)
(* the server.                                                              *)
CreditOn(s) ==
    ~goaway_sent_ /\ client.sent[s].phase # "done" =>
        Granted(s) + Pending(s) = Len(client.sent[s].body)
CreditInv == \A s \in Streams : CreditOn(s)

(* A step of the server gives back what the frame it parses has used.       *)
LEMMA CreditGiven ==
    ASSUME H2Type, EndInv, H2Type', inbox # <<>>, Passed \/ Requested,
           NEW s \in Streams, client.sent[s].phase # "done"
    PROVE  \E w : Writes(w) /\ Total(Gains(w, s)) = Use(Head(inbox), s)
  <1>1. PICK f : f = Head(inbox)
    OBVIOUS
  <1>2. f \in Frames /\ out \in Seq(OutFrames)
    BY <1>1, Popped DEF H2Type, ClientType, ServerType
  <1>3. ASSUME out' = out, Use(f, s) = 0 PROVE \E w : Writes(w) /\ Total(Gains(w, s)) = Use(Head(inbox), s)
    <2>1. PICK none : none = <<>>
      OBVIOUS
    <2>2. none \in Seq(OutFrames) /\ Len(none) = 0 /\ \A k : k \notin 1..0
      BY <2>1
    <2>3. out \o none = out
      BY <2>1, <1>2
    <2>4. Writes(none)
      BY <2>2, <2>3, <1>3 DEF Writes
    <2>5. Total(Gains(none, s)) = 0
      BY <2>2, NoGain
    <2> QED
      BY <2>4, <2>5, <1>1, <1>3
  <1>4. ASSUME NEW t, HandledNow(t), Use(f, s) = 0
        PROVE  \E w : Writes(w) /\ Total(Gains(w, s)) = Use(Head(inbox), s)
    <2>1. PICK w : IsResponse(w, t) /\ out' = out \o w
      BY <1>4 DEF HandledNow
    <2>2. w \in Seq(OutFrames) /\ \A k \in 1..Len(w) : w[k].type # "window_update"
      BY <2>1 DEF IsResponse
    <2>3. Total(Gains(w, s)) = 0
      BY <2>2, NoGain
    <2> QED
      BY <2>1, <2>2, <2>3, <1>1, <1>4 DEF Writes
  <1>5. CASE Passed
    <2>1. Use(f, s) = 0 /\ Answered
      BY <1>1, <1>5 DEF Passed, Use
    <2>2. ASSUME NEW a \in OutFrames, a.type \in {"settings", "ping"}, out' = out \o <<a>>
          PROVE  \E w : Writes(w) /\ Total(Gains(w, s)) = Use(Head(inbox), s)
      <3>1. PICK w : w = <<a>>
        OBVIOUS
      <3>2. w \in Seq(OutFrames) /\ Len(w) = 1 /\ w[1] = a
        BY <3>1
      <3>3. \A k \in 1..Len(w) : w[k].type # "window_update"
        BY <3>2, <2>2
      <3>4. Writes(w)
        BY <3>1, <3>2, <2>2 DEF Writes
      <3>5. Total(Gains(w, s)) = 0
        BY <3>2, <3>3, NoGain
      <3> QED
        BY <3>4, <3>5, <2>1, <1>1
    <2> QED
      BY <2>1, <2>2, <1>3 DEF Answered
  <1>6. CASE FragmentTaken(f)
    BY <1>3, <1>6 DEF FragmentTaken, Use
  <1>7. CASE HeadersTaken(f)
    <2>1. Use(f, s) = 0 /\ f.end_stream \in BOOLEAN
      BY <1>2, <1>7, FrameFields DEF HeadersTaken, Use, HeadersFrames
    <2> QED
      BY <2>1, <1>3, <1>4, <1>7 DEF HeadersTaken
  <1>8. CASE DataTaken(f)
    <2>1. f \in DataFrames /\ f.sid \in Streams
      BY <1>2, <1>8, FrameFields DEF DataTaken, H2Type, ServerType
    <2>2. CASE Completes(f)
      <3>1. IsEnd(f, f.sid) /\ HandledNow(f.sid)
        BY <2>2, <1>8 DEF DataTaken, IsEnd, Completes
      <3>2. f.sid # s
        <4>1. f.sid = s => 1 \in EndAt(s)
          <5>1. 1 \in 1..Len(inbox) /\ inbox[1] = f
            BY <1>1, Popped DEF H2Type, ClientType
          <5> QED
            BY <5>1, <3>1 DEF EndAt
        <4> QED
          BY <4>1 DEF EndInv, EndsOnce
      <3>3. Use(f, s) = 0
        BY <3>2 DEF Use
      <3> QED
        BY <3>1, <3>3, <1>4
    <2>3. CASE ~Completes(f)
      <3>1. out' = out \o Credits(f)
        BY <2>3, <1>8 DEF DataTaken
      <3>2. Writes(Credits(f))
        BY <3>1, <2>1, CreditFrames DEF Writes
      <3>3. Total(Gains(Credits(f), s)) = Use(f, s)
        BY <2>1, CreditGain
      <3> QED
        BY <3>2, <3>3, <1>1
    <2> QED
      BY <2>2, <2>3
  <1> QED
    BY <1>1, <1>5, <1>6, <1>7, <1>8 DEF Requested

(* Every step keeps the account.                                            *)
LEMMA CreditKept ==
    ASSUME OutputInv, CreditInv, [Next]_vars
    PROVE  CreditInv'
  <1>0. H2Type /\ EndInv
    BY DEF OutputInv
  <1> SUFFICES ASSUME NEW s \in Streams PROVE CreditOn(s)'
    BY DEF CreditInv
  <1>1. CreditOn(s)
    BY DEF CreditInv
  <1>2. Pending(s)' = Total(Uses(inbox', s)) /\ inbox \in Seq(Frames)
    BY <1>0 DEF Pending, Uses, Use, H2Type, ClientType
  <1>3. CASE ServerStep
    <2>1. ServerEffect
      BY <1>0, <1>3, ServerStepEffect
    <2>2. H2Type' /\ client' = client /\ ~goaway_sent_ /\ inbox # <<>>
      BY <2>1 DEF ServerEffect
    <2>3. CASE Failed
      BY <2>3 DEF Failed, CreditOn
    <2>4. CASE Passed \/ Requested
      <3> SUFFICES ASSUME client.sent[s].phase # "done"
                   PROVE  Granted(s)' + Pending(s)' = Len(client.sent[s].body)
        BY <2>2 DEF CreditOn
      <3>1. PICK w : Writes(w) /\ Total(Gains(w, s)) = Use(Head(inbox), s)
        BY <1>0, <2>2, <2>4, CreditGiven
      <3>2. /\ Granted(s) \in Nat /\ Granted(s)' = Granted(s) + Use(Head(inbox), s)
        BY <3>1, <1>0, GrantedMore
      <3>3. inbox' = Tail(inbox)
        BY <2>4 DEF Passed, Requested
      <3>4. /\ Pending(s) = Use(Head(inbox), s) + Pending(s)'
            /\ Use(Head(inbox), s) \in Nat /\ Pending(s)' \in Nat
        BY <3>3, <2>2, <1>2, UsesOfFirst DEF Pending
      <3>5. Granted(s) + Pending(s) = Len(client.sent[s].body)
        BY <2>2, <1>1 DEF CreditOn
      <3> QED
        BY <3>2, <3>4, <3>5
    <2> QED
      BY <2>1, <2>3, <2>4 DEF ServerEffect
  <1>4. CASE ClientStep
    <2>1. ClientEffect
      BY <1>0, <1>4, ClientStepEffect
    <2>2. H2Type' /\ out' = out /\ goaway_sent_' = goaway_sent_
      BY <2>1 DEF ClientEffect, h2Vars
    <2>3. PICK f \in Frames : inbox' = Append(inbox, f) /\ (HeadersSent(f) \/ DataSent(f) \/ OtherSent(f))
      BY <2>1 DEF ClientEffect
    <2>4. Granted(s)' = Granted(s)
      BY <2>2, GrantedIs
    <2>5. Pending(s)' = Pending(s) + Use(f, s) /\ Pending(s) \in Nat /\ Use(f, s) \in Nat
      BY <2>3, <1>2, UsesOfLast DEF Pending
    <2>6. Granted(s) \in Nat
      <3>1. out \in Seq(OutFrames)
        BY <1>0 DEF H2Type, ServerType
      <3> QED
        BY <3>1, GrantedIs, GainsTyped, TotalNat
    <2>7. client.sent[s].body \in Seq(Pieces) /\ 0 \notin Streams
      BY <1>0, Http2Assumption DEF H2Type, ClientType, ClientRecs, Said
    <2>8. ASSUME Use(f, s) = 0, client'.sent[s].body = client.sent[s].body,
                 client'.sent[s].phase # "done" => client.sent[s].phase # "done"
          PROVE  CreditOn(s)'
      BY <1>1, <2>2, <2>4, <2>5, <2>8 DEF CreditOn
    <2>9. CASE OtherSent(f)
      <3>1. Use(f, s) = 0
        BY <2>7, <2>9 DEF OtherSent, Use
      <3>2. client'.sent[s].body = client.sent[s].body
            /\ (client'.sent[s].phase # "done" => client.sent[s].phase # "done")
        BY <2>9 DEF OtherSent
      <3> QED
        BY <3>1, <3>2, <2>8
    <2>10. CASE HeadersSent(f)
      <3>1. Use(f, s) = 0
        BY <2>10 DEF HeadersSent, Use
      <3>2. CASE f.sid = s
        BY <3>1, <3>2, <2>8, <2>10 DEF HeadersSent
      <3>3. CASE f.sid # s
        <4>1. client'.sent[s] = client.sent[s]
          BY <3>3, <2>10 DEF HeadersSent, SaidOn
        <4> QED
          BY <4>1, <3>1, <2>8
      <3> QED
        BY <3>2, <3>3
    <2>11. CASE DataSent(f)
      <3>2. CASE f.sid = s
        <4>1. /\ client.sent[s].phase = "open" /\ Use(f, s) = Len(f.payload)
              /\ client'.sent[s].body = client.sent[s].body \o f.payload
          BY <3>2, <2>11 DEF DataSent, Use
        <4>2. f.payload \in Seq(Pieces)
          BY <2>11, FrameFields DEF DataSent, DataFrames
        <4>3. Len(client'.sent[s].body) = Len(client.sent[s].body) + Len(f.payload)
          BY <4>1, <4>2, <2>7
        <4>4. ~goaway_sent_ => Granted(s) + Pending(s) = Len(client.sent[s].body)
          BY <4>1, <1>1 DEF CreditOn
        <4>5. ~goaway_sent_ => Granted(s)' + Pending(s)' = Len(client'.sent[s].body)
          <5>1. PICK u : u = Use(f, s)
            OBVIOUS
          <5>2. PICK n : n = Len(client.sent[s].body)
            OBVIOUS
          <5>3. PICK g : g = Granted(s)
            OBVIOUS
          <5>4. PICK p : p = Pending(s)
            OBVIOUS
          <5>5. u \in Nat /\ g \in Nat /\ p \in Nat /\ Granted(s)' = g /\ Pending(s)' = p + u
            BY <5>1, <5>3, <5>4, <2>4, <2>5, <2>6
          <5>6. Len(client'.sent[s].body) = n + u /\ (~goaway_sent_ => g + p = n)
            BY <5>1, <5>2, <5>3, <5>4, <4>1, <4>3, <4>4
          <5> QED
            BY <5>5, <5>6
        <4> QED
          BY <4>5, <2>2 DEF CreditOn
      <3>3. CASE f.sid # s
        <4>1. client'.sent[s] = client.sent[s] /\ Use(f, s) = 0
          BY <3>3, <2>11 DEF DataSent, SaidOn, Use
        <4> QED
          BY <4>1, <2>8
      <3> QED
        BY <3>2, <3>3
    <2> QED
      BY <2>3, <2>9, <2>10, <2>11
  <1>5. CASE UNCHANGED vars
    <2>1. inbox' = inbox /\ out' = out /\ client' = client /\ goaway_sent_' = goaway_sent_
      BY <1>5 DEF vars, h2Vars
    <2>2. Granted(s)' = Granted(s) /\ Pending(s)' = Pending(s)
      BY <2>1, <1>2, GrantedIs DEF Pending
    <2> QED
      BY <2>1, <2>2, <1>1 DEF CreditOn
  <1> QED
    BY <1>3, <1>4, <1>5 DEF Next

(* Nothing is used or granted at the start.                                 *)
LEMMA CreditInit == Init => CreditInv
  <1> SUFFICES ASSUME Init, NEW s \in Streams PROVE CreditOn(s)
    BY DEF CreditInv
  <1>1. H2Type
    BY TypeInit
  <1>2. inbox \in Seq(Frames) /\ out \in Seq(OutFrames)
    BY <1>1 DEF H2Type, ServerType, ClientType
  <1>3. PICK none : none = <<>>
    OBVIOUS
  <1>4. out = none /\ Len(none) = 0 /\ \A k : k \notin 1..0
    BY <1>3 DEF Init
  <1>5. Granted(s) = 0
    BY <1>2, <1>4, GrantedIs, NoGain
  <1>6. PICK bad \in BOOLEAN : inbox = <<[type |-> "preface", bad |-> bad]>>
    BY DEF Init
  <1>7. \A k \in 1..Len(inbox) : inbox[k].type = "preface"
    BY <1>6
  <1>8. PICK u : u = Uses(inbox, s)
    OBVIOUS
  <1>9. u \in Seq(Nat) /\ Len(u) = Len(inbox) /\ \A k \in 1..Len(inbox) : u[k] = Use(inbox[k], s)
    BY <1>2, <1>8, UsesTyped
  <1>10. \A k \in 1..Len(u) : u[k] = 0
    BY <1>7, <1>9 DEF Use
  <1>11. Pending(s) = 0
    BY <1>8, <1>9, <1>10, TotalOfZeros DEF Pending
  <1>12. Len(client.sent[s].body) = 0
    BY <1>3, <1>4 DEF Init, ClientInit, Idle
  <1> QED
    BY <1>5, <1>11, <1>12 DEF CreditOn

(* A client in the middle of a request has all the stream's credit back     *)
(* once handle_data has seen every frame, whatever the other streams do.    *)
THEOREM Http2CreditReturned == Spec => []StreamCreditReturned
  <1>1. Init => CreditInv
    BY CreditInit
  <1>2. OutputInv /\ CreditInv /\ [Next]_vars => CreditInv'
    BY CreditKept
  <1>3. OutputInv /\ CreditInv => StreamCreditReturned
    <2> SUFFICES ASSUME OutputInv, CreditInv, NEW s \in Streams, Quiet, client.sent[s].phase = "open"
                 PROVE  StreamCredit(s) = StreamWindow
      BY DEF StreamCreditReturned
    <2>1. H2Type /\ ~goaway_sent_ /\ inbox = <<>>
      BY DEF OutputInv, Quiet
    <2>2. Granted(s) + Pending(s) = Len(client.sent[s].body)
      BY <2>1 DEF CreditInv, CreditOn
    <2>3. out \in Seq(OutFrames) /\ inbox \in Seq(Frames) /\ client.sent[s].body \in Seq(Pieces) /\ Len(inbox) = 0
      BY <2>1 DEF H2Type, ServerType, ClientType, ClientRecs, Said
    <2>4. Pending(s) = 0
      BY <2>3, UsesTyped, TotalOfFew DEF Pending
    <2>5. Granted(s) \in Nat
      BY <2>3, GrantedIs, GainsTyped, TotalNat
    <2>6. StreamWindow \in Nat /\ Len(client.sent[s].body) \in Nat
      BY <2>3, Http2Assumption
    <2> QED
      BY <2>2, <2>4, <2>5, <2>6 DEF StreamCredit
  <1> QED
    BY <1>1, <1>2, <1>3, OutputInvariant, PTL DEF Spec

-----------------------------------------------------------------------------
(* Requests: what the server makes of the frames is what the client meant   *)
(* by them.  The state of the client after each frame that is on its way    *)
(* links the two ends.                                                      *)

(* Nothing is evicted from a table that fits.                               *)
LEMMA EvictedWhole ==
    ASSUME NEW t \in Seq(Fields), NEW n \in Nat, TableBytes(t) <= n
    PROVE  Evicted(t, n) = t
  <1>1. PICK g : Bytes(t, g)
    BY BytesExist
  <1>2. PICK m : IsCut(Evicted(t, n), t, m) /\ FitsIn(t, n, g, m)
    BY <1>1, EvictedCut
  <1>3. Len(t) \in Nat /\ Len(t) \in 0..Len(t)
    OBVIOUS
  <1>4. IsCut(t, t, Len(t))
    BY <1>3 DEF IsCut
  <1>5. g[Len(t)] = TableBytes(t)
    BY <1>1, <1>4, BytesOfIsCut
  <1>6. m = Len(t)
    BY <1>2, <1>3, <1>5 DEF FitsIn, IsCut
  <1>7. PICK c : c = Evicted(t, n)
    OBVIOUS
  <1>8. c \in Seq(Fields) /\ Len(c) = Len(t) /\ \A i \in 1..Len(t) : c[i] = t[i]
    BY <1>2, <1>6, <1>7 DEF IsCut
  <1> QED
    BY <1>7, <1>8, SameSeq

(* A decoder given a table no smaller than the encoder's still follows it.  *)
LEMMA ResizeFollows ==
    ASSUME NEW e, NEW d, Follower(e, d), NEW n \in Nat, e.max <= n
    PROVE  Follower(e, SetMaxTableSize(d, n))
  <1>1. /\ e.table \in Seq(Fields) /\ e.max \in Nat /\ TableBytes(e.table) <= e.max
        /\ d \in SoundTables /\ Pre(e.table, d.table)
    BY DEF Follower
  <1>2. d.table \in Seq(Fields)
    BY <1>1 DEF SoundTables, Tables
  <1>3. Evicted(e.table, e.max) = e.table
    BY <1>1, EvictedWhole
  <1>4. e.max \in Int /\ n \in Int
    BY <1>1
  <1>5. Pre(Evicted(e.table, e.max), Evicted(d.table, n))
    BY <1>1, <1>2, <1>4, EvictedPrefix
  <1>6. /\ SetMaxTableSize(d, n) \in SoundTables /\ SetMaxTableSize(d, n).max = n
        /\ SetMaxTableSize(d, n).table = Evicted(d.table, n)
    BY <1>1, ResizeSound
  <1> QED
    BY <1>1, <1>3, <1>5, <1>6 DEF Follower

(* Past states of the client.                                               *)
Pasts == {c \in ClientRecs : TableBytes(c.table) <= c.max}

SameSaid(c, d, s) == c.sent[s].fields = d.sent[s].fields /\ c.sent[s].body = d.sent[s].body

(* Sending f took the client from c to d, without derailing the server.     *)
SaysHeaders(c, f, d) ==
    LET e == Encoding(c.table, c.max, f.block)[Len(f.block)] IN
    /\ f.type = "headers" /\ f.sid \in Streams /\ ~f.bad /\ f.end_headers
    /\ Encodable(c.table, c.max, f.block)
    /\ d.table = e.table /\ d.max = e.max
    /\ \A t \in Streams : t # f.sid => SameSaid(c, d, t)
    /\ d.sent[f.sid].fields = c.sent[f.sid].fields \o e.fields
    /\ d.sent[f.sid].body = c.sent[f.sid].body

SaysData(c, f, d) ==
    /\ f.type = "data" /\ f.sid \in Streams
    /\ d.table = c.table /\ d.max = c.max
    /\ \A t \in Streams : t # f.sid => SameSaid(c, d, t)
    /\ d.sent[f.sid].fields = c.sent[f.sid].fields
    /\ d.sent[f.sid].body = c.sent[f.sid].body \o f.payload

SaysOther(c, f, d) ==
    /\ f.type = "headers" => f.sid = 0 \/ f.bad
    /\ f.type = "data" => f.sid = 0
    /\ d.table = c.table /\ d.max = c.max
    /\ \A t \in Streams : SameSaid(c, d, t)
    /\ Resizes(f) => c.max <= f.value

Follows(c, f, d) == SaysHeaders(c, f, d) \/ SaysData(c, f, d) \/ SaysOther(c, f, d)

(* The server is where the client was at c.                                 *)
MatchesOn(c, s) ==
    IF s \in DOMAIN streams_
    THEN /\ LastOfEach(streams_[s].headers, c.sent[s].fields)
         /\ streams_[s].body = c.sent[s].body
         /\ streams_[s].header_block = <<>>
         /\ streams_[s].headers_complete
    ELSE /\ c.sent[s].fields = <<>>
         /\ c.sent[s].body = <<>>
Matches(c) == Follower(c, decoder) /\ \A s \in Streams : MatchesOn(c, s)

(* A frame that is neither HEADERS nor DATA has passed.                     *)
LEMMA MatchesPassed ==
    ASSUME H2Type, H2Type', inbox # <<>>, NEW c \in Pasts, NEW d \in Pasts,
           Matches(c), Follows(c, Head(inbox), d), Passed
    PROVE  Matches(d)'
  <1>1. PICK f : f = Head(inbox)
    OBVIOUS
  <1>2. f \in Frames
    BY <1>1, Popped DEF H2Type, ClientType
  <1>3. /\ f.type \notin {"headers", "data"} /\ SameRequests
        /\ decoder' = IF Resizes(f) THEN SetMaxTableSize(decoder, f.value) ELSE decoder
    BY <1>1 DEF Passed
  <1>4. /\ d.table = c.table /\ d.max = c.max
        /\ \A t \in Streams : SameSaid(c, d, t)
        /\ Resizes(f) => c.max <= f.value
    BY <1>1, <1>3 DEF Follows, SaysHeaders, SaysData, SaysOther
  <1>5. Follower(c, decoder')
    <2>1. CASE Resizes(f)
      <3>1. f.value \in Nat
        BY <2>1, <1>2, FrameFields DEF Resizes
      <3> QED
        BY <2>1, <3>1, <1>3, <1>4, ResizeFollows DEF Matches
    <2>2. CASE ~Resizes(f)
      BY <2>2, <1>3 DEF Matches
    <2> QED
      BY <2>1, <2>2
  <1>6. Follower(d, decoder')
    BY <1>4, <1>5 DEF Follower
  <1>7. ASSUME NEW s \in Streams PROVE MatchesOn(d, s)'
    <2>1. MatchesOn(c, s) /\ SameSaid(c, d, s)
      BY <1>4 DEF Matches
    <2> QED
      BY <2>1, <1>3 DEF MatchesOn, SameSaid, SameRequests
  <1> QED
    BY <1>6, <1>7 DEF Matches

(* The stream a frame is for, found or created.                             *)
LEMMA MatchesFound ==
    ASSUME NEW c, NEW s \in Streams, MatchesOn(c, s)
    PROVE  /\ LastOfEach(GetOrCreateStream(s).headers, c.sent[s].fields)
           /\ GetOrCreateStream(s).body = c.sent[s].body
           /\ GetOrCreateStream(s).header_block = <<>>
  BY NoneLast DEF MatchesOn, GetOrCreateStream, NewStream

(* HEADERS have passed.                                                     *)
LEMMA MatchesHeaders ==
    ASSUME H2Type, H2Type', inbox # <<>>, NEW c \in Pasts, NEW d \in Pasts,
           Matches(c), Follows(c, Head(inbox), d), HeadersTaken(Head(inbox))
    PROVE  Matches(d)'
  <1>1. PICK f : f = Head(inbox)
    OBVIOUS
  <1>2. f \in Frames
    BY <1>1, Popped DEF H2Type, ClientType
  <1>3. HeadersTaken(f)
    BY <1>1
  <1>4. f \in HeadersFrames /\ f.sid \in Streams /\ f.block \in Seq(Instructions) /\ 0 \notin Streams
    BY <1>2, <1>3, FrameFields, Http2Assumption DEF HeadersTaken, HeadersFrames
  <1>5. SaysHeaders(c, f, d)
    BY <1>1, <1>3, <1>4 DEF Follows, SaysData, SaysOther, HeadersTaken
  <1>6. PICK e : e = Encoding(c.table, c.max, f.block)[Len(f.block)]
    OBVIOUS
  <1>7. /\ Encodable(c.table, c.max, f.block)
        /\ d.table = e.table /\ d.max = e.max
        /\ \A t \in Streams : t # f.sid => SameSaid(c, d, t)
        /\ d.sent[f.sid].fields = c.sent[f.sid].fields \o e.fields
        /\ d.sent[f.sid].body = c.sent[f.sid].body
    BY <1>5, <1>6 DEF SaysHeaders
  <1>8. \A s \in Streams : MatchesOn(c, s)
    BY DEF Matches
  <1>9. /\ LastOfEach(GetOrCreateStream(f.sid).headers, c.sent[f.sid].fields)
        /\ GetOrCreateStream(f.sid).body = c.sent[f.sid].body
        /\ GetOrCreateStream(f.sid).header_block = <<>>
    BY <1>4, <1>8, MatchesFound
  <1>10. Accumulated.header_block = f.block
    <2>1. Accumulated.header_block = GetOrCreateStream(f.sid).header_block \o f.block
      BY <1>1, <1>4, AccumulatedTyped
    <2> QED
      BY <2>1, <1>4, <1>9
  <1>11. Decoded = Decode(decoder, f.block)
    BY <1>10 DEF Decoded
  <1>12. InStep(e, Decoded)
    BY <1>4, <1>6, <1>7, <1>11, BlockInStep DEF Matches
  <1>13. Follower(e, Decoded.d) /\ Decoded.fields = e.fields
    BY <1>12 DEF InStep
  <1>14. /\ decoder' = Decoded.d /\ OneStream(f.sid)
         /\ streams_'[f.sid].headers = WithFields(GetOrCreateStream(f.sid).headers, Decoded.fields)
         /\ streams_'[f.sid].body = GetOrCreateStream(f.sid).body
         /\ streams_'[f.sid].header_block = <<>> /\ streams_'[f.sid].headers_complete
    BY <1>3 DEF HeadersTaken
  <1>15. Follower(d, decoder')
    BY <1>7, <1>13, <1>14 DEF Follower
  <1>16. ASSUME NEW s \in Streams PROVE MatchesOn(d, s)'
    <2>1. CASE s = f.sid
      <3>1. s \in DOMAIN streams_'
        BY <2>1, <1>14 DEF OneStream
      <3>2. LastOfEach(streams_'[s].headers, d.sent[s].fields)
        <4>1. GetOrCreateStream(s).headers \in Headers
          BY <2>1, <1>4, StreamTyped DEF StreamRecs
        <4>2. c.sent[s].fields \in Seq(Fields) /\ e.fields \in Seq(Fields)
          BY <1>12 DEF Pasts, ClientRecs, Said, InStep, EStates
        <4>3. LastOfEach(GetOrCreateStream(s).headers, c.sent[s].fields)
          BY <2>1, <1>9
        <4>4. LastOfEach(WithFields(GetOrCreateStream(s).headers, e.fields), c.sent[s].fields \o e.fields)
          BY <4>1, <4>2, <4>3, WithFieldsLast
        <4> QED
          BY <4>4, <2>1, <1>7, <1>13, <1>14
      <3>3. streams_'[s].body = d.sent[s].body
        BY <2>1, <1>7, <1>9, <1>14
      <3> QED
        BY <2>1, <3>1, <3>2, <3>3, <1>14 DEF MatchesOn
    <2>2. CASE s # f.sid
      <3>1. s \in DOMAIN streams_' <=> s \in DOMAIN streams_
        BY <2>2, <1>14 DEF OneStream
      <3>2. s \in DOMAIN streams_ => streams_'[s] = streams_[s]
        BY <2>2, <1>14 DEF OneStream
      <3> QED
        BY <2>2, <3>1, <3>2, <1>7, <1>8 DEF MatchesOn, SameSaid
    <2> QED
      BY <2>1, <2>2
  <1> QED
    BY <1>15, <1>16 DEF Matches

(* DATA has passed.                                                         *)
LEMMA MatchesData ==
    ASSUME H2Type, H2Type', inbox # <<>>, NEW c \in Pasts, NEW d \in Pasts,
           Matches(c), Follows(c, Head(inbox), d), DataTaken(Head(inbox))
    PROVE  Matches(d)'
  <1>1. PICK f : f = Head(inbox)
    OBVIOUS
  <1>3. DataTaken(f)
    BY <1>1
  <1>4. f.type = "data" /\ f.sid \in DOMAIN streams_ /\ f.sid \in Streams /\ 0 \notin Streams
    BY <1>3, Http2Assumption DEF DataTaken, H2Type, ServerType
  <1>5. SaysData(c, f, d)
    <2>1. ~SaysHeaders(c, f, d)
      BY <1>4, Zenon DEF SaysHeaders
    <2>2. ~SaysOther(c, f, d)
      BY <1>4, Zenon DEF SaysOther
    <2> QED
      BY <2>1, <2>2, <1>1, Zenon DEF Follows
  <1>6. \A s \in Streams : MatchesOn(c, s)
    BY DEF Matches
  <1>7. Follower(d, decoder')
    <2>1. decoder' = decoder
      BY <1>3, Zenon DEF DataTaken
    <2>2. d.table = c.table /\ d.max = c.max
      BY <1>5, Zenon DEF SaysData
    <2>3. Follower(c, decoder)
      BY Zenon DEF Matches
    <2> QED
      BY <2>1, <2>2, <2>3, Zenon DEF Follower
  <1>8. /\ DOMAIN streams_' = DOMAIN streams_ \cup {f.sid}
        /\ \A x \in DOMAIN streams_ : x # f.sid => streams_'[x] = streams_[x]
    BY <1>3 DEF DataTaken, OneStream
  <1>9. ASSUME NEW s \in Streams PROVE MatchesOn(d, s)'
    <2>1. CASE s = f.sid
      <3>1. s \in DOMAIN streams_'
        BY <2>1, <1>8
      <3>2. /\ LastOfEach(streams_[s].headers, c.sent[s].fields) /\ streams_[s].body = c.sent[s].body
            /\ streams_[s].header_block = <<>> /\ streams_[s].headers_complete
        BY <2>1, <1>4, <1>6 DEF MatchesOn
      <3>3. /\ streams_'[s].headers = streams_[s].headers
            /\ streams_'[s].body = streams_[s].body \o f.payload
            /\ streams_'[s].header_block = streams_[s].header_block
            /\ streams_'[s].headers_complete = streams_[s].headers_complete
        BY <2>1, <1>3, Zenon DEF DataTaken
      <3>4. d.sent[s].fields = c.sent[s].fields /\ d.sent[s].body = c.sent[s].body \o f.payload
        BY <2>1, <1>5, Zenon DEF SaysData
      <3> QED
        BY <3>1, <3>2, <3>3, <3>4 DEF MatchesOn
    <2>2. CASE s # f.sid
      <3>1. s \in DOMAIN streams_' <=> s \in DOMAIN streams_
        BY <2>2, <1>8
      <3>2. SameSaid(c, d, s)
        BY <2>2, <1>5 DEF SaysData
      <3> QED
        BY <2>2, <3>1, <3>2, <1>6, <1>8 DEF MatchesOn, SameSaid
    <2> QED
      BY <2>1, <2>2
  <1> QED
    BY <1>7, <1>9 DEF Matches

(* Any frame has passed.                                                    *)
LEMMA MatchesStep ==
    ASSUME H2Type, H2Type', inbox # <<>>, NEW c \in Pasts, NEW d \in Pasts,
           Matches(c), Follows(c, Head(inbox), d), Passed \/ Requested
    PROVE  Matches(d)' /\ ~FragmentTaken(Head(inbox))
  <1>1. ~FragmentTaken(Head(inbox))
    BY Http2Assumption DEF FragmentTaken, Follows, SaysHeaders, SaysData, SaysOther
  <1> QED
    BY <1>1, MatchesPassed, MatchesHeaders, MatchesData DEF Requested

(* v holds the state of the client after each frame on its way: the server  *)
(* is where the first of them is, the client where the last is, and what is *)
(* said on a stream is final with the frame that ends it.                   *)
Trace(v) ==
    /\ v \in [0..Len(inbox) -> Pasts]
    /\ Matches(v[0])
    /\ \A k \in 1..Len(inbox) : Follows(v[k - 1], inbox[k], v[k])
    /\ v[Len(inbox)] = client
    /\ \A k \in 1..Len(inbox), s \in Streams : IsEnd(inbox[k], s) => SameSaid(v[k], client, s)

TraceInv == ~client.derailed /\ ~goaway_sent_ => \E v : Trace(v)

(* Every request that has ended is on its way or handled.                   *)
EndedOn(s) ==
    ~client.derailed /\ ~goaway_sent_ /\ client.sent[s].phase = "done" => EndAt(s) # {} \/ HandledAt(s) # {}
EndedInv == \A s \in Streams : EndedOn(s)

(* At the start.                                                            *)
LEMMA TraceInit == Init => TraceInv /\ EndedInv /\ RequestsIntact
  <1> SUFFICES ASSUME Init PROVE TraceInv /\ EndedInv /\ RequestsIntact
    OBVIOUS
  <1>1. H2Type
    BY TypeInit
  <1>2. PICK none : none = <<>>
    OBVIOUS
  <1>3. PICK bad \in BOOLEAN : inbox = <<[type |-> "preface", bad |-> bad]>>
    BY DEF Init
  <1>4. Len(inbox) = 1 /\ inbox[1].type = "preface"
    BY <1>3
  <1>5. /\ client.table = none /\ client.max = TableSize
        /\ \A s \in Streams : /\ client.sent[s].phase = "idle" /\ client.sent[s].fields = none
                              /\ client.sent[s].body = none
    BY <1>2 DEF Init, ClientInit, Idle
  <1>6. decoder.table = none /\ decoder.max = TableSize /\ DOMAIN streams_ = {}
    BY <1>2 DEF Init
  <1>7. client \in Pasts /\ client.table \in Seq(Fields) /\ client.max \in Nat /\ decoder \in SoundTables
    BY <1>1 DEF H2Type, ClientType, ServerType, Pasts, ClientRecs
  <1>8. Follower(client, decoder)
    <2>1. Len(client.table) \in Nat
      BY <1>7
    <2>2. Pre(client.table, decoder.table)
      BY <2>1, <1>5, <1>6 DEF Pre
    <2> QED
      BY <2>2, <1>5, <1>6, <1>7 DEF Follower, Pasts
  <1>9. Matches(client)
    BY <1>2, <1>5, <1>6, <1>8 DEF Matches, MatchesOn
  <1>10. PICK v : v = [k \in 0..1 |-> client]
    OBVIOUS
  <1>11. v \in [0..1 -> Pasts] /\ v[0] = client /\ v[1] = client
    BY <1>7, <1>10
  <1>12. Follows(client, inbox[1], client)
    BY <1>4 DEF Follows, SaysOther, SameSaid, Resizes
  <1>13. \A k \in 1..1 : k = 1 /\ k - 1 = 0
    OBVIOUS
  <1>14. Trace(v)
    BY <1>4, <1>9, <1>11, <1>12, <1>13 DEF Trace, SameSaid
  <1>15. EndedInv
    BY <1>5 DEF EndedInv, EndedOn
  <1>16. RequestsIntact
    <2>1. handled = none /\ Len(none) = 0
      BY <1>2 DEF Init
    <2> QED
      BY <2>1 DEF RequestsIntact
  <1> QED
    BY <1>14, <1>15, <1>16 DEF TraceInv

(* A step of the client.                                                    *)
LEMMA SaysStep ==
    ASSUME H2Type, NEW f \in Frames, HeadersSent(f) \/ DataSent(f) \/ OtherSent(f), ~client'.derailed
    PROVE  Follows(client, f, client') /\ ~client.derailed
  <1>1. ASSUME NEW s, SaidOn(s) PROVE \A t \in Streams : t # s => SameSaid(client, client', t)
    BY <1>1 DEF SaidOn, SameSaid
  <1>2. CASE HeadersSent(f)
    <2>1. PICK e : e = Encoding(client.table, client.max, f.block)[Len(f.block)]
      OBVIOUS
    <2>2. /\ f.type = "headers" /\ f.sid \in Streams /\ ~f.bad
          /\ Encodable(client.table, client.max, f.block)
          /\ client'.table = e.table /\ client'.max = e.max
          /\ SaidOn(f.sid)
          /\ client'.sent[f.sid].fields = client.sent[f.sid].fields \o e.fields
          /\ client'.sent[f.sid].body = client.sent[f.sid].body
          /\ ~client.derailed
      BY <2>1, <1>2 DEF HeadersSent
    <2>3. f.end_headers
      <3>1. client.derailed \/ ~f.end_headers => client'.derailed
        BY <1>2 DEF HeadersSent
      <3> QED
        BY <3>1
    <2>4. SaysHeaders(client, f, client')
      BY <2>1, <2>2, <2>3, <1>1 DEF SaysHeaders
    <2> QED
      BY <2>2, <2>4 DEF Follows
  <1>3. CASE DataSent(f)
    <2>1. SaysData(client, f, client')
      BY <1>1, <1>3 DEF DataSent, SaysData
    <2> QED
      BY <2>1, <1>3 DEF Follows, DataSent
  <1>4. CASE OtherSent(f)
    <2>1. ~(client.derailed \/ (Resizes(f) /\ f.value < client.max))
      BY <1>4 DEF OtherSent
    <2>2. Resizes(f) => f.value \in Nat
      BY FrameFields DEF Resizes
    <2>3. client.max \in Nat
      BY DEF H2Type, ClientType, ClientRecs
    <2>4. Resizes(f) => client.max <= f.value
      BY <2>1, <2>2, <2>3
    <2>5. SaysOther(client, f, client')
      BY <2>4, <1>4 DEF OtherSent, SaysOther, SameSaid
    <2> QED
      BY <2>1, <2>5 DEF Follows
  <1> QED
    BY <1>2, <1>3, <1>4

(* What was said on a stream that has ended stays.                          *)
LEMMA SaidStays ==
    ASSUME ClientEffect, NEW s \in Streams, client.sent[s].phase = "done"
    PROVE  SameSaid(client, client', s) /\ client'.sent[s].phase = "done"
  <1>1. PICK f \in Frames : HeadersSent(f) \/ DataSent(f) \/ OtherSent(f)
    BY DEF ClientEffect
  <1>2. CASE HeadersSent(f) \/ DataSent(f)
    <2>1. client.sent[f.sid].phase # "done" /\ SaidOn(f.sid)
      BY <1>2 DEF HeadersSent, DataSent
    <2>2. client'.sent[s] = client.sent[s]
      BY <2>1 DEF SaidOn
    <2> QED
      BY <2>2 DEF SameSaid
  <1>3. CASE OtherSent(f)
    BY <1>3 DEF OtherSent, SameSaid
  <1> QED
    BY <1>1, <1>2, <1>3

(* The trace grows with a step of the client.                               *)
LEMMA TraceSent ==
    ASSUME H2Type, EndInv, ClientEffect, ~client'.derailed, ~client.derailed => \E v : Trace(v)
    PROVE  \E v : Trace(v)'
  <1>1. PICK f \in Frames : inbox' = Append(inbox, f) /\ (HeadersSent(f) \/ DataSent(f) \/ OtherSent(f))
    BY DEF ClientEffect
  <1>2. Follows(client, f, client') /\ ~client.derailed
    BY <1>1, SaysStep
  <1>3. PICK v : Trace(v)
    BY <1>2
  <1>4. PICK n : n = Len(inbox)
    OBVIOUS
  <1>5. /\ n \in Nat /\ Len(inbox') = n + 1 /\ inbox'[n + 1] = f
        /\ \A k \in 1..n : inbox'[k] = inbox[k]
    BY <1>1, <1>4, Pushed DEF H2Type, ClientType
  <1>6. PICK w : w = [k \in 0..(n + 1) |-> IF k = n + 1 THEN client' ELSE v[k]]
    OBVIOUS
  <1>7. client' \in Pasts
    BY DEF ClientEffect, H2Type, ClientType, Pasts
  <1>8. /\ v \in [0..n -> Pasts] /\ Matches(v[0]) /\ v[n] = client
        /\ \A k \in 1..n : Follows(v[k - 1], inbox[k], v[k])
        /\ \A k \in 1..n, s \in Streams : IsEnd(inbox[k], s) => SameSaid(v[k], client, s)
    BY <1>3, <1>4 DEF Trace
  <1>9. /\ \A k \in 0..n : k \in 0..(n + 1) /\ k # n + 1
        /\ \A k \in 1..n : k \in 0..n /\ k - 1 \in 0..n
        /\ \A k \in 1..(n + 1) : k \in 1..n \/ (k = n + 1 /\ k - 1 = n)
        /\ 0 \in 0..n /\ n \in 0..n /\ n + 1 \in 0..(n + 1)
        /\ \A k \in 0..(n + 1) : k \in 0..n \/ k = n + 1
    BY <1>5
  <1>10. (\A k \in 0..n : w[k] = v[k]) /\ w[n + 1] = client'
    BY <1>6, <1>9
  <1>11. w \in [0..(n + 1) -> Pasts]
    <2>1. \A k \in 0..(n + 1) : (IF k = n + 1 THEN client' ELSE v[k]) \in Pasts
      BY <1>7, <1>8, <1>9
    <2> QED
      BY <2>1, <1>6
  <1>12. Matches(w[0])'
    <2>1. w[0] = v[0]
      BY <1>9, <1>10
    <2>2. decoder' = decoder /\ streams_' = streams_
      BY DEF ClientEffect, h2Vars
    <2>3. Matches(w[0])
      BY <2>1, <1>8
    <2> QED
      BY <2>2, <2>3 DEF Matches, MatchesOn
  <1>13. ASSUME NEW k \in 1..(n + 1) PROVE Follows(w[k - 1], inbox'[k], w[k])
    <2>1. CASE k \in 1..n
      <3>1. w[k - 1] = v[k - 1] /\ w[k] = v[k] /\ inbox'[k] = inbox[k]
        BY <2>1, <1>5, <1>9, <1>10
      <3> QED
        BY <2>1, <3>1, <1>8
    <2>2. CASE k = n + 1 /\ k - 1 = n
      <3>1. w[k - 1] = client /\ w[k] = client' /\ inbox'[k] = f
        BY <2>2, <1>5, <1>8, <1>9, <1>10
      <3> QED
        BY <3>1, <1>2
    <2> QED
      BY <2>1, <2>2, <1>9
  <1>14. ASSUME NEW k \in 1..(n + 1), NEW s \in Streams, IsEnd(inbox'[k], s)
         PROVE  SameSaid(w[k], client', s)
    <2>1. CASE k \in 1..n
      <3>1. w[k] = v[k] /\ inbox'[k] = inbox[k]
        BY <2>1, <1>5, <1>9, <1>10
      <3>2. SameSaid(v[k], client, s)
        BY <2>1, <3>1, <1>8, <1>14
      <3>3. k \in EndAt(s)
        BY <2>1, <3>1, <1>4, <1>14 DEF EndAt
      <3>4. client.sent[s].phase = "done"
        BY <3>3 DEF EndInv, EndsOnce
      <3>5. SameSaid(client, client', s)
        BY <3>4, SaidStays
      <3> QED
        BY <3>1, <3>2, <3>5 DEF SameSaid
    <2>2. CASE k = n + 1
      <3>1. w[k] = client'
        BY <2>2, <1>10
      <3> QED
        BY <3>1 DEF SameSaid
    <2> QED
      BY <2>1, <2>2, <1>9
  <1>15. Trace(w)'
    BY <1>5, <1>10, <1>11, <1>12, <1>13, <1>14 DEF Trace
  <1> QED
    BY <1>15

(* It is cut at the front by a step of the server, and what that step       *)
(* handles is what was said.                                                *)
LEMMA TraceParsed ==
    ASSUME H2Type, H2Type', client' = client, inbox # <<>>, Passed \/ Requested, NEW v, Trace(v)
    PROVE  /\ \E w : Trace(w)'
           /\ ~FragmentTaken(Head(inbox))
           /\ \A s \in DOMAIN streams_ : streams_[s].headers_complete
           /\ \A s \in Streams : IsEnd(Head(inbox), s) /\ s \in DOMAIN streams_' =>
                 LastOfEach(streams_'[s].headers, client.sent[s].fields) /\ streams_'[s].body = client.sent[s].body
  <1>1. PICK n : n = Len(inbox)
    OBVIOUS
  <1>2. inbox' = Tail(inbox)
    BY DEF Passed, Requested
  <1>3. /\ Head(inbox) = inbox[1] /\ n \in Nat \ {0} /\ Len(inbox') = n - 1
        /\ \A k \in 1..(n - 1) : inbox'[k] = inbox[k + 1]
    BY <1>1, <1>2, Popped DEF H2Type, ClientType
  <1>4. /\ v \in [0..n -> Pasts] /\ Matches(v[0]) /\ v[n] = client
        /\ \A k \in 1..n : Follows(v[k - 1], inbox[k], v[k])
        /\ \A k \in 1..n, s \in Streams : IsEnd(inbox[k], s) => SameSaid(v[k], client, s)
    BY <1>1 DEF Trace
  <1>5. 0 \in 0..n /\ 1 \in 0..n /\ 1 \in 1..n /\ 1 - 1 = 0
    BY <1>3
  <1>6. Follows(v[0], Head(inbox), v[1]) /\ v[0] \in Pasts /\ v[1] \in Pasts
    BY <1>3, <1>4, <1>5
  <1>7. Matches(v[1])' /\ ~FragmentTaken(Head(inbox))
    BY <1>4, <1>6, MatchesStep
  <1>8. \A s \in DOMAIN streams_ : streams_[s].headers_complete
    <2>1. DOMAIN streams_ \subseteq Streams
      BY DEF H2Type, ServerType
    <2> QED
      BY <2>1, <1>4 DEF Matches, MatchesOn
  <1>9. ASSUME NEW s \in Streams, IsEnd(Head(inbox), s), s \in DOMAIN streams_'
        PROVE  LastOfEach(streams_'[s].headers, client.sent[s].fields) /\ streams_'[s].body = client.sent[s].body
    <2>1. SameSaid(v[1], client, s)
      BY <1>3, <1>4, <1>5, <1>9
    <2>2. LastOfEach(streams_'[s].headers, v[1].sent[s].fields) /\ streams_'[s].body = v[1].sent[s].body
      BY <1>7, <1>9 DEF Matches, MatchesOn
    <2> QED
      BY <2>1, <2>2 DEF SameSaid
  <1>10. PICK w : w = [k \in 0..(n - 1) |-> v[k + 1]]
    OBVIOUS
  <1>11. /\ \A k \in 0..(n - 1) : k + 1 \in 0..n
         /\ \A k \in 1..(n - 1) : k + 1 \in 1..n /\ k - 1 \in 0..(n - 1) /\ (k - 1) + 1 = k /\ (k + 1) - 1 = k
                                  /\ k \in 0..(n - 1)
         /\ 0 \in 0..(n - 1) /\ n - 1 \in 0..(n - 1) /\ (n - 1) + 1 = n /\ 0 + 1 = 1
    BY <1>3
  <1>12. \A k \in 0..(n - 1) : w[k] = v[k + 1]
    BY <1>10
  <1>13. w \in [0..(n - 1) -> Pasts]
    BY <1>4, <1>10, <1>11
  <1>14. w[0] = v[1] /\ w[n - 1] = v[n]
    BY <1>11, <1>12
  <1>15. ASSUME NEW k \in 1..(n - 1) PROVE Follows(w[k - 1], inbox'[k], w[k])
    <2>1. w[k - 1] = v[k] /\ w[k] = v[k + 1] /\ inbox'[k] = inbox[k + 1]
      BY <1>3, <1>11, <1>12
    <2>2. Follows(v[(k + 1) - 1], inbox[k + 1], v[k + 1]) /\ (k + 1) - 1 = k
      BY <1>4, <1>11
    <2> QED
      BY <2>1, <2>2
  <1>16. ASSUME NEW k \in 1..(n - 1), NEW s \in Streams, IsEnd(inbox'[k], s)
         PROVE  SameSaid(w[k], client', s)
    <2>1. w[k] = v[k + 1] /\ inbox'[k] = inbox[k + 1]
      BY <1>3, <1>11, <1>12
    <2> QED
      BY <2>1, <1>4, <1>11, <1>16
  <1>17. Trace(w)'
    <2>1. Matches(w[0])'
      BY <1>7, <1>14
    <2> QED
      BY <2>1, <1>3, <1>4, <1>13, <1>14, <1>15, <1>16 DEF Trace
  <1> QED
    BY <1>7, <1>8, <1>9, <1>17

(* The induction.                                                           *)
RequestInv == TraceInv /\ EndedInv /\ RequestsIntact

(* An end that has been parsed is a request handled.                        *)
LEMMA EndHandled ==
    ASSUME H2Type, ~FragmentTaken(Head(inbox)), Passed \/ Requested,
           \A x \in DOMAIN streams_ : streams_[x].headers_complete,
           NEW s \in Streams, IsEnd(Head(inbox), s)
    PROVE  HandledNow(s) /\ s \in DOMAIN streams_'
  <1>1. PICK f : f = Head(inbox)
    OBVIOUS
  <1>2. HeadersTaken(f) \/ DataTaken(f)
    BY <1>1 DEF Passed, Requested, IsEnd
  <1>3. CASE HeadersTaken(f)
    <2>1. f.end_stream /\ f.sid = s
      BY <1>1, <1>3 DEF HeadersTaken, IsEnd
    <2> QED
      BY <2>1, <1>3 DEF HeadersTaken, OneStream
  <1>4. CASE DataTaken(f)
    <2>1. f.end_stream /\ f.sid = s /\ f.sid \in DOMAIN streams_
      BY <1>1, <1>4 DEF DataTaken, IsEnd
    <2>2. Completes(f)
      BY <2>1 DEF Completes
    <2> QED
      BY <2>1, <2>2, <1>4 DEF DataTaken, OneStream
  <1> QED
    BY <1>2, <1>3, <1>4

(* A step of the server keeps it.                                           *)
LEMMA RequestParsed ==
    ASSUME H2Type, EndInv, RequestInv, ServerEffect
    PROVE  RequestInv'
  <1>0. /\ H2Type' /\ client' = client /\ ~goaway_sent_ /\ inbox # <<>>
        /\ TraceInv /\ EndedInv /\ RequestsIntact
    BY DEF ServerEffect, RequestInv
  <1>1. CASE Failed
    <2>1. goaway_sent_' /\ handled' = handled
      BY <1>1 DEF Failed
    <2>2. RequestsIntact'
      BY <2>1, <1>0 DEF RequestsIntact
    <2> QED
      BY <2>1, <2>2 DEF RequestInv, TraceInv, EndedInv, EndedOn
  <1>2. CASE (Passed \/ Requested) /\ client.derailed
    BY <1>0, <1>2 DEF RequestInv, TraceInv, EndedInv, EndedOn, RequestsIntact
  <1>3. CASE (Passed \/ Requested) /\ ~client.derailed
    <2>1. PICK v : Trace(v)
      BY <1>0, <1>3 DEF TraceInv
    <2>2. /\ \E w : Trace(w)'
          /\ ~FragmentTaken(Head(inbox))
          /\ \A s \in DOMAIN streams_ : streams_[s].headers_complete
      BY <2>1, <1>0, <1>3, TraceParsed
    <2>3. \A s \in Streams : IsEnd(Head(inbox), s) /\ s \in DOMAIN streams_' =>
             LastOfEach(streams_'[s].headers, client.sent[s].fields) /\ streams_'[s].body = client.sent[s].body
      BY <2>1, <1>0, <1>3, TraceParsed
    <2>4. TraceInv'
      BY <2>2 DEF TraceInv
    <2>5. Output /\ inbox' = Tail(inbox)
      BY <1>0, <1>3, OutputOfStep DEF Passed, Requested
    <2>6. RequestsIntact'
      <3>1. CASE handled' = handled
        BY <3>1, <1>0 DEF RequestsIntact
      <3>2. ASSUME NEW s \in Streams, IsEnd(Head(inbox), s), s \in DOMAIN streams_',
                   handled' = Append(handled, [sid |-> s, headers |-> streams_'[s].headers, body |-> streams_'[s].body])
            PROVE  RequestsIntact'
        <4>1. PICK q : q = [sid |-> s, headers |-> streams_'[s].headers, body |-> streams_'[s].body]
          OBVIOUS
        <4>2. /\ q \in Requests /\ q.sid = s /\ handled' = Append(handled, q)
              /\ LastOfEach(q.headers, client.sent[s].fields) /\ q.body = client.sent[s].body
          BY <4>1, <3>2, <2>3, <1>0, RequestTyped
        <4>3. /\ \A k \in 1..Len(handled) : handled'[k] = handled[k]
              /\ handled'[Len(handled) + 1] = q
              /\ \A k \in 1..Len(handled') : k \in 1..Len(handled) \/ k = Len(handled) + 1
          BY <4>2, HandledMore
        <4>4. ASSUME NEW k \in 1..Len(handled')
              PROVE  /\ LastOfEach(handled'[k].headers, client.sent[handled'[k].sid].fields)
                     /\ handled'[k].body = client.sent[handled'[k].sid].body
          <5>1. CASE k \in 1..Len(handled)
            BY <5>1, <4>3, <1>0, <1>3 DEF RequestsIntact
          <5>2. CASE k = Len(handled) + 1
            BY <5>2, <4>2, <4>3
          <5> QED
            BY <5>1, <5>2, <4>3
        <4> QED
          BY <4>4, <1>0 DEF RequestsIntact
      <3> QED
        BY <3>1, <3>2, <2>5 DEF Output
    <2>7. EndedInv'
      <3> SUFFICES ASSUME NEW s \in Streams, client.sent[s].phase = "done"
                   PROVE  EndAt(s)' # {} \/ HandledAt(s)' # {}
        BY <1>0 DEF EndedInv, EndedOn
      <3>1. EndAt(s) # {} \/ HandledAt(s) # {}
        BY <1>0, <1>3 DEF EndedInv, EndedOn
      <3>2. /\ \A k \in EndAt(s) : k # 1 => k - 1 \in EndAt(s)'
            /\ 1 \in EndAt(s) <=> IsEnd(Head(inbox), s)
        BY <2>5, <1>0, EndsAfterParsing
      <3>3. HandledAt(s) # {} => HandledAt(s)' # {}
        <4>1. CASE handled' = handled
          BY <4>1 DEF HandledAt
        <4>2. ASSUME NEW t \in Streams, t \in DOMAIN streams_',
                     handled' = Append(handled, [sid |-> t, headers |-> streams_'[t].headers, body |-> streams_'[t].body])
              PROVE  HandledAt(s) \subseteq HandledAt(s)'
          <5>1. PICK q : q = [sid |-> t, headers |-> streams_'[t].headers, body |-> streams_'[t].body]
            OBVIOUS
          <5>2. q \in Requests /\ handled' = Append(handled, q)
            BY <5>1, <4>2, <1>0, RequestTyped
          <5> QED
            BY <5>2, HandledWhere
        <4> QED
          BY <4>1, <4>2, <2>5 DEF Output
      <3>4. ASSUME IsEnd(Head(inbox), s) PROVE HandledAt(s)' # {}
        <4>1. HandledNow(s) /\ s \in DOMAIN streams_'
          BY <3>4, <2>2, <1>3, EndHandled
        <4>2. PICK q : q = [sid |-> s, headers |-> streams_'[s].headers, body |-> streams_'[s].body]
          OBVIOUS
        <4>3. q \in Requests /\ q.sid = s /\ handled' = Append(handled, q)
          BY <4>1, <4>2, <1>0, RequestTyped DEF HandledNow
        <4>4. HandledAt(s)' = HandledAt(s) \cup {Len(handled) + 1}
          BY <4>3, HandledWhere
        <4> QED
          BY <4>4
      <3> QED
        BY <3>1, <3>2, <3>3, <3>4
    <2> QED
      BY <2>4, <2>6, <2>7 DEF RequestInv
  <1> QED
    BY <1>1, <1>2, <1>3 DEF ServerEffect

(* A step of the client keeps it.                                           *)
LEMMA RequestSent ==
    ASSUME H2Type, EndInv, RequestInv, ClientEffect
    PROVE  RequestInv'
  <1>0. /\ H2Type' /\ handled' = handled /\ goaway_sent_' = goaway_sent_
        /\ TraceInv /\ EndedInv /\ RequestsIntact
    BY DEF ClientEffect, RequestInv, h2Vars
  <1>1. CASE client'.derailed
    BY <1>1 DEF RequestInv, TraceInv, EndedInv, EndedOn, RequestsIntact
  <1>2. CASE ~client'.derailed
    <2>1. PICK f \in Frames : inbox' = Append(inbox, f) /\ (HeadersSent(f) \/ DataSent(f) \/ OtherSent(f))
      BY DEF ClientEffect
    <2>2. ~client.derailed
      BY <2>1, <1>2, SaysStep
    <2>3. TraceInv'
      <3>1. CASE goaway_sent_
        BY <3>1, <1>0 DEF TraceInv
      <3>2. CASE ~goaway_sent_
        <4>1. ~client.derailed => \E v : Trace(v)
          BY <3>2, <1>0 DEF TraceInv
        <4>2. \E v : Trace(v)'
          BY <4>1, <1>2, TraceSent
        <4> QED
          BY <4>2 DEF TraceInv
      <3> QED
        BY <3>1, <3>2
    <2>4. RequestsIntact'
      <3>1. ASSUME NEW k \in 1..Len(handled)
            PROVE  /\ LastOfEach(handled[k].headers, client'.sent[handled[k].sid].fields)
                   /\ handled[k].body = client'.sent[handled[k].sid].body
        <4>1. PICK s : s = handled[k].sid
          OBVIOUS
        <4>2. s \in Streams
          <5>1. handled[k] \in Requests
            BY DEF H2Type, ServerType
          <5> QED
            BY <4>1, <5>1 DEF Requests
        <4>3. k \in HandledAt(s)
          BY <4>1 DEF HandledAt
        <4>4. client.sent[s].phase = "done"
          BY <4>2, <4>3 DEF EndInv, EndsOnce
        <4>5. SameSaid(client, client', s)
          BY <4>2, <4>4, SaidStays
        <4>6. LastOfEach(handled[k].headers, client.sent[s].fields) /\ handled[k].body = client.sent[s].body
          BY <4>1, <2>2, <1>0 DEF RequestsIntact
        <4> QED
          BY <4>1, <4>5, <4>6 DEF SameSaid
      <3> QED
        BY <3>1, <1>0 DEF RequestsIntact
    <2>5. EndedInv'
      <3> SUFFICES ASSUME NEW s \in Streams, ~goaway_sent_, client'.sent[s].phase = "done"
                   PROVE  EndAt(s)' # {} \/ HandledAt(s)' # {}
        BY <1>0 DEF EndedInv, EndedOn
      <3>1. EndAt(s)' = EndAt(s) \cup (IF IsEnd(f, s) THEN {Len(inbox) + 1} ELSE {})
        BY <2>1, EndsAfterSending
      <3>2. HandledAt(s)' = HandledAt(s)
        BY <1>0 DEF HandledAt
      <3>3. CASE client.sent[s].phase = "done"
        <4>1. EndAt(s) # {} \/ HandledAt(s) # {}
          BY <3>3, <2>2, <1>0 DEF EndedInv, EndedOn
        <4> QED
          BY <4>1, <3>1, <3>2
      <3>4. CASE client.sent[s].phase # "done"
        <4>1. ~OtherSent(f)
          BY <3>4 DEF OtherSent
        <4>2. f.sid = s
          <5>1. SaidOn(f.sid)
            BY <4>1, <2>1, Zenon DEF HeadersSent, DataSent
          <5> QED
            BY <3>4, <5>1 DEF SaidOn
        <4>3. client'.sent[s].phase = Ended(f)
          BY <4>1, <4>2, <2>1 DEF HeadersSent, DataSent
        <4>4. f.end_stream
          BY <4>3 DEF Ended
        <4>5. IsEnd(f, s)
          BY <4>1, <4>2, <4>4, <2>1 DEF HeadersSent, DataSent, IsEnd
        <4> QED
          BY <4>5, <3>1
      <3> QED
        BY <3>3, <3>4
    <2> QED
      BY <2>3, <2>4, <2>5 DEF RequestInv
  <1> QED
    BY <1>1, <1>2

(* Every step keeps it.                                                     *)
LEMMA RequestKept == OutputInv /\ RequestInv /\ [Next]_vars => RequestInv'
  <1> SUFFICES ASSUME OutputInv, RequestInv, [Next]_vars PROVE RequestInv'
    OBVIOUS
  <1>0. H2Type /\ EndInv
    BY DEF OutputInv
  <1>1. CASE ServerStep
    BY <1>0, <1>1, ServerStepEffect, RequestParsed
  <1>2. CASE ClientStep
    BY <1>0, <1>2, ClientStepEffect, RequestSent
  <1>3. CASE UNCHANGED vars
    <2>1. /\ inbox' = inbox /\ client' = client /\ goaway_sent_' = goaway_sent_ /\ handled' = handled
          /\ decoder' = decoder /\ streams_' = streams_
      BY <1>3 DEF vars, h2Vars
    <2>2. \A v : Matches(v)' = Matches(v)
      BY <2>1 DEF Matches, MatchesOn
    <2>3. \A v : Trace(v) => Trace(v)'
      BY <2>1, <2>2 DEF Trace
    <2>4. TraceInv'
      BY <2>1, <2>3 DEF TraceInv, RequestInv
    <2>5. \A s : EndAt(s)' = EndAt(s) /\ HandledAt(s)' = HandledAt(s)
      BY <2>1 DEF EndAt, HandledAt
    <2>6. EndedInv' /\ RequestsIntact'
      BY <2>1, <2>5 DEF EndedInv, EndedOn, RequestsIntact, RequestInv
    <2> QED
      BY <2>4, <2>6 DEF RequestInv
  <1> QED
    BY <1>1, <1>2, <1>3 DEF Next

(* It holds throughout.                                                     *)
LEMMA RequestInvariant == Spec => [](OutputInv /\ RequestInv)
  <1>1. Init => RequestInv
    BY TraceInit DEF RequestInv
  <1> QED
    BY <1>1, RequestKept, OutputInvariant, PTL DEF Spec

(* Once everything sent is parsed, the decoder's dynamic table starts with  *)
(* the encoder's: indices mean the same at both ends.                       *)
THEOREM Http2TablesAgree == Spec => []TablesAgree
  <1>1. OutputInv /\ RequestInv => TablesAgree
    <2> SUFFICES ASSUME OutputInv, RequestInv, Quiet, ~client.derailed
                 PROVE  IsPrefix(client.table, decoder.table)
      BY DEF TablesAgree
    <2>1. inbox = <<>> /\ ~goaway_sent_ /\ H2Type
      BY DEF Quiet, OutputInv
    <2>2. PICK v : Trace(v)
      BY <2>1 DEF RequestInv, TraceInv
    <2>3. v[0] = client /\ Matches(v[0])
      BY <2>1, <2>2 DEF Trace
    <2>4. Pre(client.table, decoder.table)
      BY <2>3 DEF Matches, Follower
    <2>5. client.table \in Seq(Fields) /\ decoder.table \in Seq(Fields)
      BY <2>1 DEF H2Type, ClientType, ClientRecs, ServerType, SoundTables, Tables
    <2> QED
      BY <2>4, <2>5, PreIsPrefix
  <1> QED
    BY <1>1, RequestInvariant, PTL

(* handler_ is called once for each request the client has completed, with  *)
(* the last of the fields sent under each name and the payloads of its DATA *)
(* frames in order, and the table stays within its size.                    *)
THEOREM Http2RequestsHandled == Spec => []RequestsHandled
  <1>1. OutputInv /\ RequestInv => RequestsHandled
    <2> SUFFICES ASSUME OutputInv, RequestInv PROVE RequestsHandled
      OBVIOUS
    <2>1. H2Type /\ EndInv /\ EndedInv /\ RequestsIntact
      BY DEF OutputInv, RequestInv
    <2>2. TypeOK
      <3>1. decoder \in SoundTables /\ client.derailed \in BOOLEAN
        BY <2>1 DEF H2Type, ServerType, ClientType, ClientRecs
      <3>2. decoder.table \in Seq(Fields) /\ TableBytes(decoder.table) <= decoder.max
        BY <3>1 DEF SoundTables, Tables
      <3> QED
        BY <3>1, <3>2, <2>1 DEF TypeOK, H2Type, ServerType, Sids
    <2>3. AnsweredOnce
      <3> SUFFICES ASSUME NEW s \in Streams
                   PROVE  /\ \A j, k \in HandledAt(s) : j = k
                          /\ Quiet /\ ~client.derailed /\ client.sent[s].phase = "done" => HandledAt(s) # {}
        BY DEF AnsweredOnce
      <3>1. \A j, k \in HandledAt(s) : j = k
        BY <2>1 DEF EndInv, EndsOnce
      <3>2. ASSUME Quiet, ~client.derailed, client.sent[s].phase = "done" PROVE HandledAt(s) # {}
        <4>1. inbox = <<>> /\ ~goaway_sent_
          BY <3>2 DEF Quiet
        <4>2. EndAt(s) = {}
          BY <4>1 DEF EndAt
        <4> QED
          BY <4>1, <4>2, <3>2, <2>1 DEF EndedInv, EndedOn
      <3> QED
        BY <3>1, <3>2
    <2> QED
      BY <2>1, <2>2, <2>3 DEF RequestsHandled
  <1> QED
    BY <1>1, RequestInvariant, PTL
=============================================================================
