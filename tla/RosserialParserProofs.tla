----------------------- MODULE RosserialParserProofs -----------------------
(***************************************************************************)
(* Proofs about RosserialParser.                                           *)
(***************************************************************************)
EXTENDS RosserialParser, SequenceTheorems, WellFoundedInduction, TLAPS

-----------------------------------------------------------------------------
(* Remainders.                                                             *)

LEMMA DivMod ==
  ASSUME NEW n \in Int, NEW m \in Nat \ {0}
  PROVE  n % m \in 0 .. m - 1 /\ n \div m \in Int /\ n = m * (n \div m) + (n % m)
OBVIOUS

LEMMA OneQuotient ==
  ASSUME NEW m \in Nat \ {0}, NEW q \in Int, NEW p \in Int,
         NEW r \in 0 .. m - 1, NEW s \in 0 .. m - 1, m * q + r = m * p + s
  PROVE  q = p /\ r = s
<1>1. CASE q < p
  <2>1. m * (p - q) >= m
    BY <1>1
  <2>2. m * (p - q) = m * p - m * q
    OBVIOUS
  <2> QED
    BY <2>1, <2>2
<1>2. CASE p < q
  <2>1. m * (q - p) >= m
    BY <1>2
  <2>2. m * (q - p) = m * q - m * p
    OBVIOUS
  <2> QED
    BY <2>1, <2>2
<1> QED
  BY <1>1, <1>2

LEMMA Remainder ==
  ASSUME NEW m \in Nat \ {0}, NEW q \in Int, NEW r \in 0 .. m - 1
  PROVE  (m * q + r) % m = r /\ (m * q + r) \div m = q
<1> DEFINE n == m * q + r
<1>1. n \in Int
  OBVIOUS
<1>2. n % m \in 0 .. m - 1 /\ n \div m \in Int /\ n = m * (n \div m) + (n % m)
  BY <1>1, DivMod
<1> QED
  BY <1>2, OneQuotient

(* Numbers that differ by a multiple of m have one remainder.              *)
LEMMA SameRemainder ==
  ASSUME NEW m \in Nat \ {0}, NEW n \in Int, NEW q \in Int
  PROVE  (n + m * q) % m = n % m
<1> DEFINE p == n \div m
           r == n % m
<1>1. p \in Int /\ r \in 0 .. m - 1 /\ n = m * p + r
  BY DivMod
<1> HIDE DEF p, r
<1>2. p + q \in Int /\ n + m * q = m * (p + q) + r
  BY <1>1
<1>3. (m * (p + q) + r) % m = r
  BY <1>1, <1>2, Remainder
<1> QED
  BY <1>2, <1>3 DEF r

LEMMA Bases ==
  /\ Base \in Nat \ {0} /\ FF \in Byte /\ PROTOCOL_VER \in Byte /\ FF # PROTOCOL_VER
  /\ Byte \subseteq Nat
  /\ IntMax \in Nat /\ 2 * (IntMax + 1) \in Nat \ {0}
BY BaseAssumption, IntAssumption DEF FF, PROTOCOL_VER, Byte

LEMMA TwoBytes ==
  ASSUME NEW n \in 0 .. Base * Base - 1
  PROVE  Lo(n) \in Byte /\ Hi(n) \in Byte /\ Lo(n) + Base * Hi(n) = n
<1>1. /\ n % Base \in 0 .. Base - 1 /\ n \div Base \in Int
      /\ n = Base * (n \div Base) + (n % Base)
  BY Bases, DivMod
<1> DEFINE q == n \div Base
           r == n % Base
<1>2. q \in Int /\ r \in 0 .. Base - 1 /\ n = Base * q + r /\ n \in Int /\ Base \in Nat \ {0}
  BY <1>1, Bases
<1> HIDE DEF q, r
<1>3. q >= 0
  <2> SUFFICES ASSUME q <= -1 PROVE FALSE
    BY <1>2
  <2>1. Base * q <= -Base
    BY <1>2
  <2> QED
    BY <1>2, <2>1
<1>4. q <= Base - 1
  <2> SUFFICES ASSUME q >= Base PROVE FALSE
    BY <1>2
  <2>1. Base * q >= Base * Base
    BY <1>2
  <2> QED
    BY <1>2, <2>1
<1> QED
  BY <1>2, <1>3, <1>4 DEF q, r, Lo, Hi, Byte

(* What wraps: the value is kept but for multiples of the range.           *)
LEMMA Wraps ==
  ASSUME NEW n \in Int
  PROVE  /\ AsInt(n) \in -(IntMax + 1) .. IntMax
         /\ \E q \in Int : AsInt(n) = n + 2 * (IntMax + 1) * q
<1> DEFINE m == 2 * (IntMax + 1)
           p == n \div m
           r == n % m
<1>1. m \in Nat \ {0}
  BY Bases
<1>2. p \in Int /\ r \in 0 .. m - 1 /\ n = m * p + r
  BY <1>1, DivMod
<1>3. AsInt(n) = IF r > IntMax THEN r - m ELSE r
  BY DEF AsInt
<1>4. m = 2 * (IntMax + 1) /\ IntMax \in Nat
  BY Bases
<1> HIDE DEF m, p, r
<1>5. AsInt(n) \in -(IntMax + 1) .. IntMax
  BY <1>2, <1>3, <1>4
<1>6. AsInt(n) = n + m * (-p - 1) \/ AsInt(n) = n + m * (-p)
  <2>1. m * (-p - 1) = -(m * p) - m /\ m * (-p) = -(m * p)
    BY <1>1, <1>2
  <2> QED
    BY <1>1, <1>2, <1>3, <2>1
<1>7. -p - 1 \in Int /\ -p \in Int
  BY <1>2
<1> QED
  BY <1>4, <1>5, <1>6, <1>7

LEMMA WrapsOnce ==
  ASSUME NEW n \in Int, NEW d \in Int
  PROVE  AsInt(AsInt(n) + d) = AsInt(n + d)
<1> DEFINE m == 2 * (IntMax + 1)
<1>1. PICK q \in Int : AsInt(n) = n + m * q
  BY Wraps
<1>2. m \in Nat \ {0} /\ n + d \in Int
  BY Bases
<1> HIDE DEF m
<1>3. AsInt(n) + d = (n + d) + m * q
  BY <1>1, <1>2
<1>4. ((n + d) + m * q) % m = (n + d) % m
  BY <1>2, SameRemainder
<1>5. (AsInt(n) + d) % m = (n + d) % m
  BY <1>3, <1>4
<1> QED
  BY <1>5 DEF AsInt, m

LEMMA SmallWraps ==
  ASSUME NEW n \in 0 .. IntMax
  PROVE  AsInt(n) = n
<1> DEFINE m == 2 * (IntMax + 1)
<1>1. m \in Nat \ {0} /\ n \in 0 .. m - 1 /\ n = m * 0 + n
  BY Bases
<1>2. (m * 0 + n) % m = n
  BY <1>1, Remainder
<1> HIDE DEF m
<1>3. n % m = n
  BY <1>1, <1>2
<1> QED
  BY <1>3, Bases DEF AsInt, m

(* A sum that has not become negative has the remainder of the bytes' sum. *)
LEMMA WrapsWhole ==
  ASSUME NEW n \in Int
  PROVE  AsInt(n) % Base = n % Base
<1> DEFINE k == (IntMax + 1) \div Base
<1>1. k \in Int /\ IntMax + 1 = Base * k + ((IntMax + 1) % Base)
  BY Bases, DivMod
<1> HIDE DEF k
<1>2. IntMax + 1 = Base * k
  BY <1>1, IntAssumption, Bases
<1>3. PICK q \in Int : AsInt(n) = n + 2 * (IntMax + 1) * q
  BY Wraps
<1>4. 2 * (Base * k) * q = Base * (2 * k * q) /\ 2 * k * q \in Int
  BY <1>1, Bases
<1>5. AsInt(n) = n + Base * (2 * k * q)
  BY <1>2, <1>3, <1>4
<1> QED
  BY <1>4, <1>5, Bases, SameRemainder

LEMMA Complement ==
  ASSUME NEW n \in Nat
  PROVE  FF - (n % Base) \in Byte /\ (n + (FF - (n % Base))) % Base = FF
<1> DEFINE q == n \div Base
           r == n % Base
<1>1. q \in Int /\ r \in 0 .. Base - 1 /\ n = Base * q + r /\ FF \in 0 .. Base - 1
      /\ FF = Base - 1 /\ Base \in Nat \ {0}
  BY Bases, DivMod DEF Byte, FF
<1> HIDE DEF q, r
<1>2. n + (FF - r) = Base * q + FF
  BY <1>1
<1>3. (Base * q + FF) % Base = FF
  BY <1>1, Remainder
<1>4. FF - r \in Byte
  BY <1>1 DEF Byte
<1> QED
  BY <1>2, <1>3, <1>4 DEF r

-----------------------------------------------------------------------------
(* Recursive functions of the positions of a sequence.                     *)

LEMMA Smallest == ASSUME NEW T, T \subseteq Nat, T # {} PROVE \E n \in T : \A k \in T : n <= k
<1>1. PICK n \in T : \A k \in T : <<k, n>> \notin OpToRel(<, Nat)
  BY NatLessThanWellFounded, WFMin
<1>2. \A k \in T : ~(k < n)
  BY <1>1 DEF OpToRel
<1> QED
  BY <1>2

(* Values that start alike and go on alike are alike.                      *)
LEMMA Alike ==
  ASSUME NEW n \in Nat, NEW f, NEW h, f[0] = h[0],
         \A i \in 1 .. n : f[i - 1] = h[i - 1] => f[i] = h[i]
  PROVE  \A i \in 0 .. n : f[i] = h[i]
<1> DEFINE T == {i \in 0 .. n : f[i] # h[i]}
<1> SUFFICES ASSUME T # {} PROVE FALSE
  OBVIOUS
<1>0. T \subseteq Nat
  OBVIOUS
<1>1. PICK i \in T : \A k \in T : i <= k
  <2> HIDE DEF T
  <2> QED
    BY <1>0, Smallest
<1>2. i # 0 /\ i - 1 \in 0 .. n /\ i - 1 \notin T /\ i \in 1 .. n
  BY <1>1
<1> QED
  BY <1>1, <1>2

(* From a first value, each value from the one before.                     *)
Built(V, b, n, g, f) ==
  f \in [0 .. n -> V] /\ f[0] = b /\ \A i \in 1 .. n : f[i] = g[i][f[i - 1]]

LEMMA Builds ==
  \A V, b, n, g :
    b \in V /\ n \in Nat /\ g \in [1 .. n -> [V -> V]] => \E f : Built(V, b, n, g, f)
<1> SUFFICES ASSUME NEW V, NEW b \in V, NEW n \in Nat, NEW g \in [1 .. n -> [V -> V]]
             PROVE  \E f : Built(V, b, n, g, f)
  OBVIOUS
<1> DEFINE Can(k) == \E f : Built(V, b, k, g, f)
           T == {k \in 0 .. n : ~Can(k)}
<1>0. T = {} => Can(n)
  OBVIOUS
<1> SUFFICES ASSUME T # {} PROVE FALSE
  BY <1>0
<1>a. T \subseteq 0 .. n /\ T \subseteq Nat /\ \A k \in 0 .. n : k \notin T => Can(k)
  OBVIOUS
<1>1. PICK k \in T : \A j \in T : k <= j
  <2> HIDE DEF T
  <2> QED
    BY <1>a, Smallest
<1>2. k \in 0 .. n /\ ~Can(k)
  BY <1>1
<1> HIDE DEF T
<1>3. CASE k = 0
  <2> DEFINE f == [i \in 0 .. 0 |-> b]
  <2>1. f \in [0 .. 0 -> V] /\ f[0] = b /\ \A i \in 1 .. 0 : f[i] = g[i][f[i - 1]]
    OBVIOUS
  <2>2. Can(0)
    BY <2>1 DEF Built
  <2> QED
    BY <1>2, <1>3, <2>2
<1>4. CASE k # 0
  <2>1. k \in 1 .. n /\ k - 1 \in 0 .. n /\ k - 1 \notin T
    BY <1>1, <1>a, <1>4
  <2>2. PICK f : Built(V, b, k - 1, g, f)
    BY <1>a, <2>1
  <2> DEFINE h == [i \in 0 .. k |-> IF i = k THEN g[k][f[k - 1]] ELSE f[i]]
  <2>3. h \in [0 .. k -> V]
    BY <2>1, <2>2 DEF Built
  <2>4. h[0] = b
    BY <2>1, <2>2 DEF Built
  <2>5. ASSUME NEW i \in 1 .. k PROVE h[i] = g[i][h[i - 1]]
    BY <2>1, <2>2 DEF Built
  <2>6. Can(k)
    BY <2>3, <2>4, <2>5 DEF Built
  <2> QED
    BY <1>2, <2>6
<1> QED
  BY <1>3, <1>4

SumsOf(s, f) ==
  /\ f \in [0 .. Len(s) -> Nat] /\ Total(s) = f[Len(s)] /\ f[0] = 0
  /\ \A i \in 1 .. Len(s) : f[i] = f[i - 1] + s[i]

LEMMA TotalIs == \A s : s \in Seq(Nat) => \E f : SumsOf(s, f)
<1> SUFFICES ASSUME NEW s \in Seq(Nat) PROVE \E f : SumsOf(s, f)
  OBVIOUS
<1> DEFINE n == Len(s)
           g == [i \in 1 .. n |-> [v \in Nat |-> v + s[i]]]
           Sums(h) == h = [i \in 0 .. n |-> IF i = 0 THEN 0 ELSE h[i - 1] + s[i]]
<1>1. n \in Nat /\ \A i \in 1 .. n : s[i] \in Nat
  BY LenProperties, ElementOfSeq
<1> HIDE DEF n
<1>2. g \in [1 .. n -> [Nat -> Nat]]
  BY <1>1
<1>3. PICK f : Built(Nat, 0, n, g, f)
  <2> HIDE DEF g
  <2>1. 0 \in Nat
    OBVIOUS
  <2> QED
    BY <1>1, <1>2, <2>1, Builds, Zenon
<1>4. \A i \in 1 .. n : f[i] = f[i - 1] + s[i]
  <2> SUFFICES ASSUME NEW i \in 1 .. n PROVE f[i] = f[i - 1] + s[i]
    OBVIOUS
  <2>1. f[i - 1] \in Nat
    BY <1>1, <1>3 DEF Built
  <2> QED
    BY <1>3, <2>1 DEF Built
<1>5. Sums(f)
  BY <1>1, <1>3, <1>4 DEF Built
<1> DEFINE c == CHOOSE h : Sums(h)
<1>6. Sums(c)
  BY <1>5
<1>7. Total(s) = c[n]
  BY DEF Total, n
<1> HIDE DEF c, g
<1>8. c[0] = 0 /\ \A i \in 1 .. n : c[i] = c[i - 1] + s[i]
  BY <1>1, <1>6
<1>9. \A i \in 0 .. n : c[i] = f[i]
  <2>1. c[0] = f[0]
    BY <1>3, <1>8 DEF Built
  <2>2. \A i \in 1 .. n : c[i - 1] = f[i - 1] => c[i] = f[i]
    BY <1>4, <1>8
  <2> QED
    BY <1>1, <2>1, <2>2, Alike, ZenonT(40)
<1>10. Total(s) = f[n]
  BY <1>1, <1>7, <1>9
<1> QED
  BY <1>3, <1>4, <1>10 DEF n, Built, SumsOf

LEMMA TotalNone == Total(<<>>) = 0
<1>1. <<>> \in Seq(Nat) /\ Len(<<>>) = 0
  OBVIOUS
<1>2. PICK f : SumsOf(<<>>, f)
  BY <1>1, TotalIs, Zenon
<1> QED
  BY <1>1, <1>2 DEF SumsOf

LEMMA TotalMore ==
  ASSUME NEW s \in Seq(Nat), NEW x \in Nat
  PROVE  Total(s) \in Nat /\ Total(Append(s, x)) = Total(s) + x
<1> DEFINE n == Len(s)
           t == Append(s, x)
<1>1. n \in Nat /\ t \in Seq(Nat) /\ Len(t) = n + 1 /\ t[n + 1] = x
      /\ \A i \in 1 .. n : t[i] = s[i]
  BY LenProperties, AppendProperties
<1>2. PICK f : SumsOf(s, f)
  BY TotalIs, Zenon
<1>3. PICK h : SumsOf(t, h)
  BY <1>1, TotalIs, Zenon
<1>a. /\ f \in [0 .. n -> Nat] /\ Total(s) = f[n] /\ f[0] = 0
      /\ \A i \in 1 .. n : f[i] = f[i - 1] + s[i]
  BY <1>2 DEF SumsOf
<1>b. /\ h \in [0 .. n + 1 -> Nat] /\ Total(t) = h[n + 1] /\ h[0] = 0
      /\ \A i \in 1 .. n + 1 : h[i] = h[i - 1] + t[i]
  BY <1>1, <1>3 DEF SumsOf
<1> HIDE DEF n, t
<1>4. \A i \in 0 .. n : f[i] = h[i]
  <2>1. \A i \in 1 .. n : f[i - 1] = h[i - 1] => f[i] = h[i]
    BY <1>1, <1>a, <1>b
  <2>2. f[0] = h[0] /\ n \in Nat
    BY <1>1, <1>a, <1>b
  <2> QED
    BY <2>1, <2>2, Alike, ZenonT(40)
<1>5. h[n + 1] = h[n] + x
  BY <1>1, <1>b
<1>6. Total(s) \in Nat /\ Total(t) = Total(s) + x
  BY <1>1, <1>a, <1>b, <1>4, <1>5
<1> QED
  BY <1>6 DEF t

LEMMA TotalOfTwo == ASSUME NEW a \in Nat, NEW b \in Nat PROVE Total(<<a, b>>) = a + b
<1>1. /\ <<>> \in Seq(Nat) /\ Append(<<>>, a) = <<a>> /\ <<a>> \in Seq(Nat)
      /\ Append(<<a>>, b) = <<a, b>>
  <2>1. <<>> \in Seq(Nat) /\ <<a>> \in Seq(Nat)
    OBVIOUS
  <2>2. Append(<<>>, a) = <<a>>
    OBVIOUS
  <2>3. Append(<<a>>, b) = <<a, b>>
    <3>1. /\ Append(<<a>>, b) \in Seq(Nat) /\ Len(Append(<<a>>, b)) = 2
          /\ Append(<<a>>, b)[1] = a /\ Append(<<a>>, b)[2] = b
      BY <2>1, AppendProperties
    <3>2. <<a, b>> \in Seq(Nat) /\ Len(<<a, b>>) = 2 /\ <<a, b>>[1] = a /\ <<a, b>>[2] = b
      OBVIOUS
    <3>3. \A i \in 1 .. 2 : Append(<<a>>, b)[i] = <<a, b>>[i]
      BY <3>1, <3>2
    <3> QED
      BY <3>1, <3>2, <3>3, SeqEqual
  <2> QED
    BY <2>1, <2>2, <2>3
<1>2. Total(Append(<<>>, a)) = Total(<<>>) + a
  BY <1>1, TotalMore
<1>3. Total(Append(<<a>>, b)) = Total(<<a>>) + b
  BY <1>1, TotalMore
<1>4. Total(<<a>>) = a
  BY <1>1, <1>2, TotalNone
<1>5. Total(Append(<<a>>, b)) = a + b
  BY <1>3, <1>4
<1> QED
  BY <1>1, <1>5

DuesOf(S, s, f) ==
  /\ f \in [0 .. Len(s) -> Seq(S)] /\ Due(s) = f[Len(s)] /\ f[0] = <<>>
  /\ \A i \in 1 .. Len(s) :
       f[i] = IF Summable(s[i]) THEN Append(f[i - 1], s[i]) ELSE f[i - 1]

LEMMA DueIs == \A S, s : s \in Seq(S) => \E f : DuesOf(S, s, f)
<1> SUFFICES ASSUME NEW S, NEW s \in Seq(S) PROVE \E f : DuesOf(S, s, f)
  OBVIOUS
<1> DEFINE n == Len(s)
           g == [i \in 1 .. n |->
                  [v \in Seq(S) |-> IF Summable(s[i]) THEN Append(v, s[i]) ELSE v]]
           Dues(h) == h = [i \in 0 .. n |->
                            IF i = 0 THEN <<>>
                            ELSE IF Summable(s[i]) THEN Append(h[i - 1], s[i]) ELSE h[i - 1]]
<1>1. n \in Nat /\ \A i \in 1 .. n : s[i] \in S
  BY LenProperties, ElementOfSeq
<1> HIDE DEF n
<1>2. g \in [1 .. n -> [Seq(S) -> Seq(S)]]
  BY <1>1, AppendProperties
<1>3. PICK f : Built(Seq(S), <<>>, n, g, f)
  <2>1. <<>> \in Seq(S)
    OBVIOUS
  <2> HIDE DEF g
  <2> QED
    BY <1>1, <1>2, <2>1, Builds, Zenon
<1>4. \A i \in 1 .. n : f[i] = IF Summable(s[i]) THEN Append(f[i - 1], s[i]) ELSE f[i - 1]
  <2> SUFFICES ASSUME NEW i \in 1 .. n
               PROVE  f[i] = IF Summable(s[i]) THEN Append(f[i - 1], s[i]) ELSE f[i - 1]
    OBVIOUS
  <2>1. f[i - 1] \in Seq(S)
    BY <1>1, <1>3 DEF Built
  <2> QED
    BY <1>3, <2>1 DEF Built
<1>5. Dues(f)
  <2>1. ASSUME NEW i \in 0 .. n
        PROVE  f[i] = IF i = 0 THEN <<>>
                      ELSE IF Summable(s[i]) THEN Append(f[i - 1], s[i]) ELSE f[i - 1]
    <3>1. CASE i = 0
      BY <1>3, <3>1 DEF Built
    <3>2. CASE i # 0
      <4>1. i \in 1 .. n
        BY <1>1, <3>2
      <4> QED
        BY <1>4, <3>2, <4>1
    <3> QED
      BY <3>1, <3>2
  <2>2. f = [i \in 0 .. n |-> f[i]]
    BY <1>3 DEF Built
  <2> QED
    BY <2>1, <2>2
<1> DEFINE c == CHOOSE h : Dues(h)
<1>6. Dues(c)
  BY <1>5
<1>7. Due(s) = c[n]
  BY DEF Due, n
<1> HIDE DEF c, g
<1>8. /\ c[0] = <<>>
      /\ \A i \in 1 .. n : c[i] = IF Summable(s[i]) THEN Append(c[i - 1], s[i]) ELSE c[i - 1]
  <2>1. 0 \in 0 .. n /\ \A i \in 1 .. n : i \in 0 .. n /\ i # 0
    BY <1>1
  <2> QED
    BY <1>6, <2>1, Zenon
<1>9. \A i \in 0 .. n : c[i] = f[i]
  <2>1. c[0] = f[0]
    BY <1>3, <1>8 DEF Built
  <2>2. \A i \in 1 .. n : c[i - 1] = f[i - 1] => c[i] = f[i]
    BY <1>4, <1>8
  <2> QED
    BY <1>1, <2>1, <2>2, Alike, ZenonT(40)
<1>10. Due(s) = f[n]
  BY <1>1, <1>7, <1>9
<1> QED
  BY <1>3, <1>4, <1>10 DEF n, Built, DuesOf

(* Of what is sent the first are due first. *)
LEMMA DueMore ==
  ASSUME NEW S, NEW s \in Seq(S), NEW x \in S
  PROVE  /\ Due(s) \in Seq(S) /\ Due(<<>>) = <<>>
         /\ Due(Append(s, x)) = IF Summable(x) THEN Append(Due(s), x) ELSE Due(s)
<1> DEFINE n == Len(s)
           t == Append(s, x)
<1>0. Due(<<>>) = <<>>
  <2>1. <<>> \in Seq(S) /\ Len(<<>>) = 0
    OBVIOUS
  <2> QED
    <3>1. PICK f : DuesOf(S, <<>>, f)
      BY <2>1, DueIs, Zenon
    <3> QED
      BY <2>1, <3>1 DEF DuesOf
<1>1. n \in Nat /\ t \in Seq(S) /\ Len(t) = n + 1 /\ t[n + 1] = x
      /\ \A i \in 1 .. n : t[i] = s[i]
  BY LenProperties, AppendProperties
<1>2. PICK f : DuesOf(S, s, f)
  BY DueIs, Zenon
<1>3. PICK h : DuesOf(S, t, h)
  BY <1>1, DueIs, Zenon
<1>a. /\ f \in [0 .. n -> Seq(S)] /\ Due(s) = f[n] /\ f[0] = <<>>
      /\ \A i \in 1 .. n : f[i] = IF Summable(s[i]) THEN Append(f[i - 1], s[i]) ELSE f[i - 1]
  BY <1>2 DEF DuesOf
<1>b. /\ Due(t) = h[n + 1] /\ h[0] = <<>>
      /\ \A i \in 1 .. n + 1 :
           h[i] = IF Summable(t[i]) THEN Append(h[i - 1], t[i]) ELSE h[i - 1]
  BY <1>1, <1>3 DEF DuesOf
<1> HIDE DEF n, t
<1>4. \A i \in 0 .. n : f[i] = h[i]
  <2>1. ASSUME NEW i \in 1 .. n PROVE f[i - 1] = h[i - 1] => f[i] = h[i]
    <3>1. i \in 1 .. n + 1 /\ t[i] = s[i]
      BY <1>1
    <3>2. h[i] = IF Summable(s[i]) THEN Append(h[i - 1], s[i]) ELSE h[i - 1]
      BY <1>b, <3>1
    <3> QED
      BY <1>a, <3>2
  <2>2. f[0] = h[0] /\ n \in Nat
    BY <1>1, <1>a, <1>b
  <2> QED
    BY <2>1, <2>2, Alike, ZenonT(40)
<1>5. h[n + 1] = IF Summable(x) THEN Append(h[n], x) ELSE h[n]
  <2>1. n + 1 \in 1 .. n + 1 /\ n + 1 - 1 = n /\ t[n + 1] = x
    BY <1>1
  <2>2. PICK i \in 1 .. n + 1 : i = n + 1 /\ i - 1 = n
    BY <1>1, <2>1
  <2>3. h[i] = IF Summable(t[i]) THEN Append(h[i - 1], t[i]) ELSE h[i - 1]
    BY <1>b
  <2> QED
    BY <2>1, <2>2, <2>3, Zenon
<1>6. Due(s) \in Seq(S) /\ Due(t) = IF Summable(x) THEN Append(Due(s), x) ELSE Due(s)
  <2>1. n \in 0 .. n /\ f[n] = h[n]
    BY <1>1, <1>4
  <2> QED
    BY <1>a, <1>b, <1>5, <2>1
<1> QED
  BY <1>0, <1>6 DEF t

(* The first of a sequence, and one more.                                  *)
LEMMA OneMore ==
  ASSUME NEW S, NEW s \in Seq(S), NEW j \in 0 .. Len(s) - 1
  PROVE  /\ SubSeq(s, 1, j) \in Seq(S) /\ s[j + 1] \in S
         /\ SubSeq(s, 1, j + 1) = Append(SubSeq(s, 1, j), s[j + 1])
<1>1. Len(s) \in Nat /\ s \in [1 .. Len(s) -> S]
  BY LenProperties
<1>2. j \in Nat /\ j + 1 \in 1 .. Len(s) /\ s[j + 1] \in S
  BY <1>1
<1> DEFINE a == SubSeq(s, 1, j)
           b == SubSeq(s, 1, j + 1)
<1>3. a \in Seq(S) /\ Len(a) = j /\ \A i \in 1 .. j : a[i] = s[i]
  <2>1. \A i \in 1 .. j : s[i] \in S
    BY <1>1, <1>2
  <2>2. /\ a \in Seq(S) /\ Len(a) = IF 1 <= j THEN j - 1 + 1 ELSE 0
        /\ \A i \in 1 .. j - 1 + 1 : a[i] = s[1 + i - 1]
    BY <1>2, <2>1, SubSeqProperties
  <2> HIDE DEF a
  <2> QED
    BY <1>2, <2>2
<1>4. b \in Seq(S) /\ Len(b) = j + 1 /\ \A i \in 1 .. j + 1 : b[i] = s[i]
  <2>1. \A i \in 1 .. j + 1 : s[i] \in S
    BY <1>1, <1>2
  <2>2. /\ b \in Seq(S) /\ Len(b) = IF 1 <= j + 1 THEN j + 1 - 1 + 1 ELSE 0
        /\ \A i \in 1 .. j + 1 - 1 + 1 : b[i] = s[1 + i - 1]
    BY <1>2, <2>1, SubSeqProperties
  <2> HIDE DEF b
  <2> QED
    BY <1>2, <2>2
<1> HIDE DEF a, b
<1> DEFINE c == Append(a, s[j + 1])
<1>5. c \in Seq(S) /\ Len(c) = j + 1 /\ \A i \in 1 .. j + 1 : c[i] = s[i]
  <2>1. /\ c \in Seq(S) /\ Len(c) = j + 1 /\ c[j + 1] = s[j + 1]
        /\ \A i \in 1 .. j : c[i] = a[i]
    BY <1>2, <1>3, AppendProperties
  <2> HIDE DEF c
  <2> QED
    BY <1>2, <1>3, <2>1
<1>6. b = c
  <2> HIDE DEF c
  <2>1. Len(b) = Len(c) /\ \A i \in 1 .. Len(b) : b[i] = c[i]
    BY <1>2, <1>4, <1>5
  <2> QED
    BY <1>4, <1>5, <2>1, SeqEqual
<1> QED
  BY <1>2, <1>3, <1>6 DEF a, b

-----------------------------------------------------------------------------
(* The bytes of a frame.                                                   *)

FrameSet == [topic : Known, msg : {p \in Seq(Byte) : Len(p) < Base * Base}]

Body(f) == <<Lo(f.topic), Hi(f.topic)>> \o f.msg
SizeOf(f) == <<Lo(Len(f.msg)), Hi(Len(f.msg))>>
BytesOf(f) == Frame(f.topic, f.msg)
LengthOf(f) == Len(f.msg) + 8

LEMMA KnownIds == \A id \in Known : id \in 0 .. IntMax /\ id \in 0 .. Base * Base - 1
<1>1. Base * Base \in Nat /\ Base * Base >= 1 /\ IntMax \in Nat
  BY BaseAssumption, IntAssumption
<1>2. \A id \in Topics : id \in 0 .. IntMax /\ id < Base * Base
  BY TopicAssumption
<1> QED
  BY <1>1, <1>2 DEF Known, ID_PUBLISHER

LEMMA FrameParts ==
  ASSUME NEW f \in FrameSet
  PROVE  /\ f.topic \in Known /\ f.topic \in 0 .. IntMax /\ f.topic \in 0 .. Base * Base - 1
         /\ f.msg \in Seq(Byte)
         /\ Len(f.msg) \in 0 .. Base * Base - 1
         /\ Lo(f.topic) \in Byte /\ Hi(f.topic) \in Byte
         /\ Lo(f.topic) + Base * Hi(f.topic) = f.topic
         /\ Lo(Len(f.msg)) \in Byte /\ Hi(Len(f.msg)) \in Byte
         /\ Lo(Len(f.msg)) + Base * Hi(Len(f.msg)) = Len(f.msg)
         /\ f = [topic |-> f.topic, msg |-> f.msg]
<1>1. /\ f.topic \in Known /\ f.msg \in Seq(Byte) /\ Len(f.msg) < Base * Base
      /\ f = [topic |-> f.topic, msg |-> f.msg]
  BY DEF FrameSet
<1>a. f.topic \in 0 .. IntMax /\ f.topic \in 0 .. Base * Base - 1
  BY <1>1, KnownIds
<1>2. Len(f.msg) \in Nat
  BY <1>1, LenProperties
<1>3. Len(f.msg) \in 0 .. Base * Base - 1
  BY <1>1, <1>2, Bases
<1> QED
  BY <1>1, <1>a, <1>3, TwoBytes

LEMMA TheBody ==
  ASSUME NEW f \in FrameSet
  PROVE  /\ Body(f) \in Seq(Byte) /\ Body(f) \in Seq(Nat) /\ Len(Body(f)) = Len(f.msg) + 2
         /\ Body(f)[1] = Lo(f.topic) /\ Body(f)[2] = Hi(f.topic)
         /\ \A j \in 1 .. Len(f.msg) : Body(f)[j + 2] = f.msg[j]
         /\ Total(Body(f)) \in Nat
<1>1. f.msg \in Seq(Byte) /\ Len(f.msg) \in Nat
  BY FrameParts
<1> DEFINE t == <<Lo(f.topic), Hi(f.topic)>>
<1>2. /\ t \in Seq(Byte) /\ Len(t) = 2 /\ t[1] = Lo(f.topic) /\ t[2] = Hi(f.topic)
  BY FrameParts
<1> HIDE DEF t
<1>3. /\ t \o f.msg \in Seq(Byte) /\ Len(t \o f.msg) = Len(t) + Len(f.msg)
      /\ \A i \in 1 .. Len(t) + Len(f.msg) :
           (t \o f.msg)[i] = IF i <= Len(t) THEN t[i] ELSE f.msg[i - Len(t)]
  BY <1>1, <1>2, ConcatProperties
<1> DEFINE b == t \o f.msg
<1>4. b = Body(f)
  BY DEF Body, t
<1> HIDE DEF b
<1>5. /\ b \in Seq(Byte) /\ Len(b) = Len(f.msg) + 2
      /\ b[1] = Lo(f.topic) /\ b[2] = Hi(f.topic)
      /\ \A j \in 1 .. Len(f.msg) : b[j + 2] = f.msg[j]
  BY <1>1, <1>2, <1>3 DEF b
<1>6. b \in Seq(Nat)
  BY <1>5, Bases, SeqMonotonic
<1>7. Total(b) \in Nat
  BY <1>6, TotalMore
<1> QED
  BY <1>4, <1>5, <1>6, <1>7

LEMMA TheSize ==
  ASSUME NEW f \in FrameSet
  PROVE  /\ SizeOf(f) \in Seq(Byte) /\ Len(SizeOf(f)) = 2
         /\ SizeOf(f)[1] = Lo(Len(f.msg)) /\ SizeOf(f)[2] = Hi(Len(f.msg))
         /\ Total(SizeOf(f)) = Lo(Len(f.msg)) + Hi(Len(f.msg)) /\ Total(SizeOf(f)) \in Nat
<1>1. /\ SizeOf(f) \in Seq(Byte) /\ Len(SizeOf(f)) = 2
      /\ SizeOf(f)[1] = Lo(Len(f.msg)) /\ SizeOf(f)[2] = Hi(Len(f.msg))
  BY FrameParts DEF SizeOf
<1>2. Lo(Len(f.msg)) \in Nat /\ Hi(Len(f.msg)) \in Nat
  BY FrameParts, Bases
<1>3. Total(SizeOf(f)) = Lo(Len(f.msg)) + Hi(Len(f.msg))
  BY <1>2, TotalOfTwo DEF SizeOf
<1> QED
  BY <1>1, <1>2, <1>3

LEMMA TheBytes ==
  ASSUME NEW f \in FrameSet
  PROVE  /\ BytesOf(f) \in Seq(Byte) /\ Len(BytesOf(f)) = LengthOf(f)
         /\ LengthOf(f) \in Nat /\ LengthOf(f) >= 8
         /\ BytesOf(f)[1] = FF /\ BytesOf(f)[2] = PROTOCOL_VER
         /\ BytesOf(f)[3] = Lo(Len(f.msg)) /\ BytesOf(f)[4] = Hi(Len(f.msg))
         /\ BytesOf(f)[5] = Checksum(SizeOf(f))
         /\ \A j \in 1 .. Len(f.msg) + 2 : BytesOf(f)[j + 5] = Body(f)[j]
         /\ BytesOf(f)[LengthOf(f)] = Checksum(Body(f))
<1> DEFINE h == <<FF, PROTOCOL_VER>>
           z == SizeOf(f)
           c == Checksum(z)
           y == Body(f)
           d == Checksum(y)
           n == Len(f.msg)
<1>1. /\ h \in Seq(Byte) /\ Len(h) = 2 /\ h[1] = FF /\ h[2] = PROTOCOL_VER
  BY Bases
<1>2. z \in Seq(Byte) /\ Len(z) = 2 /\ z[1] = Lo(n) /\ z[2] = Hi(n) /\ Total(z) \in Nat
  BY TheSize
<1>3. y \in Seq(Byte) /\ Len(y) = n + 2 /\ Total(y) \in Nat /\ n \in Nat
  BY TheBody, FrameParts
<1>4. c \in Byte /\ d \in Byte
  BY <1>2, <1>3, Complement DEF Checksum
<1>5. BytesOf(f) = h \o z \o <<c>> \o y \o <<d>>
  BY DEF BytesOf, Frame, SizeOf, Body
<1> HIDE DEF h, z, c, y, d, n
<1>6. <<c>> \in Seq(Byte) /\ Len(<<c>>) = 1 /\ <<c>>[1] = c
  BY <1>4
<1>7. <<d>> \in Seq(Byte) /\ Len(<<d>>) = 1 /\ <<d>>[1] = d
  BY <1>4
<1> DEFINE p == h \o z
           q == p \o <<c>>
           r == q \o y
           s == r \o <<d>>
<1>8. /\ p \in Seq(Byte) /\ Len(p) = 4
      /\ p[1] = FF /\ p[2] = PROTOCOL_VER /\ p[3] = Lo(n) /\ p[4] = Hi(n)
  <2>1. /\ p \in Seq(Byte) /\ Len(p) = Len(h) + Len(z)
        /\ \A i \in 1 .. Len(h) + Len(z) :
             p[i] = IF i <= Len(h) THEN h[i] ELSE z[i - Len(h)]
    BY <1>1, <1>2, ConcatProperties
  <2> HIDE DEF p
  <2> QED
    BY <1>1, <1>2, <2>1
<1> HIDE DEF p
<1>9. /\ q \in Seq(Byte) /\ Len(q) = 5 /\ q[5] = c
      /\ q[1] = FF /\ q[2] = PROTOCOL_VER /\ q[3] = Lo(n) /\ q[4] = Hi(n)
  <2>1. /\ q \in Seq(Byte) /\ Len(q) = Len(p) + Len(<<c>>)
        /\ \A i \in 1 .. Len(p) + Len(<<c>>) :
             q[i] = IF i <= Len(p) THEN p[i] ELSE <<c>>[i - Len(p)]
    BY <1>6, <1>8, ConcatProperties
  <2> HIDE DEF q
  <2> QED
    BY <1>6, <1>8, <2>1
<1> HIDE DEF q
<1>10. /\ r \in Seq(Byte) /\ Len(r) = n + 7 /\ r[5] = c
       /\ r[1] = FF /\ r[2] = PROTOCOL_VER /\ r[3] = Lo(n) /\ r[4] = Hi(n)
       /\ \A j \in 1 .. n + 2 : r[j + 5] = y[j]
  <2>1. /\ r \in Seq(Byte) /\ Len(r) = Len(q) + Len(y)
        /\ \A i \in 1 .. Len(q) + Len(y) :
             r[i] = IF i <= Len(q) THEN q[i] ELSE y[i - Len(q)]
    BY <1>3, <1>9, ConcatProperties
  <2> HIDE DEF r
  <2> QED
    BY <1>3, <1>9, <2>1
<1> HIDE DEF r
<1>11. /\ s \in Seq(Byte) /\ Len(s) = n + 8 /\ s[5] = c /\ s[n + 8] = d
       /\ s[1] = FF /\ s[2] = PROTOCOL_VER /\ s[3] = Lo(n) /\ s[4] = Hi(n)
       /\ \A j \in 1 .. n + 2 : s[j + 5] = y[j]
  <2>1. /\ s \in Seq(Byte) /\ Len(s) = (n + 7) + 1
        /\ \A i \in 1 .. (n + 7) + 1 : s[i] = IF i <= n + 7 THEN r[i] ELSE <<d>>[i - (n + 7)]
    BY <1>7, <1>10, ConcatProperties
  <2> HIDE DEF s
  <2> QED
    BY <1>3, <1>7, <1>10, <2>1
<1>12. BytesOf(f) = s
  BY <1>5 DEF p, q, r
<1> HIDE DEF s
<1> QED
  BY <1>3, <1>11, <1>12 DEF c, d, y, z, n, LengthOf

(* The sum of the first bytes of a body.                                   *)
Part(f, j) == Total(SubSeq(Body(f), 1, j))

LEMMA Parts ==
  ASSUME NEW f \in FrameSet
  PROVE  /\ Part(f, 1) = Lo(f.topic)
         /\ \A j \in 0 .. Len(f.msg) + 1 :
              Part(f, j) \in Nat /\ Part(f, j + 1) = Part(f, j) + Body(f)[j + 1]
         /\ Part(f, Len(f.msg) + 2) = Total(Body(f))
<1>1. /\ Body(f) \in Seq(Nat) /\ Len(Body(f)) = Len(f.msg) + 2 /\ Body(f)[1] = Lo(f.topic)
      /\ Body(f) \in Seq(Byte)
  BY TheBody
<1>2. Len(f.msg) \in Nat
  BY FrameParts
<1>3. ASSUME NEW j \in 0 .. Len(f.msg) + 1
      PROVE  Part(f, j) \in Nat /\ Part(f, j + 1) = Part(f, j) + Body(f)[j + 1]
  <2>1. j \in 0 .. Len(Body(f)) - 1
    BY <1>1, <1>2
  <2>2. /\ SubSeq(Body(f), 1, j) \in Seq(Nat) /\ Body(f)[j + 1] \in Nat
        /\ SubSeq(Body(f), 1, j + 1) = Append(SubSeq(Body(f), 1, j), Body(f)[j + 1])
    BY <1>1, <2>1, OneMore
  <2> QED
    BY <2>2, TotalMore DEF Part
<1>4. Part(f, 0) = 0
  <2>1. SubSeq(Body(f), 1, 0) = <<>>
    BY SubSeqEmpty
  <2> QED
    BY <2>1, TotalNone DEF Part
<1>5. Part(f, 1) = Lo(f.topic)
  <2>1. 0 \in 0 .. Len(f.msg) + 1 /\ 0 + 1 = 1 /\ Lo(f.topic) \in Nat
    BY <1>2, FrameParts, Bases
  <2>2. Part(f, 0 + 1) = Part(f, 0) + Body(f)[0 + 1]
    BY <1>3, <2>1
  <2> QED
    BY <1>1, <1>4, <2>1, <2>2
<1>6. SubSeq(Body(f), 1, Len(f.msg) + 2) = Body(f)
  BY <1>1, SubSeqFull
<1> QED
  BY <1>3, <1>5, <1>6 DEF Part

-----------------------------------------------------------------------------
(* Types.                                                                  *)

HandledSet == [topic : IntRange, msg : Seq(Byte)]

TypeInv ==
  /\ TypeOK
  /\ sent \in Seq(FrameSet)
  /\ got \in Seq(HandledSet)

Constants ==
  /\ MSG_TIMEOUT \in Nat /\ FrameTime \in Nat /\ MaxFaults \in Nat /\ MaxSent \in Nat
  /\ SpinGap \in Nat \ {0}
  /\ Base \in Nat /\ Base > 1 /\ IntMax \in Nat /\ IntMax >= 2 * Base - 1
  /\ 2 * (IntMax + 1) >= Base * Base /\ InputSize \in Nat /\ InputSize > 0
  /\ Base * Base \in Nat /\ Base * Base >= Base + Base

LEMMA ConstantsTypes == Constants
<1>1. /\ Base \in Nat /\ Base >= 2 /\ IntMax \in Nat /\ IntMax >= 2 * Base - 1
      /\ 2 * (IntMax + 1) >= Base * Base
  BY BaseAssumption, IntAssumption
<1>2. Base * Base \in Nat /\ Base * Base >= Base + Base
  BY <1>1
<1>3. /\ MSG_TIMEOUT \in Nat /\ FrameTime \in Nat /\ MaxFaults \in Nat /\ MaxSent \in Nat
      /\ SpinGap \in Nat \ {0} /\ InputSize \in Nat /\ InputSize > 0
  BY TimeAssumption, SizeAssumption
<1> QED
  BY <1>1, <1>2, <1>3 DEF Constants

(* Either way a frame is put on the line, it is a frame.                   *)
LEMMA Sendable ==
  \A topic, msg :
    (topic \in Topics /\ msg \in Payloads) \/ (topic = ID_PUBLISHER /\ msg = <<>>)
    => [topic |-> topic, msg |-> msg] \in FrameSet
<1> SUFFICES ASSUME NEW topic, NEW msg,
                    \/ topic \in Topics /\ msg \in Payloads
                    \/ topic = ID_PUBLISHER /\ msg = <<>>
             PROVE  [topic |-> topic, msg |-> msg] \in FrameSet
  OBVIOUS
<1>1. Base * Base \in Nat /\ Base * Base > 0
  BY ConstantsTypes DEF Constants
<1>2. CASE topic \in Topics /\ msg \in Payloads
  BY <1>2, PayloadAssumption DEF FrameSet, Known
<1>3. CASE topic = ID_PUBLISHER /\ msg = <<>>
  <2>1. <<>> \in Seq(Byte) /\ Len(<<>>) = 0
    OBVIOUS
  <2> QED
    BY <1>1, <1>3, <2>1 DEF FrameSet, Known
<1> QED
  BY <1>2, <1>3

(* What a step leaves alone that only tells the host a size.               *)
Still ==
  UNCHANGED <<wire, wire_age, line, pc, spin_age, device, msg_age, sent, got, quiet, fresh,
              faults>>

(* The steps that leave the parser alone, and those that read a byte.      *)
LEMMA Steps ==
  ASSUME Next
  PROVE  \/ \E f \in FrameSet : Transmit(f.topic, f.msg)
         \/ Arrive \/ Fault \/ Tick \/ spinOnce \/ Read \/ NoMoreData
         \/ setSubscribeSize
<1>1. ASSUME NEW topic \in Topics, NEW msg \in Payloads, send(topic, msg)
      PROVE  \E f \in FrameSet : Transmit(f.topic, f.msg)
  <2> DEFINE f == [topic |-> topic, msg |-> msg]
  <2>1. f \in FrameSet
    BY Sendable
  <2>2. f.topic = topic /\ f.msg = msg
    OBVIOUS
  <2> HIDE DEF f
  <2>3. Transmit(f.topic, f.msg)
    BY <1>1, <2>2 DEF send
  <2> QED
    BY <2>1, <2>3
<1>2. ASSUME requestTopics PROVE \E f \in FrameSet : Transmit(f.topic, f.msg)
  <2>1. PICK topic, msg : topic = ID_PUBLISHER /\ msg = <<>>
    OBVIOUS
  <2> DEFINE f == [topic |-> topic, msg |-> msg]
  <2>2. f \in FrameSet
    BY <2>1, Sendable, Zenon
  <2>3. f.topic = topic /\ f.msg = msg
    OBVIOUS
  <2> HIDE DEF f
  <2>4. Transmit(f.topic, f.msg)
    BY <1>2, <2>1, <2>3 DEF requestTopics
  <2> QED
    BY <2>2, <2>4
<1> QED
  BY <1>1, <1>2 DEF Next

LEMMA SetStill == (setSubscribeSize \/ UNCHANGED vars) => Still
BY DEF setSubscribeSize, vars, Still

LEMMA TypeInit == ASSUME Init PROVE TypeInv
<1>1. <<>> \in Seq(Byte) /\ <<>> \in Seq(FrameSet) /\ <<>> \in Seq(HandledSet)
  OBVIOUS
<1>2. {bytes_, topic_, checksum_} \subseteq IntRange
  <2>1. bytes_ = 0 /\ topic_ = 0 /\ checksum_ = 0
    BY DEF Init
  <2>2. 0 \in IntRange
    BY ConstantsTypes DEF Constants, IntRange
  <2> QED
    BY <2>1, <2>2
<1>3. buffer_in \in {-1, InputSize} /\ unchecked \in BOOLEAN
  BY DEF Init
<1> QED
  BY <1>1, <1>2, <1>3, ConstantsTypes DEF Init, TypeInv, TypeOK, Constants, Modes, Silence

(* What reading a byte does to the line.                                   *)
LEMMA ReadsOne ==
  ASSUME TypeInv, NEW mode, NEW data, NEW next, Reads(mode, data, next)
  PROVE  /\ pc = "spin" /\ mode_ = mode /\ mode_' = next
         /\ line # <<>> /\ data = line[1] /\ data = Head(line)
         /\ line' \in Seq(Byte) /\ Len(line') = Len(line) - 1 /\ Len(line) > 0
         /\ \A i \in 1 .. Len(line) - 1 : line'[i] = line[i + 1]
         /\ UNCHANGED <<host, wire, wire_age, spin_age, sent, quiet, fresh, faults>>
<1>1. line \in Seq(Byte) /\ line # <<>> /\ line' = Tail(line) /\ data = Head(line)
  BY DEF TypeInv, TypeOK, Reads
<1>2. /\ Tail(line) \in Seq(Byte) /\ Len(Tail(line)) = Len(line) - 1
      /\ \A i \in 1 .. Len(Tail(line)) : Tail(line)[i] = line[i + 1]
  BY <1>1, HeadTailProperties
<1>3. Len(line) \in Nat /\ Len(line) > 0 /\ Head(line) = line[1]
  BY <1>1, EmptySeq
<1> QED
  BY <1>1, <1>2, <1>3 DEF Reads

LEMMA ReadKeepsTypes ==
  ASSUME TypeInv, Read
  PROVE  TypeInv'
<1> USE DEF TypeInv, TypeOK, IntRange
<1>0. Constants /\ Byte \subseteq Nat /\ FF \in Byte
  BY ConstantsTypes, Bases
<1>a. \A n \in Int : AsInt(n) \in -(IntMax + 1) .. IntMax
  BY Wraps
<1>b. \A data \in Byte : Sum(data) \in -(IntMax + 1) .. IntMax
  <2>1. \A data \in Byte : checksum_ + data \in Int
    BY <1>0 DEF Constants
  <2> QED
    BY <1>a, <2>1 DEF Sum
<1>c. \A data \in Byte : data \in -(IntMax + 1) .. IntMax
  <2>1. Base \in Nat /\ IntMax \in Nat /\ IntMax >= 2 * Base - 1
    BY <1>0 DEF Constants
  <2> QED
    BY <2>1 DEF Byte
<1>d. \A data \in Byte : AsInt(bytes_ + Base * data) \in -(IntMax + 1) .. IntMax
                         /\ AsInt(topic_ + Base * data) \in -(IntMax + 1) .. IntMax
  <2>1. \A data \in Byte : bytes_ + Base * data \in Int /\ topic_ + Base * data \in Int
    BY <1>0 DEF Constants
  <2> QED
    BY <1>a, <2>1
<1>2. ASSUME Read PROVE \E mode, data, next : Reads(mode, data, next)
  BY DEF Read, FirstFF, ProtocolVer, SizeL, SizeH, SizeChecksum, TopicL, TopicH, Message,
     MsgChecksum
<1>3. /\ UNCHANGED <<host, wire, wire_age, spin_age, sent, quiet, fresh, faults>>
      /\ line' \in Seq(Byte) /\ pc = "spin" /\ UNCHANGED <<buffer_in, unchecked>>
  BY <1>2, ReadsOne DEF host
<1>4. CASE FirstFF
  <2>1. PICK data \in Byte :
          /\ mode_' = IF data = FF THEN "protocol_ver" ELSE "first_ff"
          /\ msg_age' = IF data = FF THEN spin_age ELSE msg_age
          /\ checksum_' = Sum(data)
          /\ UNCHANGED <<pc, bytes_, topic_, message_in, got>>
    BY <1>4 DEF FirstFF, Reads
  <2>2. msg_age' \in 0 .. MSG_TIMEOUT + 1 + SpinGap
    BY <1>0, <2>1 DEF Constants
  <2> QED
    BY <1>3, <1>b, <2>1, <2>2 DEF Modes
<1>5. CASE ProtocolVer
  <2>1. PICK data \in Byte :
          /\ mode_' = IF data = PROTOCOL_VER THEN "size_l" ELSE "first_ff"
          /\ checksum_' = Sum(data)
          /\ UNCHANGED <<pc, bytes_, topic_, message_in, msg_age, got>>
    BY <1>5 DEF ProtocolVer, Reads
  <2> QED
    BY <1>3, <1>b, <1>c, <2>1 DEF Modes
<1>6. CASE SizeL
  <2>1. PICK data \in Byte :
          /\ mode_' = "size_h"
          /\ bytes_' = data
          /\ message_in' = <<>>
          /\ checksum_' = data
          /\ UNCHANGED <<pc, topic_, msg_age, got>>
    BY <1>6 DEF SizeL, Reads
  <2>2. <<>> \in Seq(Byte)
    OBVIOUS
  <2> QED
    BY <1>3, <1>b, <1>c, <2>1, <2>2 DEF Modes
<1>7. CASE SizeH
  <2>1. PICK data \in Byte :
          /\ mode_' = "size_checksum"
          /\ bytes_' = AsInt(bytes_ + Base * data)
          /\ checksum_' = Sum(data)
          /\ UNCHANGED <<pc, topic_, message_in, msg_age, got>>
    BY <1>7 DEF SizeH, Reads
  <2> QED
    BY <1>3, <1>b, <1>d, <2>1 DEF Modes
<1>8. CASE SizeChecksum
  <2>1. PICK data \in Byte :
          /\ mode_' = IF Matches(Sum(data)) THEN "topic_l" ELSE "first_ff"
          /\ checksum_' = Sum(data)
          /\ UNCHANGED <<pc, bytes_, topic_, message_in, msg_age, got>>
    BY <1>8 DEF SizeChecksum, Reads
  <2> QED
    BY <1>3, <1>b, <1>c, <2>1 DEF Modes
<1>9. CASE TopicL
  <2>1. PICK data \in Byte :
          /\ mode_' = "topic_h"
          /\ topic_' = data
          /\ checksum_' = data
          /\ UNCHANGED <<pc, bytes_, message_in, msg_age, got>>
    BY <1>9 DEF TopicL, Reads
  <2> QED
    BY <1>3, <1>b, <1>c, <2>1 DEF Modes
<1>10. CASE TopicH
  <2>1. PICK data \in Byte :
          /\ mode_' = IF bytes_ = 0 THEN "msg_checksum" ELSE "message"
          /\ topic_' = AsInt(topic_ + Base * data)
          /\ checksum_' = Sum(data)
          /\ UNCHANGED <<pc, bytes_, message_in, msg_age, got>>
    BY <1>10 DEF TopicH, Reads
  <2> QED
    BY <1>3, <1>b, <1>d, <2>1 DEF Modes
<1>11. CASE Message
  <2>1. PICK data \in Byte :
          /\ mode_' = IF bytes_ = 1 THEN "msg_checksum" ELSE "message"
          /\ message_in' = Append(message_in, data)
          /\ bytes_' = AsInt(bytes_ - 1)
          /\ checksum_' = Sum(data)
          /\ pc' = pc \/ pc' = "astray"
          /\ UNCHANGED <<topic_, msg_age, got>>
    BY <1>11 DEF Message, Reads
  <2>2. message_in' \in Seq(Byte)
    BY <2>1, AppendProperties
  <2>3. bytes_' \in -(IntMax + 1) .. IntMax
    <3>1. bytes_ - 1 \in Int
      OBVIOUS
    <3> QED
      BY <1>a, <2>1, <3>1
  <2> QED
    BY <1>3, <1>b, <2>1, <2>2, <2>3 DEF Modes
<1>12. CASE MsgChecksum
  <2>1. PICK data \in Byte :
          /\ mode_' = "first_ff"
          /\ checksum_' = Sum(data)
          /\ \/ got' = Append(got, [topic |-> topic_, msg |-> message_in])
             \/ UNCHANGED got
          /\ pc' \in {pc, "loop", "astray"}
          /\ UNCHANGED <<bytes_, topic_, message_in, msg_age>>
    BY <1>12 DEF MsgChecksum, Reads
  <2>2. [topic |-> topic_, msg |-> message_in] \in HandledSet
    BY DEF HandledSet
  <2>3. got' \in Seq(HandledSet)
    <3>1. got \in Seq(HandledSet)
      OBVIOUS
    <3> DEFINE x == [topic |-> topic_, msg |-> message_in]
    <3>2. x \in HandledSet /\ (got' = Append(got, x) \/ got' = got)
      BY <2>1, <2>2
    <3> HIDE DEF x, TypeInv, TypeOK
    <3> QED
      BY <3>1, <3>2, AppendProperties
  <2> QED
    BY <1>3, <1>b, <2>1, <2>3 DEF Modes
<1> QED
  BY <1>4, <1>5, <1>6, <1>7, <1>8, <1>9, <1>10, <1>11, <1>12 DEF Read

LEMMA TypeNext == ASSUME TypeInv, [Next]_vars PROVE TypeInv'
<1> USE DEF TypeInv, TypeOK, IntRange
<1>0. Constants
  BY ConstantsTypes
<1>1. ASSUME NEW f \in FrameSet, Transmit(f.topic, f.msg) PROVE TypeInv'
  <2>1. wire' \in Seq(Byte)
    BY <1>1, TheBytes DEF Transmit, BytesOf
  <2>2. sent' \in Seq(FrameSet)
    <3>1. sent' = Append(sent, f)
      BY <1>1, FrameParts DEF Transmit
    <3> QED
      BY <3>1, AppendProperties
  <2>3. wire_age' \in 0 .. FrameTime /\ quiet' \in 0 .. Silence + 1 /\ fresh' \in BOOLEAN
    BY <1>0, <1>1 DEF Transmit, Constants, Silence
  <2>4. /\ UNCHANGED <<buffer_in, line, pc, spin_age, device, msg_age, got, faults>>
        /\ unchecked' \in BOOLEAN
    BY <1>1 DEF Transmit
  <2> QED
    BY <2>1, <2>2, <2>3, <2>4 DEF device
<1>2. CASE Arrive
  <2>1. Tail(wire) \in Seq(Byte) /\ Head(wire) \in Byte
    BY <1>2, HeadTailProperties DEF Arrive
  <2>2. Append(line, Head(wire)) \in Seq(Byte)
    BY <2>1, AppendProperties
  <2> QED
    BY <1>2, <2>1, <2>2 DEF Arrive, device, host
<1>3. CASE Fault
  <2>1. Tail(wire) \in Seq(Byte)
    BY <1>3, HeadTailProperties DEF Fault
  <2>2. \A data \in Byte : Append(line, data) \in Seq(Byte)
    BY AppendProperties
  <2>3. line' \in Seq(Byte)
    BY <1>3, <2>2 DEF Fault
  <2>4. faults' \in 0 .. MaxFaults
    BY <1>0, <1>3 DEF Fault, Constants
  <2> QED
    BY <1>3, <2>1, <2>3, <2>4 DEF Fault, device, host
<1>4. CASE Tick
  <2>1. UNCHANGED <<host, wire, line, pc, device, sent, got, fresh, faults>>
    BY <1>4 DEF Tick
  <2>2. /\ spin_age' \in 0 .. SpinGap /\ wire_age' \in 0 .. FrameTime
        /\ msg_age' \in 0 .. MSG_TIMEOUT + 1 + SpinGap /\ quiet' \in 0 .. Silence + 1
    BY <1>0, <1>4 DEF Tick, Older, Constants, Silence
  <2> QED
    BY <2>1, <2>2 DEF device, host
<1>5. CASE spinOnce
  <2>1. spin_age' \in 0 .. SpinGap
    BY <1>0, <1>5 DEF spinOnce, Constants
  <2> QED
    BY <1>5, <2>1 DEF spinOnce, Modes, host
<1>6. CASE NoMoreData
  BY <1>6 DEF NoMoreData, device, host
<1>7. CASE UNCHANGED vars
  BY <1>7 DEF vars, device, host
<1>8. CASE setSubscribeSize
  BY <1>8 DEF setSubscribeSize, device
<1> QED
  BY <1>1, <1>2, <1>3, <1>4, <1>5, <1>6, <1>7, <1>8, Steps, ReadKeepsTypes

(* The types, and what a mode says of the bytes read.                      *)
THEOREM TypeCorrect == Spec => []TypeInv
BY TypeInit, TypeNext, PTL DEF Spec

-----------------------------------------------------------------------------
(* A frame being read.                                                     *)

(* Of this frame p bytes have been read.                                   *)
Parsed(f, p) ==
  \/ p = 0 /\ mode_ = "first_ff"
  \/ p = 1 /\ mode_ = "protocol_ver"
  \/ p = 2 /\ mode_ = "size_l"
  \/ /\ p = 3 /\ mode_ = "size_h" /\ message_in = <<>>
     /\ bytes_ = Lo(Len(f.msg)) /\ checksum_ = AsInt(Lo(Len(f.msg)))
  \/ /\ p = 4 /\ mode_ = "size_checksum" /\ message_in = <<>>
     /\ bytes_ = AsInt(Len(f.msg)) /\ checksum_ = AsInt(Total(SizeOf(f)))
  \/ p = 5 /\ mode_ = "topic_l" /\ message_in = <<>> /\ bytes_ = AsInt(Len(f.msg))
  \/ /\ p = 6 /\ mode_ = "topic_h" /\ message_in = <<>> /\ bytes_ = AsInt(Len(f.msg))
     /\ topic_ = Lo(f.topic) /\ checksum_ = AsInt(Part(f, 1))
  \/ /\ p >= 7 /\ mode_ = IF p = Len(f.msg) + 7 THEN "msg_checksum" ELSE "message"
     /\ message_in = SubSeq(f.msg, 1, p - 7) /\ bytes_ = AsInt(Len(f.msg) + 7 - p)
     /\ topic_ = f.topic /\ checksum_ = AsInt(Part(f, p - 5))

LEMMA ByteWraps == \A data \in Byte : AsInt(data) = data
<1>1. \A data \in Byte : data \in 0 .. IntMax
  <2>1. IntMax \in Nat /\ Base \in Nat /\ IntMax >= 2 * Base - 1
    BY ConstantsTypes DEF Constants
  <2> QED
    BY <2>1 DEF Byte
<1> QED
  BY <1>1, SmallWraps

(* The bytes that are left are counted down, in an int that may wrap, and  *)
(* the count is 0 and 1 when they are.                                     *)
LEMMA CountWraps ==
  ASSUME NEW r \in 0 .. Base * Base - 1
  PROVE  (AsInt(r) = 0 <=> r = 0) /\ (AsInt(r) = 1 <=> r = 1)
<1> DEFINE m == 2 * (IntMax + 1)
           b == Base * Base
<1>1. m \in Nat /\ b \in Nat /\ m >= b /\ r \in 0 .. b - 1 /\ IntMax \in Nat /\ IntMax >= 1
      /\ m = 2 * (IntMax + 1)
  BY ConstantsTypes DEF Constants
<1> HIDE DEF m, b
<1>2. CASE r <= IntMax
  <2>1. r \in 0 .. IntMax
    BY <1>1, <1>2
  <2> QED
    BY <2>1, SmallWraps
<1>3. CASE r > IntMax
  <2>1. m \in Nat \ {0} /\ r \in 0 .. m - 1 /\ r = m * 0 + r
    BY <1>1
  <2>2. (m * 0 + r) % m = r
    BY <2>1, Remainder
  <2>3. r % m = r
    BY <2>1, <2>2
  <2>4. AsInt(r) = r - m
    BY <1>1, <1>3, <2>3 DEF AsInt
  <2> QED
    BY <1>1, <1>3, <2>1, <2>4
<1> QED
  BY <1>1, <1>2, <1>3

(* The checksum of the size is always right, and never overflows.          *)
LEMMA SizeMatches ==
  ASSUME NEW f \in FrameSet
  PROVE  Matches(AsInt(Total(SizeOf(f)) + Checksum(SizeOf(f))))
<1> DEFINE n == Total(SizeOf(f))
           c == Checksum(SizeOf(f))
<1>1. n \in Nat /\ n = Lo(Len(f.msg)) + Hi(Len(f.msg))
  BY TheSize
<1>2. c = FF - (n % Base)
  BY DEF Checksum
<1>3. c \in Byte /\ (n + c) % Base = FF
  BY <1>1, <1>2, Complement
<1>4. Lo(Len(f.msg)) \in Byte /\ Hi(Len(f.msg)) \in Byte
  BY FrameParts
<1> HIDE DEF n, c
<1>5. n + c \in 0 .. IntMax
  <2>1. Base \in Nat \ {0} /\ IntMax \in Nat /\ IntMax >= 2 * Base - 1
    BY ConstantsTypes DEF Constants
  <2>2. n \in Nat /\ n <= 2 * Base - 2
    BY <1>1, <1>4, <2>1 DEF Byte
  <2>3. n \div Base \in Int /\ n % Base \in 0 .. Base - 1
        /\ n = Base * (n \div Base) + (n % Base)
    BY <2>1, <2>2, DivMod
  <2> DEFINE q == n \div Base
             r == n % Base
  <2>4. q \in Int /\ r \in 0 .. Base - 1 /\ n = Base * q + r /\ c = FF - r /\ FF = Base - 1
    BY <1>2, <2>3 DEF FF
  <2> HIDE DEF q, r
  <2>5. q <= 1 /\ q >= 0
    <3>1. ASSUME q >= 2 PROVE FALSE
      <4>1. Base * q >= Base * 2
        BY <2>1, <2>4, <3>1
      <4> QED
        BY <2>1, <2>2, <2>4, <4>1
    <3>2. ASSUME q <= -1 PROVE FALSE
      <4>1. Base * q <= -Base
        BY <2>1, <2>4, <3>2
      <4> QED
        BY <2>1, <2>2, <2>4, <4>1
    <3> QED
      BY <2>4, <3>1, <3>2
  <2>6. Base * q <= Base /\ Base * q >= 0 /\ Base * q \in Int
    <3>1. q = 0 \/ q = 1
      BY <2>4, <2>5
    <3> QED
      BY <2>1, <3>1
  <2>7. n + c = Base * q + (Base - 1)
    BY <2>1, <2>4, <2>6
  <2> QED
    BY <2>1, <2>6, <2>7
<1>6. AsInt(n + c) = n + c
  BY <1>5, SmallWraps
<1>7. Matches(n + c)
  BY <1>3, <1>5 DEF Matches
<1> QED
  BY <1>6, <1>7 DEF n, c

(* The checksum of the message is right unless the sum has become negative. *)
LEMMA MessageMatches ==
  ASSUME NEW f \in FrameSet
  PROVE  Matches(AsInt(Total(Body(f)) + Checksum(Body(f)))) <=> Summable(f)
<1> DEFINE n == Total(Body(f))
           c == Checksum(Body(f))
<1>1. n \in Nat /\ c = FF - (n % Base)
  BY TheBody DEF Checksum
<1>2. c \in Byte /\ (n + c) % Base = FF
  BY <1>1, Complement
<1>3. Summable(f) <=> AsInt(n + c) >= 0
  BY DEF Summable, MessageSum, Body
<1> HIDE DEF n, c
<1>4. n + c \in Int
  BY <1>1, <1>2, Bases
<1>5. AsInt(n + c) % Base = FF
  BY <1>2, <1>4, WrapsWhole
<1> QED
  BY <1>3, <1>5 DEF Matches, n, c

(* A byte is added to what was summed.                                     *)
LEMMA SumsOn ==
  \A n, data : n \in Nat /\ data \in Byte /\ checksum_ = AsInt(n) => Sum(data) = AsInt(n + data)
<1> SUFFICES ASSUME NEW n \in Nat, NEW data \in Byte, checksum_ = AsInt(n)
             PROVE  Sum(data) = AsInt(n + data)
  OBVIOUS
<1>1. n \in Int /\ data \in Int
  BY Bases
<1> QED
  BY <1>1, WrapsOnce DEF Sum

(* The next byte of the frame is read.                                     *)
ReadOn(f, p) ==
  /\ p < Len(f.msg) + 7 => /\ Parsed(f, p + 1)' /\ UNCHANGED got
                           /\ pc' = pc \/ (pc' = "astray" /\ Len(f.msg) > InputSize)
  /\ p = Len(f.msg) + 7 => /\ mode_' = "first_ff" /\ pc' # "astray"
                           /\ got' = IF Summable(f) THEN Append(got, f) ELSE got
  /\ msg_age' = IF p = 0 THEN spin_age ELSE msg_age

LEMMA ReadNext ==
  ASSUME TypeInv, Read, NEW f \in FrameSet, NEW p \in 0 .. Len(f.msg) + 7, Parsed(f, p),
         line[1] = BytesOf(f)[p + 1]
  PROVE  ReadOn(f, p)
<1> DEFINE n == Len(f.msg)
           x == line[1]
<1>0. /\ n \in Nat /\ p \in Nat /\ BytesOf(f)[p + 1] = x
      /\ bytes_ \in Int /\ topic_ \in Int /\ checksum_ \in Int
      /\ Base * Base \in Nat /\ n <= Base * Base - 1 /\ InputSize \in Nat
  BY FrameParts, ConstantsTypes DEF TypeInv, TypeOK, Constants, IntRange
<1>c. \A r \in 0 .. n : (AsInt(r) = 0 <=> r = 0) /\ (AsInt(r) = 1 <=> r = 1)
  <2>1. \A r \in 0 .. n : r \in 0 .. Base * Base - 1
    BY <1>0
  <2> QED
    BY <2>1, CountWraps
<1>1. \A mode, data, next : Reads(mode, data, next) => data = x /\ mode_ = mode /\ mode_' = next
  BY ReadsOne
<1>2. x \in Byte
  <2>1. \E mode, next : \E data \in Byte : Reads(mode, data, next)
    BY DEF Read, FirstFF, ProtocolVer, SizeL, SizeH, SizeChecksum, TopicL, TopicH, Message,
       MsgChecksum
  <2> QED
    BY <1>1, <2>1
<1>3. /\ BytesOf(f)[1] = FF /\ BytesOf(f)[2] = PROTOCOL_VER
      /\ BytesOf(f)[3] = Lo(n) /\ BytesOf(f)[4] = Hi(n)
      /\ BytesOf(f)[5] = Checksum(SizeOf(f))
      /\ \A j \in 1 .. n + 2 : BytesOf(f)[j + 5] = Body(f)[j]
      /\ BytesOf(f)[n + 8] = Checksum(Body(f))
  BY TheBytes DEF LengthOf
<1> HIDE DEF n, x
<1>4. CASE p = 0
  <2>1. mode_ = "first_ff" /\ x = FF
    BY <1>0, <1>3, <1>4 DEF Parsed
  <2>2. FirstFF
    BY <2>1, <1>1 DEF Read, ProtocolVer, SizeL, SizeH, SizeChecksum, TopicL, TopicH, Message,
       MsgChecksum
  <2>3. mode_' = "protocol_ver" /\ msg_age' = spin_age /\ UNCHANGED <<pc, got>>
    BY <1>1, <2>1, <2>2 DEF FirstFF
  <2>4. Parsed(f, p + 1)'
    BY <1>4, <2>3 DEF Parsed
  <2> QED
    BY <1>0, <1>4, <2>3, <2>4 DEF ReadOn, n
<1>5. CASE p = 1
  <2>1. mode_ = "protocol_ver" /\ x = PROTOCOL_VER
    BY <1>0, <1>3, <1>5 DEF Parsed
  <2>2. ProtocolVer
    BY <2>1, <1>1 DEF Read, FirstFF, SizeL, SizeH, SizeChecksum, TopicL, TopicH, Message,
       MsgChecksum
  <2>3. mode_' = "size_l" /\ UNCHANGED <<msg_age, pc, got>>
    BY <1>1, <2>1, <2>2 DEF ProtocolVer
  <2>4. Parsed(f, p + 1)'
    BY <1>5, <2>3 DEF Parsed
  <2> QED
    BY <1>0, <1>5, <2>3, <2>4 DEF ReadOn, n
<1>6. CASE p = 2
  <2>1. mode_ = "size_l" /\ x = Lo(n)
    BY <1>0, <1>3, <1>6 DEF Parsed
  <2>2. SizeL
    BY <2>1, <1>1 DEF Read, FirstFF, ProtocolVer, SizeH, SizeChecksum, TopicL, TopicH, Message,
       MsgChecksum
  <2>3. /\ mode_' = "size_h" /\ bytes_' = x /\ message_in' = <<>> /\ checksum_' = x
        /\ UNCHANGED <<msg_age, pc, got>>
    BY <1>1, <2>1, <2>2 DEF SizeL
  <2>4. AsInt(x) = x
    BY <1>2, ByteWraps
  <2>5. Parsed(f, p + 1)'
    BY <1>6, <2>1, <2>3, <2>4 DEF Parsed, n
  <2> QED
    BY <1>0, <1>6, <2>3, <2>5 DEF ReadOn, n
<1>7. CASE p = 3
  <2>1. /\ mode_ = "size_h" /\ x = Hi(n) /\ message_in = <<>> /\ bytes_ = Lo(n)
        /\ checksum_ = AsInt(Lo(n))
    BY <1>0, <1>3, <1>7 DEF Parsed, n
  <2>2. SizeH
    BY <2>1, <1>1 DEF Read, FirstFF, ProtocolVer, SizeL, SizeChecksum, TopicL, TopicH, Message,
       MsgChecksum
  <2>3. /\ mode_' = "size_checksum" /\ bytes_' = AsInt(bytes_ + Base * x) /\ checksum_' = Sum(x)
        /\ UNCHANGED <<message_in, msg_age, pc, got>>
    BY <1>1, <2>1, <2>2 DEF SizeH
  <2>4. bytes_' = AsInt(n)
    BY <2>1, <2>3, FrameParts DEF n
  <2>5. checksum_' = AsInt(Total(SizeOf(f)))
    <3>1. Total(SizeOf(f)) = Lo(n) + Hi(n) /\ Lo(n) \in Nat
      BY TheSize, FrameParts, Bases DEF n
    <3>2. Sum(x) = AsInt(Lo(n) + x)
      BY <1>2, <2>1, <3>1, SumsOn, Zenon
    <3> QED
      BY <2>1, <2>3, <3>1, <3>2
  <2>6. Parsed(f, p + 1)'
    BY <1>7, <2>1, <2>3, <2>4, <2>5 DEF Parsed, n
  <2> QED
    BY <1>0, <1>7, <2>3, <2>6 DEF ReadOn, n
<1>8. CASE p = 4
  <2>1. /\ mode_ = "size_checksum" /\ x = Checksum(SizeOf(f)) /\ message_in = <<>> /\ bytes_ = AsInt(n)
        /\ checksum_ = AsInt(Total(SizeOf(f)))
    BY <1>0, <1>3, <1>8 DEF Parsed, n
  <2>2. SizeChecksum
    BY <2>1, <1>1 DEF Read, FirstFF, ProtocolVer, SizeL, SizeH, TopicL, TopicH, Message,
       MsgChecksum
  <2>3. Matches(Sum(x))
    <3>1. Total(SizeOf(f)) \in Nat
      BY TheSize
    <3>2. Sum(x) = AsInt(Total(SizeOf(f)) + x)
      BY <1>2, <2>1, <3>1, SumsOn, Zenon
    <3> QED
      BY <2>1, <3>2, SizeMatches
  <2>4. mode_' = "topic_l" /\ UNCHANGED <<bytes_, message_in, msg_age, pc, got>>
    BY <1>1, <2>1, <2>2, <2>3 DEF SizeChecksum
  <2>5. Parsed(f, p + 1)'
    BY <1>8, <2>1, <2>4 DEF Parsed, n
  <2> QED
    BY <1>0, <1>8, <2>4, <2>5 DEF ReadOn, n
<1>9. CASE p = 5
  <2>1. mode_ = "topic_l" /\ x = Lo(f.topic) /\ message_in = <<>> /\ bytes_ = AsInt(n)
    <3>1. 1 \in 1 .. n + 2 /\ 1 + 5 = 6
      BY <1>0
    <3>2. BytesOf(f)[6] = Body(f)[1]
      BY <1>3, <3>1
    <3> QED
      BY <1>0, <1>9, <3>2, TheBody DEF Parsed, n
  <2>2. TopicL
    BY <2>1, <1>1 DEF Read, FirstFF, ProtocolVer, SizeL, SizeH, SizeChecksum, TopicH, Message,
       MsgChecksum
  <2>3. /\ mode_' = "topic_h" /\ topic_' = x /\ checksum_' = x
        /\ UNCHANGED <<bytes_, message_in, msg_age, pc, got>>
    BY <1>1, <2>1, <2>2 DEF TopicL
  <2>4. Part(f, 1) = x /\ AsInt(x) = x
    BY <1>2, <2>1, Parts, ByteWraps
  <2>5. Parsed(f, p + 1)'
    BY <1>9, <2>1, <2>3, <2>4 DEF Parsed, n
  <2> QED
    BY <1>0, <1>9, <2>3, <2>5 DEF ReadOn, n
<1>10. CASE p = 6
  <2>1. /\ mode_ = "topic_h" /\ x = Hi(f.topic) /\ message_in = <<>> /\ bytes_ = AsInt(n)
        /\ topic_ = Lo(f.topic) /\ checksum_ = AsInt(Part(f, 1)) /\ x = Body(f)[2]
    <3>1. 2 \in 1 .. n + 2 /\ 2 + 5 = 7
      BY <1>0
    <3>2. BytesOf(f)[7] = Body(f)[2]
      BY <1>3, <3>1
    <3> QED
      BY <1>0, <1>10, <3>2, TheBody DEF Parsed, n
  <2>2. TopicH
    BY <2>1, <1>1 DEF Read, FirstFF, ProtocolVer, SizeL, SizeH, SizeChecksum, TopicL, Message,
       MsgChecksum
  <2>3. /\ mode_' = IF bytes_ = 0 THEN "msg_checksum" ELSE "message"
        /\ topic_' = AsInt(topic_ + Base * x) /\ checksum_' = Sum(x)
        /\ UNCHANGED <<bytes_, message_in, msg_age, pc, got>>
    BY <1>1, <2>1, <2>2 DEF TopicH
  <2>4. topic_' = f.topic
    <3>1. topic_ + Base * x = f.topic /\ f.topic \in 0 .. IntMax
      BY <2>1, FrameParts
    <3> QED
      BY <2>3, <3>1, SmallWraps
  <2>5. checksum_' = AsInt(Part(f, 2))
    <3>1. 1 \in 0 .. n + 1 /\ 1 + 1 = 2
      BY <1>0
    <3>2. Part(f, 1) \in Nat /\ Part(f, 2) = Part(f, 1) + x
      BY <2>1, <3>1, Parts DEF n
    <3>3. Sum(x) = AsInt(Part(f, 1) + x)
      BY <1>2, <2>1, <3>2, SumsOn, Zenon
    <3> QED
      BY <2>3, <3>2, <3>3
  <2>6. SubSeq(f.msg, 1, 0) = <<>>
    BY SubSeqEmpty
  <2>7. Parsed(f, 7)'
    <3>1. bytes_' = AsInt(n) /\ (AsInt(n) = 0 <=> n = 0) /\ n + 7 - 7 = n /\ (7 = n + 7 <=> n = 0)
      BY <1>0, <1>c, <2>1, <2>3
    <3>2. mode_' = IF 7 = n + 7 THEN "msg_checksum" ELSE "message"
      BY <2>1, <2>3, <3>1
    <3>3. bytes_' = AsInt(n + 7 - 7) /\ message_in' = SubSeq(f.msg, 1, 7 - 7) /\ topic_' = f.topic
          /\ checksum_' = AsInt(Part(f, 7 - 5))
      BY <1>0, <2>1, <2>3, <2>4, <2>5, <2>6, <3>1
    <3> QED
      BY <3>2, <3>3 DEF Parsed, n
  <2>8. p + 1 = 7
    BY <1>10
  <2> QED
    BY <1>0, <1>10, <2>3, <2>7, <2>8 DEF ReadOn, n
<1>11. ASSUME p >= 7, p < n + 7 PROVE ReadOn(f, p)
  <2>1. /\ mode_ = "message" /\ message_in = SubSeq(f.msg, 1, p - 7) /\ bytes_ = AsInt(n + 7 - p)
        /\ topic_ = f.topic /\ checksum_ = AsInt(Part(f, p - 5))
    BY <1>0, <1>11 DEF Parsed, n
  <2>2. x = f.msg[p - 6] /\ x = Body(f)[p - 4]
    <3>1. /\ p - 4 \in 1 .. n + 2 /\ p - 4 + 5 = p + 1
          /\ p - 6 \in 1 .. n /\ p - 6 + 2 = p - 4
      BY <1>0, <1>11
    <3>2. BytesOf(f)[p + 1] = Body(f)[p - 4]
      BY <1>3, <3>1
    <3>3. Body(f)[p - 4] = f.msg[p - 6]
      BY <3>1, TheBody DEF n
    <3> QED
      BY <1>0, <3>2, <3>3
  <2>3. Message
    BY <2>1, <1>1 DEF Read, FirstFF, ProtocolVer, SizeL, SizeH, SizeChecksum, TopicL, TopicH,
       MsgChecksum
  <2>4. /\ mode_' = IF bytes_ = 1 THEN "msg_checksum" ELSE "message"
        /\ message_in' = Append(message_in, x) /\ bytes_' = AsInt(bytes_ - 1)
        /\ checksum_' = Sum(x) /\ UNCHANGED <<topic_, msg_age, got>>
        /\ pc' = pc \/ (pc' = "astray" /\ ~(Len(message_in) < InputSize))
    BY <1>1, <2>1, <2>3 DEF Message
  <2>5. message_in' = SubSeq(f.msg, 1, p + 1 - 7)
    <3>1. p - 7 \in 0 .. n - 1 /\ p - 7 + 1 = p - 6 /\ p + 1 - 7 = p - 6
      BY <1>0, <1>11
    <3>2. SubSeq(f.msg, 1, p - 7 + 1) = Append(SubSeq(f.msg, 1, p - 7), f.msg[p - 7 + 1])
      BY <3>1, FrameParts, OneMore DEF n
    <3> QED
      BY <2>1, <2>2, <2>4, <3>1, <3>2
  <2>6. checksum_' = AsInt(Part(f, p + 1 - 5))
    <3>1. p - 5 \in 0 .. n + 1 /\ p - 5 + 1 = p - 4 /\ p + 1 - 5 = p - 4
      BY <1>0, <1>11
    <3>2. Part(f, p - 5) \in Nat /\ Part(f, p - 4) = Part(f, p - 5) + x
      BY <2>2, <3>1, Parts DEF n
    <3>3. Sum(x) = AsInt(Part(f, p - 5) + x)
      BY <1>2, <2>1, <3>2, SumsOn, Zenon
    <3> QED
      BY <2>4, <3>1, <3>2, <3>3
  <2>7. bytes_' = AsInt(n + 7 - (p + 1)) /\ p + 1 >= 7 /\ topic_' = f.topic
        /\ mode_' = IF p + 1 = n + 7 THEN "msg_checksum" ELSE "message"
    <3>1. n + 7 - p \in 0 .. n /\ n + 7 - p \in Int /\ -1 \in Int
          /\ n + 7 - p + (-1) = n + 7 - (p + 1) /\ (n + 7 - p = 1 <=> p + 1 = n + 7)
          /\ AsInt(n + 7 - p) + (-1) = AsInt(n + 7 - p) - 1
      BY <1>0, <1>11, <2>1
    <3>2. AsInt(n + 7 - p) = 1 <=> p + 1 = n + 7
      BY <1>c, <3>1
    <3>3. AsInt(AsInt(n + 7 - p) + (-1)) = AsInt(n + 7 - p + (-1))
      BY <3>1, WrapsOnce
    <3> QED
      BY <1>0, <1>11, <2>1, <2>4, <3>1, <3>2, <3>3
  <2>9. pc' = pc \/ (pc' = "astray" /\ n > InputSize)
    <3>1. Len(message_in) = p - 7
      <4>1. p - 7 \in 0 .. n
        BY <1>0, <1>11
      <4>2. f.msg \in Seq(Byte)
        BY FrameParts
      <4>3. \A i \in 1 .. p - 7 : f.msg[i] \in Byte
        <5>1. \A i \in 1 .. p - 7 : i \in 1 .. Len(f.msg)
          BY <4>1 DEF n
        <5> QED
          BY <4>2, <5>1, ElementOfSeq
      <4>4. Len(SubSeq(f.msg, 1, p - 7)) = IF 1 <= p - 7 THEN p - 7 - 1 + 1 ELSE 0
        <5>1. p - 7 \in Int /\ 1 \in Int
          BY <1>0
        <5> QED
          BY <4>3, <5>1, SubSeqProperties
      <4> QED
        BY <1>0, <1>11, <2>1, <4>4
    <3> QED
      BY <1>0, <1>11, <2>4, <3>1
  <2>8. Parsed(f, p + 1)'
    BY <2>5, <2>6, <2>7 DEF Parsed, n
  <2> QED
    BY <1>0, <1>11, <2>4, <2>8, <2>9 DEF ReadOn, n
<1>12. CASE p = n + 7
  <2>1. /\ mode_ = "msg_checksum" /\ message_in = SubSeq(f.msg, 1, n)
        /\ topic_ = f.topic /\ checksum_ = AsInt(Part(f, n + 2))
    <3>1. p - 7 = n /\ p - 5 = n + 2 /\ p >= 7
      BY <1>0, <1>12
    <3> QED
      BY <1>12, <3>1 DEF Parsed, n
  <2>2. x = Checksum(Body(f)) /\ Part(f, n + 2) = Total(Body(f)) /\ Total(Body(f)) \in Nat
    BY <1>0, <1>3, <1>12, Parts, TheBody DEF n
  <2>3. message_in = f.msg
    BY <2>1, FrameParts, SubSeqFull DEF n
  <2>4. Sum(x) = AsInt(Total(Body(f)) + x)
    <3>1. checksum_ = AsInt(Total(Body(f)))
      BY <2>1, <2>2
    <3> QED
      BY <1>2, <2>2, <3>1, SumsOn, Zenon
  <2>5. Matches(Sum(x)) <=> Summable(f)
    BY <2>2, <2>4, MessageMatches
  <2>6. MsgChecksum
    BY <2>1, <1>1 DEF Read, FirstFF, ProtocolVer, SizeL, SizeH, SizeChecksum, TopicL, TopicH,
       Message
  <2>7. /\ mode_' = "first_ff" /\ msg_age' = msg_age
        /\ IF Matches(Sum(x)) THEN got' = Append(got, [topic |-> topic_, msg |-> message_in])
           ELSE got' = got
        /\ pc' # "astray"
    <3>1. topic_ \in Known
      BY <2>1, FrameParts
    <3>2. PICK data \in Byte :
            /\ Reads("msg_checksum", data, "first_ff")
            /\ Matches(Sum(data)) =>
                 /\ got' = Append(got, [topic |-> topic_, msg |-> message_in])
                 /\ pc' = IF topic_ = ID_PUBLISHER THEN "loop" ELSE pc
            /\ ~Matches(Sum(data)) => got' = got /\ pc' = pc
            /\ msg_age' = msg_age
      BY <2>6, <3>1 DEF MsgChecksum
    <3>3. data = x /\ pc = "spin" /\ mode_' = "first_ff"
      BY <1>1, <3>2 DEF Reads
    <3> QED
      BY <3>2, <3>3
  <2>8. [topic |-> topic_, msg |-> message_in] = f
    BY <2>1, <2>3, FrameParts
  <2>9. got' = IF Summable(f) THEN Append(got, f) ELSE got
    BY <2>5, <2>7, <2>8
  <2> QED
    BY <1>0, <1>12, <2>7, <2>9 DEF ReadOn, n
<1> QED
  <2>1. \/ p = 0 \/ p = 1 \/ p = 2 \/ p = 3 \/ p = 4 \/ p = 5 \/ p = 6
        \/ (p >= 7 /\ p < n + 7) \/ p = n + 7
    BY <1>0 DEF n
  <2> QED
    BY <2>1, <1>4, <1>5, <1>6, <1>7, <1>8, <1>9, <1>10, <1>11, <1>12

-----------------------------------------------------------------------------
(* Where the frames are on the line, whose bytes not yet read are line and *)
(* then wire: the last byte of frame i is the e[i]-th of them, has been    *)
(* read when e[i] <= 0.  Only frames after the b-th are spoken of.         *)

At(i) == IF i <= Len(line) THEN line[i] ELSE wire[i - Len(line)]

Laid(b, e) ==
  /\ e \in [b .. Len(sent) -> Int]
  /\ \A i \in b + 1 .. Len(sent) : e[i] = e[i - 1] + LengthOf(sent[i])
  /\ \A i \in b .. Len(sent), j \in b .. Len(sent) : i <= j => e[i] <= e[j]
  /\ \A i \in b + 1 .. Len(sent) : \A j \in 1 .. LengthOf(sent[i]) :
       e[i - 1] + j >= 1 => At(e[i - 1] + j) = BytesOf(sent[i])[j]
  /\ e[Len(sent)] = Len(line) + Len(wire)

(* k frames have been read to their end, and part of the next.             *)
Reached(k, e) ==
  /\ e[k] <= 0
  /\ k < Len(sent) => e[k + 1] >= 1 /\ Parsed(sent[k + 1], 0 - e[k])
  /\ k = Len(sent) => mode_ = "first_ff"

(* The frame being read is not old: while part of it is on the wire it is  *)
(* no older than that, and spinOnce() reads it up before it returns.       *)
InTime(k, e) ==
  mode_ # "first_ff" =>
    /\ pc = "loop" => msg_age <= FrameTime + SpinGap + spin_age
    /\ k < Len(sent) /\ e[k + 1] > Len(line) => msg_age <= wire_age + SpinGap

Core(b, k, e) ==
  /\ b \in 0 .. Len(sent) /\ k \in b .. Len(sent)
  /\ Laid(b, e) /\ Reached(k, e) /\ InTime(k, e)

LEMMA Frames ==
  ASSUME TypeInv
  PROVE  /\ Len(sent) \in Nat /\ Len(line) \in Nat /\ Len(wire) \in Nat
         /\ \A i \in 1 .. Len(sent) :
              sent[i] \in FrameSet /\ LengthOf(sent[i]) \in Nat /\ LengthOf(sent[i]) >= 8
<1>1. sent \in Seq(FrameSet) /\ line \in Seq(Byte) /\ wire \in Seq(Byte)
  BY DEF TypeInv, TypeOK
<1>2. Len(sent) \in Nat /\ Len(line) \in Nat /\ Len(wire) \in Nat
  BY <1>1, LenProperties
<1>3. \A i \in 1 .. Len(sent) : sent[i] \in FrameSet
  BY <1>1, ElementOfSeq
<1> QED
  BY <1>2, <1>3, TheBytes

(* A frame is laid behind the others.                                      *)
LEMMA TransmitLays ==
  ASSUME TypeInv, NEW f \in FrameSet, Transmit(f.topic, f.msg), NEW b, NEW e,
         b \in 0 .. Len(sent), Laid(b, e)
  PROVE  /\ sent' = Append(sent, f) /\ Len(sent') = Len(sent) + 1
         /\ sent'[Len(sent) + 1] = f /\ \A i \in 1 .. Len(sent) : sent'[i] = sent[i]
         /\ e[Len(sent)] = Len(line)
         /\ \E h : /\ Laid(b, h)' /\ h[Len(sent) + 1] = Len(line) + LengthOf(f)
                   /\ \A i \in b .. Len(sent) : h[i] = e[i]
<1> DEFINE n == Len(sent)
           l == Len(line)
           w == LengthOf(f)
<1>1. n \in Nat /\ l \in Nat /\ b \in Nat /\ b <= n
      /\ \A i \in 1 .. n : LengthOf(sent[i]) \in Nat /\ LengthOf(sent[i]) >= 8
  BY Frames
<1>2. sent' = Append(sent, f) /\ wire = <<>> /\ wire' = BytesOf(f) /\ line' = line
  BY FrameParts DEF Transmit, BytesOf
<1>3. Len(sent') = n + 1 /\ sent'[n + 1] = f /\ \A i \in 1 .. n : sent'[i] = sent[i]
  BY <1>2, AppendProperties DEF TypeInv
<1>4. Len(wire) = 0 /\ Len(wire') = w /\ w \in Nat /\ w >= 8 /\ Len(line') = l
  BY <1>2, TheBytes
<1>5. /\ e \in [b .. n -> Int] /\ e[n] = l
      /\ \A i \in b + 1 .. n : e[i] = e[i - 1] + LengthOf(sent[i])
      /\ \A i \in b .. n, j \in b .. n : i <= j => e[i] <= e[j]
  BY <1>1, <1>4 DEF Laid
<1>6. \A i \in b + 1 .. n : \A j \in 1 .. LengthOf(sent[i]) :
         e[i - 1] + j >= 1 => At(e[i - 1] + j) = BytesOf(sent[i])[j]
  BY DEF Laid
<1> HIDE DEF n, l, w
<1>7. PICK h : h = [i \in b .. n + 1 |-> IF i = n + 1 THEN l + w ELSE e[i]]
  OBVIOUS
<1>8. /\ h \in [b .. n + 1 -> Int] /\ h[n + 1] = l + w /\ \A i \in b .. n : h[i] = e[i]
  BY <1>1, <1>4, <1>5, <1>7
<1>9. \A i \in b + 1 .. n + 1 : h[i] = h[i - 1] + LengthOf(sent'[i])
  <2> SUFFICES ASSUME NEW i \in b + 1 .. n + 1 PROVE h[i] = h[i - 1] + LengthOf(sent'[i])
    OBVIOUS
  <2>1. CASE i = n + 1
    <3>1. i - 1 = n /\ n \in b .. n
      BY <1>1, <2>1
    <3> QED
      BY <1>3, <1>5, <1>8, <2>1, <3>1 DEF w
  <2>2. CASE i # n + 1
    <3>1. i \in b + 1 .. n /\ i - 1 \in b .. n /\ i \in b .. n /\ i \in 1 .. n
      BY <1>1, <2>2
    <3> QED
      BY <1>3, <1>5, <1>8, <3>1
  <2> QED
    BY <2>1, <2>2
<1>10. ASSUME NEW i \in b .. n + 1, NEW j \in b .. n + 1, i <= j PROVE h[i] <= h[j]
  <2>1. CASE j = n + 1
    <3>1. CASE i = n + 1
      BY <1>4, <1>8, <1>1, <2>1, <3>1
    <3>2. CASE i # n + 1
      <4>1. i \in b .. n /\ n \in b .. n /\ i <= n
        BY <1>1, <3>2
      <4> QED
        BY <1>1, <1>4, <1>5, <1>8, <2>1, <4>1
    <3> QED
      BY <3>1, <3>2
  <2>2. CASE j # n + 1
    <3>1. i \in b .. n /\ j \in b .. n
      BY <1>1, <1>10, <2>2
    <3> QED
      BY <1>5, <1>8, <1>10, <3>1
  <2> QED
    BY <2>1, <2>2
<1>11. ASSUME NEW i \in b + 1 .. n + 1, NEW j \in 1 .. LengthOf(sent'[i]), h[i - 1] + j >= 1
       PROVE  At(h[i - 1] + j)' = BytesOf(sent'[i])[j]
  <2>1. CASE i = n + 1
    <3>1. i - 1 = n /\ n \in b .. n /\ h[i - 1] = l /\ sent'[i] = f /\ j \in 1 .. w
      BY <1>1, <1>3, <1>5, <1>8, <2>1 DEF w
    <3>2. l \in Int /\ j \in Int /\ j >= 1
      BY <1>1, <1>4, <3>1
    <3>3. PICK m \in Int : m = l + j
      BY <3>2
    <3>4. m > l /\ m - l = j
      BY <3>2, <3>3
    <3>5. At(m)' = wire'[m - l]
      BY <1>4, <3>2, <3>4 DEF At
    <3> QED
      BY <1>2, <3>1, <3>3, <3>4, <3>5
  <2>2. CASE i # n + 1
    <3>1. i \in b + 1 .. n /\ i - 1 \in b .. n /\ i \in b .. n /\ i \in 1 .. n /\ n \in b .. n
          /\ i <= n
      BY <1>1, <2>2
    <3>2. sent'[i] = sent[i] /\ h[i - 1] = e[i - 1] /\ LengthOf(sent[i]) \in Nat
      BY <1>1, <1>3, <1>8, <3>1
    <3>3. At(e[i - 1] + j) = BytesOf(sent[i])[j]
      BY <1>6, <1>11, <3>1, <3>2
    <3>4. e[i - 1] + j <= l
      <4>1. e[i] = e[i - 1] + LengthOf(sent[i]) /\ e[i] <= e[n]
        BY <1>5, <3>1
      <4>2. e[i - 1] \in Int /\ e[i] \in Int /\ e[n] \in Int /\ e[n] = l
        BY <1>5, <3>1
      <4>3. j \in Nat /\ j <= LengthOf(sent[i])
        BY <3>2
      <4> QED
        BY <3>2, <4>1, <4>2, <4>3
    <3>5. PICK m : m = e[i - 1] + j
      OBVIOUS
    <3>6. At(m)' = line'[m] /\ At(m) = line[m]
      BY <1>4, <3>4, <3>5 DEF At, l
    <3> QED
      BY <1>2, <3>2, <3>3, <3>5, <3>6
  <2> QED
    BY <2>1, <2>2
<1>12. h[n + 1] = Len(line') + Len(wire')
  BY <1>4, <1>8
<1>13. Laid(b, h)'
  BY <1>3, <1>8, <1>9, <1>10, <1>11, <1>12 DEF Laid
<1> QED
  BY <1>2, <1>3, <1>5, <1>8, <1>13 DEF n, l, w

(* What a step makes of the frames: read on, or handle one that is due.    *)
Handles(k, m) ==
  \/ m = k /\ got' = got
  \/ /\ m = k + 1 /\ k < Len(sent)
     /\ got' = IF Summable(sent[k + 1]) THEN Append(got, sent[k + 1]) ELSE got

LEMMA TransmitCore ==
  ASSUME TypeInv, NEW f \in FrameSet, Transmit(f.topic, f.msg), NEW b, NEW k, NEW e,
         Core(b, k, e)
  PROVE  \E h : Core(b, k, h)' /\ Handles(k, k)
<1>1. /\ b \in 0 .. Len(sent) /\ k \in b .. Len(sent)
      /\ Laid(b, e) /\ Reached(k, e) /\ InTime(k, e)
  BY DEF Core
<1>2. /\ sent' = Append(sent, f) /\ Len(sent') = Len(sent) + 1
      /\ sent'[Len(sent) + 1] = f /\ \A i \in 1 .. Len(sent) : sent'[i] = sent[i]
      /\ e[Len(sent)] = Len(line)
  BY <1>1, TransmitLays
<1>3. PICK h : /\ Laid(b, h)' /\ h[Len(sent) + 1] = Len(line) + LengthOf(f)
               /\ \A i \in b .. Len(sent) : h[i] = e[i]
  BY <1>1, TransmitLays
<1>4. /\ UNCHANGED <<line, pc, spin_age, device, msg_age, got>> /\ UNCHANGED mode_
      /\ wire = <<>>
  BY DEF Transmit, device
<1>5. Len(sent) \in Nat /\ Len(line) \in Nat /\ LengthOf(f) >= 8 /\ LengthOf(f) \in Nat
  BY Frames, TheBytes
<1>6. h[k] = e[k] /\ k \in Nat /\ k < Len(sent')
  BY <1>1, <1>2, <1>3, <1>5
<1>7. CASE k < Len(sent)
  <2>1. k + 1 \in b .. Len(sent) /\ k + 1 \in 1 .. Len(sent)
    BY <1>1, <1>5, <1>7
  <2>2. h[k + 1] = e[k + 1] /\ sent'[k + 1] = sent[k + 1]
    BY <1>2, <1>3, <2>1
  <2>3. e[k] <= 0 /\ e[k + 1] >= 1 /\ Parsed(sent[k + 1], 0 - e[k])
    BY <1>1, <1>7 DEF Reached
  <2>4. PICK g, p : g = sent[k + 1] /\ p = 0 - e[k]
    OBVIOUS
  <2>5. Parsed(g, p)'
    BY <1>4, <2>3, <2>4 DEF Parsed, device
  <2>6. g = sent'[k + 1] /\ p = 0 - h[k]
    BY <1>6, <2>2, <2>4
  <2>7. Parsed(sent[k + 1], 0 - h[k])'
    BY <2>5, <2>6
  <2>8. Reached(k, h)'
    BY <1>6, <2>2, <2>3, <2>7 DEF Reached
  <2>9. h[k + 1] <= Len(line)
    <3>1. e[k + 1] <= e[Len(sent)]
      BY <1>1, <1>5, <2>1 DEF Laid
    <3> QED
      BY <1>2, <2>2, <3>1
  <2>10. InTime(k, h)'
    <3>1. ~(h[k + 1] > Len(line))
      <4>1. h[k + 1] \in Int
        BY <1>1, <2>1, <2>2 DEF Laid
      <4> QED
        BY <1>5, <2>9, <4>1
    <3> QED
      BY <1>1, <1>4, <3>1 DEF InTime
  <2> QED
    BY <1>1, <1>2, <1>3, <1>4, <1>5, <2>8, <2>10 DEF Core, Handles
<1>8. CASE k = Len(sent)
  <2>1. mode_ = "first_ff" /\ e[k] <= 0 /\ e[k] = 0
    BY <1>1, <1>2, <1>5, <1>8 DEF Reached
  <2>2. h[k + 1] >= 1 /\ sent'[k + 1] = f
    BY <1>2, <1>3, <1>5, <1>8
  <2>3. PICK p : p = 0 - h[k]
    OBVIOUS
  <2>4. p = 0
    BY <1>6, <2>1, <2>3
  <2>5. Parsed(f, p)'
    BY <1>4, <2>1, <2>4 DEF Parsed
  <2>6. Parsed(sent[k + 1], 0 - h[k])'
    BY <2>2, <2>3, <2>5
  <2>7. Reached(k, h)'
    BY <1>6, <2>1, <2>2, <2>6 DEF Reached
  <2>8. InTime(k, h)'
    BY <1>4, <2>1 DEF InTime
  <2> QED
    BY <1>1, <1>2, <1>3, <1>4, <1>5, <2>7, <2>8 DEF Core, Handles
<1> QED
  BY <1>1, <1>5, <1>7, <1>8

(* A byte moves from the wire to the line.                                 *)
LEMMA ArriveCore ==
  ASSUME TypeInv, Arrive, NEW b, NEW k, NEW e, Core(b, k, e)
  PROVE  Core(b, k, e)' /\ Handles(k, k)
<1>1. /\ b \in 0 .. Len(sent) /\ k \in b .. Len(sent)
      /\ Laid(b, e) /\ Reached(k, e) /\ InTime(k, e)
  BY DEF Core
<1>2. /\ wire # <<>> /\ wire' = Tail(wire) /\ line' = Append(line, Head(wire))
      /\ UNCHANGED <<wire_age, pc, spin_age, device, msg_age, sent, got>>
      /\ UNCHANGED <<mode_, bytes_, topic_, checksum_, message_in>>
  BY DEF Arrive, device
<1>3. /\ Len(sent) \in Nat /\ Len(line) \in Nat /\ Len(wire) \in Nat /\ Len(wire) > 0
      /\ Len(wire') = Len(wire) - 1 /\ Len(line') = Len(line) + 1
      /\ \A i \in 1 .. Len(line) : line'[i] = line[i]
      /\ line'[Len(line) + 1] = wire[1]
      /\ \A i \in 1 .. Len(wire) - 1 : wire'[i] = wire[i + 1]
  <2>1. wire \in Seq(Byte) /\ line \in Seq(Byte) /\ Len(wire) \in Nat \ {0}
    BY <1>2, EmptySeq DEF TypeInv, TypeOK
  <2>2. /\ Head(wire) = wire[1] /\ Head(wire) \in Byte /\ Len(Tail(wire)) = Len(wire) - 1
        /\ \A i \in 1 .. Len(Tail(wire)) : Tail(wire)[i] = wire[i + 1]
    BY <1>2, <2>1, HeadTailProperties
  <2>3. /\ Len(line') = Len(line) + 1 /\ line'[Len(line) + 1] = wire[1]
        /\ \A i \in 1 .. Len(line) : line'[i] = line[i]
    BY <1>2, <2>1, <2>2, AppendProperties
  <2> QED
    BY <1>2, <2>1, <2>2, <2>3, Frames
<1>4. ASSUME NEW m \in Int, m >= 1, m <= Len(line) + Len(wire) PROVE At(m)' = At(m)
  <2>1. CASE m <= Len(line)
    BY <1>3, <1>4, <2>1 DEF At
  <2>2. CASE m = Len(line) + 1
    <3>1. At(m)' = wire[1]
      BY <1>3, <2>2 DEF At
    <3>2. At(m) = wire[1]
      <4>1. m - Len(line) = 1 /\ ~(m <= Len(line))
        BY <1>3, <2>2
      <4> QED
        BY <4>1 DEF At
    <3> QED
      BY <3>1, <3>2
  <2>3. CASE m > Len(line) + 1
    <3> DEFINE i == m - Len(line) - 1
    <3>1. i \in 1 .. Len(wire) - 1 /\ i + 1 = m - Len(line) /\ m - Len(line') = i
          /\ ~(m <= Len(line)) /\ ~(m <= Len(line'))
      BY <1>3, <1>4, <2>3
    <3>2. At(m)' = wire'[m - Len(line')]
      BY <3>1 DEF At
    <3>3. At(m) = wire[m - Len(line)]
      BY <3>1 DEF At
    <3> HIDE DEF i
    <3>4. wire'[i] = wire[i + 1]
      BY <1>3, <3>1
    <3> QED
      BY <3>1, <3>2, <3>3, <3>4
  <2> QED
    BY <1>3, <2>1, <2>2, <2>3
<1>5. Laid(b, e)'
  <2>1. /\ e \in [b .. Len(sent) -> Int] /\ e[Len(sent)] = Len(line') + Len(wire')
        /\ \A i \in b + 1 .. Len(sent) : e[i] = e[i - 1] + LengthOf(sent[i])
        /\ \A i \in b .. Len(sent), j \in b .. Len(sent) : i <= j => e[i] <= e[j]
    BY <1>1, <1>3 DEF Laid
  <2>2. ASSUME NEW i \in b + 1 .. Len(sent), NEW j \in 1 .. LengthOf(sent[i]), e[i - 1] + j >= 1
        PROVE  At(e[i - 1] + j)' = BytesOf(sent[i])[j]
    <3>1. At(e[i - 1] + j) = BytesOf(sent[i])[j]
      BY <1>1, <2>2 DEF Laid
    <3>2. /\ i - 1 \in b .. Len(sent) /\ i \in b .. Len(sent) /\ i \in 1 .. Len(sent)
          /\ Len(sent) \in b .. Len(sent) /\ i <= Len(sent)
      BY <1>1, <1>3
    <3>3. e[i] <= e[Len(sent)] /\ e[i] = e[i - 1] + LengthOf(sent[i])
          /\ e[i - 1] \in Int /\ LengthOf(sent[i]) \in Nat
      BY <2>1, <3>2, Frames
    <3>4. PICK m \in Int : m = e[i - 1] + j
      BY <3>3
    <3>5. m >= 1 /\ m <= Len(line) + Len(wire)
      BY <1>3, <2>1, <2>2, <3>3, <3>4
    <3>6. At(m)' = At(m)
      BY <1>4, <3>5
    <3> QED
      BY <3>1, <3>4, <3>6
  <2> QED
    BY <1>2, <2>1, <2>2 DEF Laid
<1>6. Reached(k, e)'
  BY <1>1, <1>2 DEF Reached, Parsed
<1>7. InTime(k, e)'
  <2>1. ASSUME k < Len(sent) PROVE e[k + 1] \in Int
    <3>1. k + 1 \in b .. Len(sent)
      BY <1>1, <1>3, <2>1
    <3> QED
      BY <1>1, <3>1 DEF Laid
  <2> QED
    BY <1>1, <1>2, <1>3, <2>1 DEF InTime
<1> QED
  BY <1>1, <1>2, <1>5, <1>6, <1>7 DEF Core, Handles

(* Time passes: part of the frame being read is still on the wire, which   *)
(* ages with it, or spinOnce() has not been called for as long.            *)
LEMMA TickCore ==
  ASSUME TypeInv, Tick, NEW b, NEW k, NEW e, Core(b, k, e)
  PROVE  Core(b, k, e)' /\ Handles(k, k)
<1>1. /\ b \in 0 .. Len(sent) /\ k \in b .. Len(sent)
      /\ Laid(b, e) /\ Reached(k, e) /\ InTime(k, e)
  BY DEF Core
<1>2. /\ UNCHANGED <<wire, line, pc, device, sent, got>>
      /\ UNCHANGED <<mode_, bytes_, topic_, checksum_, message_in>>
      /\ spin_age' = spin_age + 1 /\ msg_age' = Older(msg_age, MSG_TIMEOUT + 1)
      /\ wire_age' = IF wire = <<>> THEN wire_age ELSE wire_age + 1
  BY DEF Tick, device
<1>3. /\ spin_age \in Nat /\ msg_age \in Nat /\ wire_age \in Nat
      /\ Len(sent) \in Nat /\ Len(line) \in Nat /\ Constants
  BY ConstantsTypes, Frames DEF TypeInv, TypeOK, Constants
<1>4. msg_age' <= msg_age + 1 /\ msg_age' \in Nat
  BY <1>2, <1>3 DEF Older, Constants
<1>5. Laid(b, e)'
  BY <1>1, <1>2 DEF Laid, At
<1>6. Reached(k, e)'
  BY <1>1, <1>2 DEF Reached, Parsed
<1>7. InTime(k, e)'
  <2> SUFFICES ASSUME mode_ # "first_ff"
               PROVE  /\ pc = "loop" => msg_age' <= FrameTime + SpinGap + spin_age'
                      /\ k < Len(sent) /\ e[k + 1] > Len(line) => msg_age' <= wire_age' + SpinGap
    BY <1>2 DEF InTime
  <2>1. ASSUME pc = "loop" PROVE msg_age' <= FrameTime + SpinGap + spin_age'
    BY <1>1, <1>2, <1>3, <1>4, <2>1 DEF InTime, Constants
  <2>2. ASSUME k < Len(sent), e[k + 1] > Len(line) PROVE msg_age' <= wire_age' + SpinGap
    <3>1. wire # <<>>
      <4>1. k + 1 \in b .. Len(sent) /\ Len(sent) \in b .. Len(sent) /\ k + 1 <= Len(sent)
        BY <1>1, <1>3, <2>2
      <4>2. e[k + 1] <= e[Len(sent)] /\ e[Len(sent)] = Len(line) + Len(wire)
            /\ e[k + 1] \in Int
        BY <1>1, <4>1 DEF Laid
      <4>3. wire = <<>> => Len(wire) = 0
        OBVIOUS
      <4> QED
        BY <1>3, <2>2, <4>2, <4>3
    <3> QED
      BY <1>1, <1>2, <1>3, <1>4, <2>2, <3>1 DEF InTime, Constants
  <2> QED
    BY <2>1, <2>2
<1> QED
  BY <1>1, <1>2, <1>5, <1>6, <1>7 DEF Core, Handles

(* spinOnce() finds no frame that is too old.                              *)
LEMMA spinOnceCore ==
  ASSUME TypeInv, Fast, spinOnce, NEW b, NEW k, NEW e, Core(b, k, e)
  PROVE  Core(b, k, e)' /\ Handles(k, k)
<1>1. /\ b \in 0 .. Len(sent) /\ k \in b .. Len(sent)
      /\ Laid(b, e) /\ Reached(k, e) /\ InTime(k, e)
  BY DEF Core
<1>2. mode_ # "first_ff" => msg_age <= MSG_TIMEOUT
  <2>1. /\ spin_age \in Nat /\ spin_age <= SpinGap /\ msg_age \in Nat /\ Constants
    BY ConstantsTypes DEF TypeInv, TypeOK, Constants
  <2>2. mode_ # "first_ff" => msg_age <= FrameTime + SpinGap + spin_age
    BY <1>1 DEF InTime, spinOnce
  <2> QED
    BY <2>1, <2>2 DEF Fast, Constants
<1>3. /\ UNCHANGED <<wire, wire_age, line, sent, got, msg_age>> /\ pc' = "spin"
      /\ UNCHANGED <<bytes_, topic_, checksum_, message_in>>
      /\ UNCHANGED mode_
  <2>1. msg_age \in Nat /\ MSG_TIMEOUT \in Nat
    BY ConstantsTypes DEF TypeInv, TypeOK, Constants
  <2>2. ~(mode_ # "first_ff" /\ msg_age > MSG_TIMEOUT)
    BY <1>2, <2>1
  <2> QED
    BY <2>2 DEF spinOnce
<1>4. Laid(b, e)'
  BY <1>1, <1>3 DEF Laid, At
<1>5. Reached(k, e)'
  BY <1>1, <1>3 DEF Reached, Parsed
<1>6. InTime(k, e)'
  BY <1>1, <1>3 DEF InTime
<1> QED
  BY <1>1, <1>3, <1>4, <1>5, <1>6 DEF Core, Handles

(* spinOnce() returns with what it has read: if a frame is cut, its end is *)
(* on the wire.                                                            *)
LEMMA NoMoreDataCore ==
  ASSUME TypeInv, NoMoreData, NEW b, NEW k, NEW e, Core(b, k, e)
  PROVE  Core(b, k, e)' /\ Handles(k, k)
<1>1. /\ b \in 0 .. Len(sent) /\ k \in b .. Len(sent)
      /\ Laid(b, e) /\ Reached(k, e) /\ InTime(k, e)
  BY DEF Core
<1>2. /\ UNCHANGED <<wire, wire_age, line, spin_age, sent, got, msg_age>> /\ line = <<>>
      /\ UNCHANGED <<mode_, bytes_, topic_, checksum_, message_in>>
  BY DEF NoMoreData, device
<1>3. Laid(b, e)'
  BY <1>1, <1>2 DEF Laid, At
<1>4. Reached(k, e)'
  BY <1>1, <1>2 DEF Reached, Parsed
<1>5. InTime(k, e)'
  <2> SUFFICES ASSUME mode_ # "first_ff"
               PROVE  /\ msg_age <= FrameTime + SpinGap + spin_age
                      /\ k < Len(sent) /\ e[k + 1] > Len(line) => msg_age <= wire_age + SpinGap
    BY <1>2 DEF InTime
  <2>1. k < Len(sent) /\ e[k + 1] > Len(line)
    <3>1. k # Len(sent) /\ Len(sent) \in Nat /\ Len(line) = 0
      BY <1>1, <1>2 , Frames DEF Reached
    <3>2. k < Len(sent) /\ k + 1 \in b .. Len(sent)
      BY <1>1, <3>1
    <3>3. e[k + 1] >= 1 /\ e[k + 1] \in Int
      BY <1>1, <3>2 DEF Reached, Laid
    <3> QED
      BY <3>1, <3>2, <3>3
  <2>2. msg_age <= wire_age + SpinGap
    BY <1>1, <2>1 DEF InTime
  <2>3. /\ wire_age \in Nat /\ wire_age <= FrameTime /\ spin_age \in Nat /\ msg_age \in Nat
        /\ Constants
    BY ConstantsTypes DEF TypeInv, TypeOK, Constants
  <2> QED
    BY <2>2, <2>3 DEF Constants
<1> QED
  BY <1>1, <1>2, <1>3, <1>4, <1>5 DEF Core, Handles

LEMMA StutterCore ==
  ASSUME Still, NEW b, NEW k, NEW e, Core(b, k, e)
  PROVE  Core(b, k, e)' /\ Handles(k, k)
<1>1. /\ UNCHANGED <<wire, wire_age, line, pc, spin_age, sent, got, msg_age>>
      /\ UNCHANGED <<mode_, bytes_, topic_, checksum_, message_in>>
  BY DEF Still, device
<1>2. Laid(b, e)' <=> Laid(b, e)
  BY <1>1 DEF Laid, At
<1>3. Reached(k, e)' <=> Reached(k, e)
  BY <1>1 DEF Reached, Parsed
<1>4. InTime(k, e)' <=> InTime(k, e)
  BY <1>1 DEF InTime
<1> QED
  BY <1>1, <1>2, <1>3, <1>4 DEF Core, Handles

(* A byte is read, the next of the frame being read: all move up by one.   *)
LEMMA ReadLays ==
  ASSUME TypeInv, Read, NEW b, NEW e, b \in 0 .. Len(sent), Laid(b, e)
  PROVE  \E h : Laid(b, h)' /\ \A i \in b .. Len(sent) : h[i] = e[i] - 1 /\ h[i] \in Int
<1>1. \E mode, data, next : Reads(mode, data, next)
  BY DEF Read, FirstFF, ProtocolVer, SizeL, SizeH, SizeChecksum, TopicL, TopicH, Message,
     MsgChecksum
<1>2. /\ Len(line') = Len(line) - 1 /\ Len(line) > 0
      /\ \A i \in 1 .. Len(line) - 1 : line'[i] = line[i + 1]
      /\ UNCHANGED <<wire, sent>>
  BY <1>1, ReadsOne
<1>3. Len(sent) \in Nat /\ Len(line) \in Nat /\ Len(wire) \in Nat
  BY Frames
<1>4. ASSUME NEW m \in Int, m >= 1 PROVE At(m)' = At(m + 1)
  <2>1. CASE m <= Len(line) - 1
    <3>1. m \in 1 .. Len(line) - 1 /\ m <= Len(line') /\ m + 1 <= Len(line)
      BY <1>2, <1>3, <1>4, <2>1
    <3> QED
      BY <1>2, <3>1 DEF At
  <2>2. CASE ~(m <= Len(line) - 1)
    <3>1. ~(m <= Len(line')) /\ ~(m + 1 <= Len(line)) /\ m - Len(line') = m + 1 - Len(line)
      BY <1>2, <1>3, <2>2
    <3>2. At(m)' = wire[m - Len(line')]
      BY <1>2, <3>1 DEF At
    <3>3. At(m + 1) = wire[m + 1 - Len(line)]
      BY <3>1 DEF At
    <3> QED
      BY <3>1, <3>2, <3>3
  <2> QED
    BY <2>1, <2>2
<1>5. PICK h : h = [i \in b .. Len(sent) |-> e[i] - 1]
  OBVIOUS
<1>6. /\ e \in [b .. Len(sent) -> Int] /\ e[Len(sent)] = Len(line) + Len(wire)
      /\ \A i \in b + 1 .. Len(sent) : e[i] = e[i - 1] + LengthOf(sent[i])
      /\ \A i \in b .. Len(sent), j \in b .. Len(sent) : i <= j => e[i] <= e[j]
  BY DEF Laid
<1>7. /\ h \in [b .. Len(sent) -> Int]
      /\ \A i \in b .. Len(sent) : h[i] = e[i] - 1 /\ h[i] \in Int /\ e[i] \in Int
  BY <1>5, <1>6
<1>8. \A i \in b + 1 .. Len(sent) :
        /\ i - 1 \in b .. Len(sent) /\ i \in b .. Len(sent) /\ i \in 1 .. Len(sent)
        /\ LengthOf(sent[i]) \in Nat /\ sent'[i] = sent[i]
  BY <1>2, <1>3, Frames
<1>9. \A i \in b + 1 .. Len(sent) : h[i] = h[i - 1] + LengthOf(sent'[i])
  <2> SUFFICES ASSUME NEW i \in b + 1 .. Len(sent) PROVE h[i] = h[i - 1] + LengthOf(sent'[i])
    OBVIOUS
  <2>1. h[i] = e[i] - 1 /\ h[i - 1] = e[i - 1] - 1 /\ e[i] \in Int /\ e[i - 1] \in Int
    BY <1>7, <1>8
  <2>2. e[i] = e[i - 1] + LengthOf(sent[i]) /\ LengthOf(sent[i]) \in Nat /\ sent'[i] = sent[i]
    BY <1>6, <1>8
  <2> QED
    BY <2>1, <2>2
<1>10. \A i \in b .. Len(sent), j \in b .. Len(sent) : i <= j => h[i] <= h[j]
  BY <1>6, <1>7
<1>11. h[Len(sent)] = Len(line') + Len(wire')
  <2>1. Len(sent) \in b .. Len(sent)
    BY <1>3
  <2> QED
    BY <1>2, <1>3, <1>6, <1>7, <2>1
<1>12. ASSUME NEW i \in b + 1 .. Len(sent), NEW j \in 1 .. LengthOf(sent[i]), h[i - 1] + j >= 1
       PROVE  At(h[i - 1] + j)' = BytesOf(sent[i])[j]
  <2>1. h[i - 1] = e[i - 1] - 1 /\ h[i - 1] \in Int /\ e[i - 1] \in Int /\ j \in Int
    BY <1>7, <1>8
  <2>2. PICK m \in Int : m = h[i - 1] + j
    BY <2>1
  <2>3. m >= 1 /\ e[i - 1] + j = m + 1 /\ e[i - 1] + j >= 1
    BY <1>12, <2>1, <2>2
  <2>4. At(e[i - 1] + j) = BytesOf(sent[i])[j]
    BY <2>3 DEF Laid
  <2>5. At(m)' = At(m + 1)
    BY <1>4, <2>3
  <2> QED
    BY <2>2, <2>3, <2>4, <2>5
<1>13. Laid(b, h)'
  BY <1>2, <1>7, <1>9, <1>10, <1>11, <1>12 DEF Laid
<1> QED
  BY <1>7, <1>13

LEMMA ReadCore ==
  ASSUME TypeInv, Read, NEW b, NEW k, NEW e, Core(b, k, e)
  PROVE  /\ \E m, h : Core(b, m, h)' /\ Handles(k, m)
         /\ pc' = "astray" => \E i \in 1 .. Len(sent) : Len(sent[i].msg) > InputSize
<1>1. /\ b \in 0 .. Len(sent) /\ k \in b .. Len(sent)
      /\ Laid(b, e) /\ Reached(k, e) /\ InTime(k, e)
  BY DEF Core
<1>2. \E mode, data, next : Reads(mode, data, next)
  BY DEF Read, FirstFF, ProtocolVer, SizeL, SizeH, SizeChecksum, TopicL, TopicH, Message,
     MsgChecksum
<1>3. /\ Len(line') = Len(line) - 1 /\ Len(line) > 0 /\ pc = "spin"
      /\ UNCHANGED <<wire, wire_age, spin_age, sent>>
  BY <1>2, ReadsOne
<1>4. PICK h : Laid(b, h)' /\ \A i \in b .. Len(sent) : h[i] = e[i] - 1 /\ h[i] \in Int
  BY <1>1, ReadLays
<1>5. /\ Len(sent) \in Nat /\ Len(line) \in Nat /\ Len(wire) \in Nat
      /\ \A i \in 1 .. Len(sent) :
           sent[i] \in FrameSet /\ LengthOf(sent[i]) \in Nat /\ LengthOf(sent[i]) >= 8
  BY Frames
<1>6. /\ e \in [b .. Len(sent) -> Int] /\ e[Len(sent)] = Len(line) + Len(wire)
      /\ \A i \in b + 1 .. Len(sent) : e[i] = e[i - 1] + LengthOf(sent[i])
      /\ e[k] <= 0
  BY <1>1 DEF Laid, Reached
<1>7. k < Len(sent)
  <2>1. k # Len(sent)
    BY <1>3, <1>5, <1>6
  <2> QED
    BY <1>1, <1>5, <2>1
<1>8. /\ k \in b .. Len(sent) /\ k + 1 \in b + 1 .. Len(sent) /\ k + 1 \in b .. Len(sent)
      /\ k + 1 \in 1 .. Len(sent) /\ k + 1 - 1 = k
  BY <1>1, <1>5, <1>7
<1>9. e[k + 1] >= 1 /\ Parsed(sent[k + 1], 0 - e[k])
  BY <1>1, <1>7 DEF Reached
<1>10. PICK g, q : g = sent[k + 1] /\ q = 0 - e[k]
  OBVIOUS
<1>11. /\ g \in FrameSet /\ Len(g.msg) \in Nat /\ LengthOf(g) = Len(g.msg) + 8
       /\ LengthOf(g) \in Nat
  BY <1>5, <1>8, <1>10, FrameParts DEF LengthOf
<1>12. /\ e[k + 1] = e[k] + LengthOf(g) /\ e[k + 1] \in Int /\ e[k] \in Int
       /\ h[k] = e[k] - 1 /\ h[k + 1] = e[k + 1] - 1
  BY <1>4, <1>6, <1>8, <1>10
<1>13. /\ q \in Int /\ e[k] = 0 - q /\ 0 - h[k] = q + 1
       /\ q \in 0 .. Len(g.msg) + 7 /\ e[k + 1] = Len(g.msg) + 8 - q
  <2>1. q \in Int /\ e[k] = 0 - q /\ 0 - h[k] = q + 1
    BY <1>10, <1>12
  <2>2. e[k + 1] = Len(g.msg) + 8 - q
    <3>1. PICK a, c, w : a = e[k] /\ c = e[k + 1] /\ w = Len(g.msg)
      OBVIOUS
    <3>2. a \in Int /\ w \in Nat /\ c = a + (w + 8) /\ a = 0 - q /\ q \in Int
      BY <1>11, <1>12, <2>1, <3>1
    <3>3. c = w + 8 - q
      BY <3>2
    <3> QED
      BY <3>1, <3>3
  <2>3. q >= 0 /\ Len(g.msg) + 8 - q >= 1
    BY <1>6, <1>9, <2>1, <2>2
  <2> QED
    BY <1>11, <2>1, <2>2, <2>3
<1>14. line[1] = BytesOf(g)[q + 1]
  <2>1. q + 1 \in 1 .. LengthOf(g) /\ e[k] + (q + 1) = 1
    BY <1>11, <1>13
  <2>2. At(e[k] + (q + 1)) = BytesOf(g)[q + 1]
    BY <1>1, <1>8, <1>10, <2>1 DEF Laid
  <2>3. At(1) = line[1]
    BY <1>3, <1>5 DEF At
  <2> QED
    BY <2>1, <2>2, <2>3
<1>15. Parsed(g, q)
  BY <1>9, <1>10
<1>16. ReadOn(g, q)
  BY <1>11, <1>13, <1>14, <1>15, ReadNext
<1>17. sent' = sent /\ sent'[k + 1] = g
  BY <1>3, <1>10
<1>18. msg_age' = IF q = 0 THEN spin_age ELSE msg_age
  BY <1>16 DEF ReadOn
<1>19. CASE q < Len(g.msg) + 7
  <2>1. /\ Parsed(g, q + 1)' /\ UNCHANGED got /\ pc' # "loop"
        /\ pc' = "astray" => Len(g.msg) > InputSize
    BY <1>3, <1>16, <1>19 DEF ReadOn
  <2>2. Parsed(sent[k + 1], 0 - h[k])'
    <3>1. PICK r : r = q + 1
      OBVIOUS
    <3>2. Parsed(g, r)' /\ g = sent'[k + 1] /\ r = 0 - h[k]
      BY <1>13, <1>17, <2>1, <3>1
    <3> QED
      BY <3>2
  <2>3. Reached(k, h)'
    <3>1. h[k] <= 0 /\ h[k + 1] >= 1 /\ k # Len(sent')
      <4>1. h[k] <= 0
        BY <1>6, <1>12
      <4>2. h[k + 1] >= 1
        <5>1. PICK w, c : w = Len(g.msg) /\ c = e[k + 1]
          OBVIOUS
        <5>2. w \in Nat /\ q \in Int /\ c = w + 8 - q /\ q < w + 7 /\ h[k + 1] = c - 1
          BY <1>11, <1>12, <1>13, <1>19, <5>1
        <5> QED
          BY <5>2
      <4>3. k # Len(sent')
        BY <1>1, <1>5, <1>7, <1>17
      <4> QED
        BY <4>1, <4>2, <4>3
    <3> QED
      BY <2>2, <3>1 DEF Reached
  <2>4. InTime(k, h)'
    <3> SUFFICES ASSUME h[k + 1] > Len(line') PROVE msg_age' <= wire_age + SpinGap
      BY <1>3, <2>1 DEF InTime
    <3>1. e[k + 1] > Len(line)
      BY <1>3, <1>5, <1>12
    <3>2. spin_age \in Nat /\ spin_age <= SpinGap /\ wire_age \in Nat /\ SpinGap \in Nat
      BY ConstantsTypes DEF TypeInv, TypeOK, Constants
    <3>3. CASE q = 0
      BY <1>18, <3>2, <3>3
    <3>4. CASE q # 0
      <4>1. mode_ # "first_ff"
        BY <1>13, <1>15, <3>4 DEF Parsed
      <4>2. msg_age <= wire_age + SpinGap
        BY <1>1, <1>7, <3>1, <4>1 DEF InTime
      <4> QED
        BY <1>18, <3>4, <4>2
    <3> QED
      BY <3>3, <3>4
  <2>5. pc' = "astray" => \E i \in 1 .. Len(sent) : Len(sent[i].msg) > InputSize
    BY <1>8, <1>10, <2>1
  <2> QED
    BY <1>1, <1>3, <1>4, <2>1, <2>3, <2>4, <2>5 DEF Core, Handles
<1>20. CASE q = Len(g.msg) + 7
  <2>1. /\ mode_' = "first_ff" /\ pc' # "astray"
        /\ got' = IF Summable(g) THEN Append(got, g) ELSE got
    BY <1>16, <1>20 DEF ReadOn
  <2>2. h[k + 1] = 0
    BY <1>11, <1>12, <1>13, <1>20
  <2>3. ASSUME k + 1 < Len(sent')
        PROVE  h[k + 1 + 1] >= 1 /\ Parsed(sent[k + 1 + 1], 0 - h[k + 1])'
    <3>1. k + 2 \in b + 1 .. Len(sent) /\ k + 2 \in b .. Len(sent) /\ k + 2 \in 1 .. Len(sent)
          /\ k + 2 - 1 = k + 1 /\ k + 1 + 1 = k + 2
      BY <1>1, <1>3, <1>5, <2>3
    <3>2. h[k + 2] = e[k + 2] - 1 /\ e[k + 2] = e[k + 1] + LengthOf(sent[k + 2])
          /\ LengthOf(sent[k + 2]) >= 8 /\ e[k + 2] \in Int /\ LengthOf(sent[k + 2]) \in Nat
      <4>1. h[k + 2] = e[k + 2] - 1
        BY <1>4, <3>1
      <4>2. e[k + 2] = e[k + 2 - 1] + LengthOf(sent[k + 2])
        <5>1. PICK i \in b + 1 .. Len(sent) : i = k + 2
          BY <3>1
        <5>2. e[i] = e[i - 1] + LengthOf(sent[i])
          BY <1>6
        <5> QED
          BY <1>1, <1>5, <5>1, <5>2
      <4>3. LengthOf(sent[k + 2]) >= 8 /\ LengthOf(sent[k + 2]) \in Nat /\ e[k + 2] \in Int
        BY <1>5, <1>6, <3>1
      <4> QED
        BY <3>1, <4>1, <4>2, <4>3
    <3>3. h[k + 2] >= 1
      BY <1>12, <2>2, <3>2
    <3>4. PICK x, r : x = sent'[k + 2] /\ r = 0 - h[k + 1]
      OBVIOUS
    <3>5. r = 0
      <4>1. 0 - h[k + 1] = 0
        BY <2>2
      <4> QED
        BY <3>4, <4>1
    <3>6. Parsed(x, r)'
      BY <2>1, <3>5 DEF Parsed
    <3>7. Parsed(sent[k + 2], 0 - h[k + 1])'
      BY <3>4, <3>6
    <3> QED
      BY <3>1, <3>3, <3>7
  <2>4. Reached(k + 1, h)'
    BY <2>1, <2>2, <2>3 DEF Reached
  <2>5. InTime(k + 1, h)'
    BY <2>1 DEF InTime
  <2>6. Core(b, k + 1, h)'
    BY <1>1, <1>3, <1>4, <1>8, <2>4, <2>5 DEF Core
  <2>7. Handles(k, k + 1)
    BY <1>7, <1>10, <2>1 DEF Handles
  <2> QED
    BY <2>1, <2>6, <2>7
<1> QED
  BY <1>11, <1>13, <1>19, <1>20

(* Without faults every step goes on with the frames.                      *)
LEMMA CoreNext ==
  ASSUME TypeInv, Fast, [Next]_vars, ~Fault, NEW b, NEW k, NEW e, Core(b, k, e)
  PROVE  \E m, h : Core(b, m, h)' /\ Handles(k, m)
<1>1. CASE \E f \in FrameSet : Transmit(f.topic, f.msg)
  BY <1>1, TransmitCore
<1>2. CASE Arrive
  BY <1>2, ArriveCore
<1>3. CASE Tick
  BY <1>3, TickCore
<1>4. CASE spinOnce
  BY <1>4, spinOnceCore
<1>5. CASE Read
  BY <1>5, ReadCore
<1>6. CASE NoMoreData
  BY <1>6, NoMoreDataCore
<1>7. CASE setSubscribeSize \/ UNCHANGED vars
  BY <1>7, SetStill, StutterCore
<1> QED
  BY <1>1, <1>2, <1>3, <1>4, <1>5, <1>6, <1>7, Steps

(* The frames a step leaves, and the one it may add.                       *)
LEMMA SentGrows ==
  ASSUME TypeInv, [Next]_vars
  PROVE  \/ sent' = sent
         \/ \E f \in FrameSet : sent' = Append(sent, f)
<1>1. ASSUME NEW f \in FrameSet, Transmit(f.topic, f.msg) PROVE sent' = Append(sent, f)
  BY <1>1, FrameParts DEF Transmit
<1>2. ASSUME Read PROVE sent' = sent
  <2>1. \E mode, data, next : Reads(mode, data, next)
    BY <1>2 DEF Read, FirstFF, ProtocolVer, SizeL, SizeH, SizeChecksum, TopicL, TopicH, Message,
       MsgChecksum
  <2> QED
    BY <2>1 DEF Reads
<1> QED
  BY <1>1, <1>2, Steps DEF Arrive, Fault, Tick, spinOnce, NoMoreData, setSubscribeSize, vars

-----------------------------------------------------------------------------
(* What is due.                                                            *)

LEMMA PrefixMeans ==
  ASSUME NEW S, NEW s \in Seq(S), NEW t \in Seq(S)
  PROVE  IsPrefix(s, t) <=> Len(s) <= Len(t) /\ \A i \in 1 .. Len(s) : s[i] = t[i]
<1>1. Len(s) \in Nat /\ Len(t) \in Nat /\ SubSeq(s, 1, Len(s)) = s
      /\ \A i \in 1 .. Len(s) : s[i] \in S /\ \A j \in 1 .. Len(t) : t[j] \in S
  BY LenProperties, ElementOfSeq, SubSeqFull
<1>2. ASSUME Len(s) <= Len(t)
      PROVE  s = SubSeq(t, 1, Len(s)) <=> \A i \in 1 .. Len(s) : s[i] = t[i]
  <2> DEFINE n == Len(s)
             u == SubSeq(t, 1, n)
  <2>0. n \in Nat
    BY <1>1
  <2>1. \A i \in 1 .. n : t[i] \in S
    BY <1>2, <2>0, LenProperties
  <2>2. /\ u \in Seq(S) /\ Len(u) = IF 1 <= n THEN n - 1 + 1 ELSE 0
        /\ \A i \in 1 .. n - 1 + 1 : u[i] = t[1 + i - 1]
    <3> HIDE DEF n
    <3> QED
      BY <2>0, <2>1, SubSeqProperties
  <2> HIDE DEF u
  <2>3. /\ u \in Seq(S) /\ Len(u) = n /\ \A i \in 1 .. n : u[i] = t[i]
    BY <2>0, <2>2
  <2>4. (\A i \in 1 .. n : s[i] = t[i]) => s = u
    <3>1. ASSUME \A i \in 1 .. n : s[i] = t[i] PROVE \A i \in 1 .. Len(s) : s[i] = u[i]
      BY <2>3, <3>1
    <3> QED
      BY <2>3, <3>1, SeqEqual
  <2>5. s = u => \A i \in 1 .. n : s[i] = t[i]
    BY <2>3
  <2> QED
    BY <2>4, <2>5 DEF u
<1> QED
  BY <1>1, <1>2 DEF IsPrefix

(* The frames due of the first of some are the first of those due.         *)
LEMMA DuePrefix ==
  ASSUME NEW S, NEW s \in Seq(S), NEW k \in 0 .. Len(s)
  PROVE  IsPrefix(Due(SubSeq(s, 1, k)), Due(s))
<1> DEFINE n == Len(s)
           D(j) == Due(SubSeq(s, 1, j))
           Prefix(a, c) == Len(a) <= Len(c) /\ \A i \in 1 .. Len(a) : a[i] = c[i]
           T == {d \in 0 .. n : ~Prefix(D(n - d), Due(s))}
<1>1. n \in Nat /\ SubSeq(s, 1, n) = s /\ D(n) = Due(s)
  BY LenProperties, SubSeqFull
<1>2. ASSUME NEW j \in 0 .. n - 1
      PROVE  D(j) \in Seq(S) /\ D(j + 1) \in Seq(S) /\ Prefix(D(j), D(j + 1))
  <2>1. /\ SubSeq(s, 1, j) \in Seq(S) /\ s[j + 1] \in S
        /\ SubSeq(s, 1, j + 1) = Append(SubSeq(s, 1, j), s[j + 1])
    BY <1>1, OneMore
  <2>2. /\ D(j) \in Seq(S)
        /\ D(j + 1) = IF Summable(s[j + 1]) THEN Append(D(j), s[j + 1]) ELSE D(j)
    <3>1. PICK t, x : t = SubSeq(s, 1, j) /\ x = s[j + 1]
      OBVIOUS
    <3>2. t \in Seq(S) /\ x \in S /\ D(j) = Due(t) /\ D(j + 1) = Due(Append(t, x))
      BY <2>1, <3>1
    <3> HIDE DEF D
    <3>3. Due(t) \in Seq(S) /\ Due(Append(t, x)) = IF Summable(x) THEN Append(Due(t), x) ELSE Due(t)
      BY <3>2, DueMore
    <3> QED
      BY <3>1, <3>2, <3>3, Zenon
  <2> HIDE DEF D
  <2>3. Len(D(j)) \in Nat
    BY <2>2, LenProperties
  <2>4. CASE Summable(s[j + 1])
    <3>1. /\ Append(D(j), s[j + 1]) \in Seq(S) /\ Len(Append(D(j), s[j + 1])) = Len(D(j)) + 1
          /\ \A i \in 1 .. Len(D(j)) : Append(D(j), s[j + 1])[i] = D(j)[i]
      BY <2>1, <2>2, AppendProperties
    <3>2. D(j + 1) = Append(D(j), s[j + 1])
      BY <2>2, <2>4, Zenon
    <3>3. Len(D(j)) <= Len(D(j + 1)) /\ \A i \in 1 .. Len(D(j)) : D(j)[i] = D(j + 1)[i]
      BY <2>3, <3>1, <3>2
    <3> QED
      BY <2>2, <3>1, <3>2, <3>3
  <2>5. CASE ~Summable(s[j + 1])
    BY <2>2, <2>3, <2>5
  <2> QED
    BY <2>4, <2>5
<1>3. \A j \in 0 .. n : D(j) \in Seq(S) /\ Len(D(j)) \in Nat
  <2> SUFFICES ASSUME NEW j \in 0 .. n PROVE D(j) \in Seq(S) /\ Len(D(j)) \in Nat
    OBVIOUS
  <2>1. D(j) \in Seq(S)
    <3>1. CASE j = n
      <4>1. Due(s) \in Seq(S)
        <5>1. CASE n = 0
          <6>1. s = <<>> /\ <<>> \in Seq(S)
            BY <5>1, EmptySeq
          <6>2. PICK f : DuesOf(S, s, f)
            BY DueIs, Zenon
          <6> QED
            BY <6>2, <1>1 DEF DuesOf
        <5>2. CASE n # 0
          <6>1. n - 1 \in 0 .. n - 1 /\ n - 1 + 1 = n
            BY <1>1, <5>2
          <6> HIDE DEF D, n
          <6>2. D(n - 1 + 1) \in Seq(S)
            BY <1>2, <6>1
          <6> QED
            BY <1>1, <6>1, <6>2
        <5> QED
          BY <5>1, <5>2
      <4> QED
        BY <1>1, <3>1, <4>1
    <3>2. CASE j # n
      <4>0. n \in Nat
        BY <1>1
      <4> HIDE DEF D, n
      <4>1. j \in 0 .. n - 1
        BY <3>2, <4>0
      <4> QED
        BY <1>2, <4>1
    <3> QED
      BY <3>1, <3>2
  <2> HIDE DEF D
  <2> QED
    BY <2>1, LenProperties
<1> HIDE DEF D
<1>4. T = {}
  <2> SUFFICES ASSUME T # {} PROVE FALSE
    OBVIOUS
  <2>0. T \subseteq Nat /\ T \subseteq 0 .. n
    OBVIOUS
  <2>1. PICK d \in T : \A c \in T : d <= c
    <3> HIDE DEF T
    <3> QED
      BY <2>0, Smallest
  <2>2. d \in 0 .. n /\ ~Prefix(D(n - d), Due(s))
    OBVIOUS
  <2>3. d # 0
    <3>1. Prefix(D(n), Due(s))
      <4>1. n \in 0 .. n
        BY <1>1
      <4> QED
        BY <1>1, <1>3, <4>1
    <3> QED
      BY <1>1, <2>2, <3>1
  <2>4. d - 1 \in 0 .. n /\ d - 1 \notin T /\ n - d \in 0 .. n - 1 /\ n - (d - 1) = n - d + 1
    <3>1. n \in Nat
      BY <1>1
    <3> HIDE DEF T, n
    <3>2. d \in Nat /\ d - 1 < d
      BY <2>2, <3>1
    <3>3. d - 1 \notin T
      BY <2>1, <3>2
    <3> QED
      BY <2>2, <2>3, <3>1, <3>3
  <2>5. Prefix(D(n - d + 1), Due(s))
    BY <2>4
  <2>6. Prefix(D(n - d), D(n - d + 1)) /\ Len(D(n - d)) \in Nat /\ Len(D(n - d + 1)) \in Nat
        /\ Len(Due(s)) \in Nat
    <3>1. n - d \in 0 .. n - 1 /\ n - d \in 0 .. n /\ n - d + 1 \in 0 .. n /\ n \in 0 .. n
      BY <1>1, <2>4
    <3> QED
      BY <1>1, <1>2, <1>3, <3>1
  <2>7. Prefix(D(n - d), Due(s))
    BY <2>5, <2>6
  <2> QED
    BY <2>2, <2>7
<1>5. Prefix(D(k), Due(s))
  <2>0. n \in Nat
    BY <1>1
  <2>1. n - k \in 0 .. n /\ n - (n - k) = k /\ n - k \notin T
    <3>1. n - k \in 0 .. n /\ n - (n - k) = k
      <4> HIDE DEF T
      <4> QED
        BY <2>0
    <3> HIDE DEF T
    <3> QED
      BY <1>4, <3>1
  <2> QED
    BY <2>1
<1>6. D(k) \in Seq(S) /\ Due(s) \in Seq(S)
  <2>1. n \in 0 .. n
    BY <1>1
  <2> QED
    BY <1>1, <1>3, <2>1
<1> QED
  BY <1>5, <1>6, PrefixMeans DEF D

-----------------------------------------------------------------------------
(* What is handled without faults.                                         *)

AllFit == \A i \in 1 .. Len(sent) : Len(sent[i].msg) <= InputSize

InOrderInv ==
  Fast /\ faults = 0 /\ ~unchecked =>
    /\ AllFit /\ pc # "astray"
    /\ \E k, e : Core(0, k, e) /\ got = Due(SubSeq(sent, 1, k))

LEMMA InOrderInit == ASSUME Init PROVE InOrderInv
<1>1. /\ sent = <<>> /\ got = <<>> /\ line = <<>> /\ wire = <<>> /\ mode_ = "first_ff"
      /\ Len(sent) = 0 /\ Len(line) = 0 /\ Len(wire) = 0
  BY DEF Init
<1>2. PICK e : e = [i \in 0 .. 0 |-> 0]
  OBVIOUS
<1>3. e \in [0 .. Len(sent) -> Int] /\ e[0] = 0
  BY <1>1, <1>2
<1>4. Laid(0, e)
  BY <1>1, <1>3 DEF Laid
<1>5. Reached(0, e) /\ InTime(0, e)
  BY <1>1, <1>3 DEF Reached, InTime
<1>6. Core(0, 0, e)
  BY <1>1, <1>4, <1>5 DEF Core
<1>7. got = Due(SubSeq(sent, 1, 0))
  <2>1. SubSeq(sent, 1, 0) = <<>>
    BY SubSeqEmpty
  <2>2. <<>> \in Seq({0})
    OBVIOUS
  <2>3. Due(<<>>) = <<>>
    BY <2>2, DueMore
  <2> QED
    BY <1>1, <2>1, <2>3
<1>8. AllFit /\ pc # "astray"
  BY <1>1 DEF AllFit, Init
<1> QED
  BY <1>6, <1>7, <1>8 DEF InOrderInv

(* The first frames stay the first.                                        *)
LEMMA FirstStay ==
  ASSUME TypeInv, [Next]_vars, NEW k, k \in 0 .. Len(sent)
  PROVE  SubSeq(sent', 1, k) = SubSeq(sent, 1, k) /\ Len(sent') >= Len(sent)
         /\ \A i \in 1 .. Len(sent) : sent'[i] = sent[i]
<1>1. CASE sent' = sent
  BY <1>1, Frames
<1>2. ASSUME NEW f \in FrameSet, sent' = Append(sent, f)
      PROVE  SubSeq(sent', 1, k) = SubSeq(sent, 1, k) /\ Len(sent') >= Len(sent)
             /\ \A i \in 1 .. Len(sent) : sent'[i] = sent[i]
  <2>1. sent \in Seq(FrameSet) /\ Len(sent) \in Nat
    BY Frames DEF TypeInv
  <2>2. /\ sent' \in Seq(FrameSet) /\ Len(sent') = Len(sent) + 1
        /\ \A i \in 1 .. Len(sent) : sent'[i] = sent[i]
    BY <1>2, <2>1, AppendProperties
  <2>3. /\ SubSeq(sent, 1, k) \in Seq(FrameSet) /\ Len(SubSeq(sent, 1, k)) = k
        /\ \A i \in 1 .. k : SubSeq(sent, 1, k)[i] = sent[i]
    <3>1. \A i \in 1 .. k : sent[i] \in FrameSet
      BY <2>1, Frames
    <3>2. /\ SubSeq(sent, 1, k) \in Seq(FrameSet)
          /\ Len(SubSeq(sent, 1, k)) = IF 1 <= k THEN k - 1 + 1 ELSE 0
          /\ \A i \in 1 .. k - 1 + 1 : SubSeq(sent, 1, k)[i] = sent[1 + i - 1]
      BY <3>1, SubSeqProperties
    <3>3. k \in Nat
      OBVIOUS
    <3> QED
      BY <3>2, <3>3
  <2>4. /\ SubSeq(sent', 1, k) \in Seq(FrameSet) /\ Len(SubSeq(sent', 1, k)) = k
        /\ \A i \in 1 .. k : SubSeq(sent', 1, k)[i] = sent'[i]
    <3>1. \A i \in 1 .. k : sent'[i] \in FrameSet
      BY <2>1, <2>2, Frames
    <3>2. /\ SubSeq(sent', 1, k) \in Seq(FrameSet)
          /\ Len(SubSeq(sent', 1, k)) = IF 1 <= k THEN k - 1 + 1 ELSE 0
          /\ \A i \in 1 .. k - 1 + 1 : SubSeq(sent', 1, k)[i] = sent'[1 + i - 1]
      BY <3>1, SubSeqProperties
    <3>3. k \in Nat
      OBVIOUS
    <3> QED
      BY <3>2, <3>3
  <2>5. \A i \in 1 .. k : SubSeq(sent', 1, k)[i] = SubSeq(sent, 1, k)[i]
    BY <2>1, <2>2, <2>3, <2>4
  <2>6. SubSeq(sent', 1, k) = SubSeq(sent, 1, k)
    BY <2>3, <2>4, <2>5, SeqEqual
  <2> QED
    BY <2>1, <2>2, <2>6
<1> QED
  BY <1>1, <1>2, SentGrows

(* As long as no message is sent unchecked, all fit.                       *)
LEMMA FitsOn ==
  ASSUME TypeInv, [Next]_vars, ~unchecked'
  PROVE  ~unchecked /\ (AllFit => AllFit')
<1>1. ASSUME NEW topic, NEW msg, Transmit(topic, msg), [topic |-> topic, msg |-> msg] \in FrameSet,
             ~(buffer_in > 0 /\ Len(msg) > buffer_in)
      PROVE  ~unchecked /\ (AllFit => AllFit')
  <2>1. ~unchecked /\ ~(buffer_in < 0 /\ Len(msg) > InputSize)
    BY <1>1 DEF Transmit
  <2>2. buffer_in = -1 \/ buffer_in = InputSize
    BY DEF TypeInv, TypeOK
  <2> DEFINE f == [topic |-> topic, msg |-> msg]
  <2>3. f \in FrameSet /\ f.msg = msg /\ sent' = Append(sent, f) /\ sent \in Seq(FrameSet)
    BY <1>1 DEF Transmit, TypeInv
  <2> HIDE DEF f
  <2>4. Len(msg) \in Nat /\ InputSize \in Nat /\ InputSize > 0
    BY <2>3, FrameParts, ConstantsTypes DEF Constants
  <2>5. Len(f.msg) <= InputSize
    BY <1>1, <2>1, <2>2, <2>3, <2>4
  <2>6. /\ Len(sent) \in Nat /\ Len(sent') = Len(sent) + 1 /\ sent'[Len(sent) + 1] = f
        /\ \A i \in 1 .. Len(sent) : sent'[i] = sent[i]
    BY <2>3, AppendProperties, LenProperties
  <2>7. \A i \in 1 .. Len(sent') : i \in 1 .. Len(sent) \/ i = Len(sent) + 1
    BY <2>6
  <2>8. AllFit => AllFit'
    BY <2>5, <2>6, <2>7 DEF AllFit
  <2> QED
    BY <2>1, <2>8
<1>2. CASE \E topic \in Topics, msg \in Payloads : send(topic, msg)
  BY <1>1, <1>2, Sendable DEF send
<1>3. CASE requestTopics
  <2>1. PICK topic, msg : topic = ID_PUBLISHER /\ msg = <<>>
    OBVIOUS
  <2>2. ~(buffer_in > 0 /\ Len(msg) > buffer_in)
    BY <2>1 DEF TypeInv, TypeOK
  <2>3. [topic |-> topic, msg |-> msg] \in FrameSet
    BY <2>1, Sendable, Zenon
  <2>4. Transmit(topic, msg)
    BY <1>3, <2>1 DEF requestTopics
  <2> QED
    BY <1>1, <2>2, <2>3, <2>4
<1>4. CASE Read
  <2>1. \E mode, data, next : Reads(mode, data, next)
    BY <1>4 DEF Read, FirstFF, ProtocolVer, SizeL, SizeH, SizeChecksum, TopicL, TopicH, Message,
       MsgChecksum
  <2>2. UNCHANGED <<unchecked, sent>>
    BY <2>1 DEF Reads, host
  <2> QED
    BY <2>2 DEF AllFit
<1>5. CASE Arrive \/ Fault \/ Tick \/ spinOnce \/ NoMoreData \/ setSubscribeSize
           \/ UNCHANGED vars
  <2>1. UNCHANGED <<unchecked, sent>>
    BY <1>5 DEF Arrive, Fault, Tick, spinOnce, NoMoreData, setSubscribeSize, vars, host
  <2> QED
    BY <2>1 DEF AllFit
<1> QED
  BY <1>2, <1>3, <1>4, <1>5 DEF Next

(* Nothing but reading a byte sends the device astray.                     *)
LEMMA AstrayReads == ASSUME [Next]_vars, pc # "astray", pc' = "astray" PROVE Read
BY DEF Next, send, requestTopics, Transmit, Arrive, Fault, Tick, spinOnce, NoMoreData,
   setSubscribeSize, vars

LEMMA InOrderNext == ASSUME TypeInv, TypeInv', InOrderInv, [Next]_vars PROVE InOrderInv'
<1> SUFFICES ASSUME Fast, faults' = 0, ~unchecked'
             PROVE  /\ AllFit' /\ pc' # "astray"
                    /\ (\E k, e : Core(0, k, e) /\ got = Due(SubSeq(sent, 1, k)))'
  BY DEF InOrderInv, Fast
<1>1. ~Fault /\ faults = 0
  <2>1. faults \in Nat
    BY DEF TypeInv, TypeOK
  <2>2. ~Fault
    BY <2>1 DEF Fault
  <2>3. ASSUME Read PROVE faults' = faults
    <3>1. \E mode, data, next : Reads(mode, data, next)
      BY <2>3 DEF Read, FirstFF, ProtocolVer, SizeL, SizeH, SizeChecksum, TopicL, TopicH, Message,
         MsgChecksum
    <3> QED
      BY <3>1 DEF Reads
  <2>4. faults' = faults
    BY <2>2, <2>3, Steps DEF Transmit, Arrive, Tick, spinOnce, NoMoreData, setSubscribeSize, vars
  <2> QED
    BY <2>2, <2>4
<1>f. ~unchecked /\ AllFit /\ AllFit' /\ pc # "astray"
  BY <1>1, FitsOn DEF InOrderInv
<1>2. PICK k, e : Core(0, k, e) /\ got = Due(SubSeq(sent, 1, k))
  BY <1>1, <1>f DEF InOrderInv
<1>a. pc' # "astray"
  <2> SUFFICES ASSUME pc' = "astray" PROVE FALSE
    OBVIOUS
  <2>1. PICK i \in 1 .. Len(sent) : Len(sent[i].msg) > InputSize
    BY <1>2, <1>f, AstrayReads, ReadCore
  <2>2. Len(sent[i].msg) \in Nat /\ InputSize \in Nat
    <3>1. sent[i] \in FrameSet
      BY <2>1, Frames
    <3>2. Len(sent[i].msg) \in 0 .. Base * Base - 1
      BY <3>1, FrameParts
    <3> QED
      BY <3>2, ConstantsTypes DEF Constants
  <2> QED
    BY <1>f, <2>1, <2>2 DEF AllFit
<1>3. PICK m, h : Core(0, m, h)' /\ Handles(k, m)
  BY <1>1, <1>2, CoreNext
<1>4. k \in 0 .. Len(sent) /\ Len(sent) \in Nat
  BY <1>2, Frames DEF Core
<1>5. CASE m = k /\ got' = got
  <2>1. SubSeq(sent', 1, k) = SubSeq(sent, 1, k)
    BY <1>4, FirstStay
  <2>2. got' = Due(SubSeq(sent', 1, m))
    BY <1>2, <1>5, <2>1
  <2> QED
    BY <1>3, <1>f, <1>a, <2>2
<1>6. CASE /\ m = k + 1 /\ k < Len(sent)
           /\ got' = IF Summable(sent[k + 1]) THEN Append(got, sent[k + 1]) ELSE got
  <2>1. k \in 0 .. Len(sent) - 1 /\ k + 1 \in 0 .. Len(sent)
    BY <1>4, <1>6
  <2>2. SubSeq(sent', 1, k + 1) = SubSeq(sent, 1, k + 1)
    BY <2>1, FirstStay
  <2>3. /\ SubSeq(sent, 1, k) \in Seq(FrameSet) /\ sent[k + 1] \in FrameSet
        /\ SubSeq(sent, 1, k + 1) = Append(SubSeq(sent, 1, k), sent[k + 1])
    BY <2>1, OneMore DEF TypeInv
  <2>4. PICK t, x : t = SubSeq(sent, 1, k) /\ x = sent[k + 1]
    OBVIOUS
  <2>5. Due(Append(t, x)) = IF Summable(x) THEN Append(Due(t), x) ELSE Due(t)
    <3>1. t \in Seq(FrameSet) /\ x \in FrameSet
      BY <2>3, <2>4
    <3> QED
      BY <3>1, DueMore
  <2>6. got' = Due(Append(t, x))
    BY <1>2, <1>6, <2>4, <2>5, Zenon
  <2>7. got' = Due(SubSeq(sent', 1, m))
    BY <1>6, <2>2, <2>3, <2>4, <2>6
  <2> QED
    BY <1>3, <1>f, <1>a, <2>7
<1> QED
  BY <1>3, <1>5, <1>6 DEF Handles

LEMMA InOrderHolds == ASSUME TypeInv, InOrderInv PROVE InOrder
<1> SUFFICES ASSUME Fast, faults = 0, ~unchecked
             PROVE  /\ IsPrefix(got, Due(sent))
                    /\ wire = <<>> /\ line = <<>> => got = Due(sent)
  BY DEF InOrder, InOrderInv
<1>1. PICK k, e : Core(0, k, e) /\ got = Due(SubSeq(sent, 1, k))
  BY DEF InOrderInv
<1>2. k \in 0 .. Len(sent) /\ Laid(0, e) /\ Reached(k, e) /\ sent \in Seq(FrameSet)
      /\ Len(sent) \in Nat
  BY <1>1, Frames DEF Core, TypeInv
<1>3. IsPrefix(got, Due(sent))
  BY <1>1, <1>2, DuePrefix
<1>4. ASSUME wire = <<>>, line = <<>> PROVE got = Due(sent)
  <2>1. k = Len(sent)
    <3> SUFFICES ASSUME k < Len(sent) PROVE FALSE
      BY <1>2
    <3>1. k + 1 \in 0 .. Len(sent) /\ Len(sent) \in 0 .. Len(sent) /\ k + 1 <= Len(sent)
      BY <1>2
    <3>2. e[k + 1] >= 1 /\ e[k + 1] <= e[Len(sent)] /\ e[k + 1] \in Int
          /\ e[Len(sent)] = Len(line) + Len(wire)
      BY <1>2, <3>1 DEF Reached, Laid
    <3>3. Len(line) = 0 /\ Len(wire) = 0
      BY <1>4
    <3> QED
      BY <3>2, <3>3
  <2>2. SubSeq(sent, 1, Len(sent)) = sent
    BY <1>2, SubSeqFull
  <2> QED
    BY <1>1, <2>1, <2>2
<1> QED
  BY <1>3, <1>4

(* As long as no byte is damaged, loop() keeps up and no message larger    *)
(* than message_in goes out before the host knows its size, the frames     *)
(* handled are the first of those sent that can be handled, whole and in   *)
(* order, and all of them when the line is empty; and nothing is written   *)
(* outside message_in.  This holds for an int of 16 bits too.              *)
THEOREM InOrderCorrect == Spec => []InOrder
<1>1. Init => TypeInv /\ InOrderInv
  BY TypeInit, InOrderInit
<1>2. TypeInv /\ InOrderInv /\ [Next]_vars => (TypeInv /\ InOrderInv)'
  BY TypeNext, InOrderNext
<1>3. TypeInv /\ InOrderInv => InOrder
  BY InOrderHolds
<1> QED
  BY <1>1, <1>2, <1>3, PTL DEF Spec

-----------------------------------------------------------------------------
(* What is handled after a silence.                                        *)

(* While the line is silent a frame broken off gets old, and is given up   *)
(* at a call of spinOnce().                                                *)
QuietInv ==
  /\ quiet > 0 => wire = <<>> /\ line = <<>>
  /\ mode_ # "first_ff" => /\ quiet <= msg_age \/ msg_age > MSG_TIMEOUT
                           /\ quiet <= MSG_TIMEOUT + spin_age

LEMMA QuietInit == ASSUME Init PROVE QuietInv
BY DEF Init, QuietInv

LEMMA QuietNext == ASSUME TypeInv, TypeInv', QuietInv, [Next]_vars PROVE QuietInv'
<1>0. /\ MSG_TIMEOUT \in Nat /\ Silence \in Nat /\ quiet \in Nat /\ msg_age \in Nat /\ spin_age \in Nat
      /\ quiet' \in Nat /\ msg_age' \in Nat /\ spin_age' \in Nat
  BY ConstantsTypes DEF TypeInv, TypeOK, Constants, Silence
<1>a. 0 <= msg_age' /\ quiet' >= 0 /\ 0 <= MSG_TIMEOUT + spin_age'
  <2>1. PICK s \in Nat : s = spin_age'
    BY <1>0
  <2>2. \A x \in Nat : 0 <= MSG_TIMEOUT + x
    BY <1>0
  <2>3. 0 <= MSG_TIMEOUT + s
    BY <2>2
  <2>4. 0 <= MSG_TIMEOUT + spin_age'
    BY <2>1, <2>3, Zenon
  <2>5. \A x \in Nat : 0 <= x /\ x >= 0
    OBVIOUS
  <2>6. 0 <= msg_age' /\ quiet' >= 0
    BY <1>0, <2>5, Zenon
  <2> QED
    BY <2>4, <2>6
<1>1. CASE \E f \in FrameSet : Transmit(f.topic, f.msg)
  BY <1>0, <1>1 DEF Transmit, QuietInv
<1>2. CASE Arrive \/ Fault
  <2>1. quiet = 0 /\ quiet' = 0
    BY <1>0, <1>2 DEF Arrive, Fault, QuietInv
  <2>2. ~(quiet' > 0) /\ quiet' <= msg_age' /\ quiet' <= MSG_TIMEOUT + spin_age'
    BY <1>a, <2>1
  <2> QED
    BY <2>2 DEF QuietInv
<1>3. CASE Tick
  <2>1. /\ UNCHANGED <<wire, line, mode_>> /\ spin_age' = spin_age + 1
        /\ msg_age' = Older(msg_age, MSG_TIMEOUT + 1)
        /\ quiet' = IF wire = <<>> /\ line = <<>> THEN Older(quiet, Silence + 1) ELSE quiet
    BY <1>3 DEF Tick, device
  <2>2. quiet' <= quiet + 1 /\ (quiet' > 0 => wire = <<>> /\ line = <<>>)
    <3>1. Older(quiet, Silence + 1) <= quiet + 1 /\ quiet <= quiet + 1
      BY <1>0 DEF Older
    <3>2. ~(wire = <<>> /\ line = <<>>) => quiet' = quiet /\ ~(quiet > 0)
      BY <2>1 DEF QuietInv
    <3> QED
      BY <2>1, <3>1, <3>2
  <2>3. msg_age' = msg_age + 1 \/ (msg_age' = msg_age /\ msg_age > MSG_TIMEOUT)
    BY <1>0, <2>1 DEF Older
  <2> QED
    BY <1>0, <2>1, <2>2, <2>3 DEF QuietInv
<1>4. CASE spinOnce
  <2>1. /\ UNCHANGED <<wire, line, quiet, msg_age>> /\ spin_age' = 0
        /\ mode_' # "first_ff" => mode_ # "first_ff" /\ ~(msg_age > MSG_TIMEOUT)
    BY <1>4 DEF spinOnce
  <2> QED
    BY <1>0, <2>1 DEF QuietInv
<1>5. CASE Read
  <2>1. \E mode, data, next : Reads(mode, data, next)
    BY <1>5 DEF Read, FirstFF, ProtocolVer, SizeL, SizeH, SizeChecksum, TopicL, TopicH, Message,
       MsgChecksum
  <2>2. quiet = 0 /\ quiet' = 0
    BY <1>0, <2>1 DEF Reads, QuietInv
  <2>3. ~(quiet' > 0) /\ quiet' <= msg_age' /\ quiet' <= MSG_TIMEOUT + spin_age'
    BY <1>a, <2>2
  <2> QED
    BY <2>3 DEF QuietInv
<1>6. CASE NoMoreData
  BY <1>6 DEF NoMoreData, QuietInv, device
<1>7. CASE setSubscribeSize \/ UNCHANGED vars
  BY <1>7, SetStill DEF Still, QuietInv, device
<1> QED
  BY <1>1, <1>2, <1>3, <1>4, <1>5, <1>6, <1>7, Steps

(* After a long silence the parser waits for a frame.                      *)
LEMMA SilenceResets ==
  ASSUME TypeInv, QuietInv, quiet > Silence
  PROVE  wire = <<>> /\ line = <<>> /\ mode_ = "first_ff"
<1>1. Constants /\ quiet \in Nat /\ spin_age \in Nat /\ spin_age <= SpinGap
  BY ConstantsTypes DEF TypeInv, TypeOK, Constants
<1> QED
  BY <1>1 DEF QuietInv, Silence, Constants

FreshInv ==
  Fast /\ fresh /\ sent # <<>> =>
    \E b, k, e :
      /\ b = Len(sent) - 1 /\ Core(b, k, e)
      /\ k = Len(sent) /\ Summable(sent[k]) => got # <<>> /\ Last(got) = sent[k]

LEMMA FreshInit == ASSUME Init PROVE FreshInv
BY DEF Init, FreshInv

(* A frame sent after a silence is the first that the parser reads.        *)
LEMMA FreshStart ==
  ASSUME TypeInv, QuietInv, NEW f \in FrameSet, Transmit(f.topic, f.msg), fresh'
  PROVE  \E b, k, e : b = Len(sent') - 1 /\ k = b /\ Core(b, k, e)'
<1>1. quiet > Silence
  BY DEF Transmit
<1>2. wire = <<>> /\ line = <<>> /\ mode_ = "first_ff"
  BY <1>1, SilenceResets
<1>3. Len(sent) \in Nat /\ Len(line) = 0 /\ Len(wire) = 0
  BY <1>2, Frames
<1>4. PICK b : b = Len(sent)
  OBVIOUS
<1>5. PICK e : e = [i \in b .. b |-> 0]
  OBVIOUS
<1>6. b \in Nat /\ e \in [b .. Len(sent) -> Int] /\ e[b] = 0 /\ b \in b .. Len(sent)
  BY <1>3, <1>4, <1>5
<1>7. Laid(b, e)
  <2>1. \A i \in b + 1 .. Len(sent) : FALSE
    BY <1>4, <1>6
  <2>2. \A i \in b .. Len(sent) : i = b
    BY <1>4, <1>6
  <2>3. e[Len(sent)] = Len(line) + Len(wire)
    BY <1>3, <1>4, <1>6
  <2>4. \A i \in b .. Len(sent), j \in b .. Len(sent) : i <= j => e[i] <= e[j]
    BY <1>6, <2>2
  <2> QED
    BY <1>6, <2>1, <2>3, <2>4 DEF Laid
<1>8. Reached(b, e) /\ InTime(b, e)
  BY <1>2, <1>4, <1>6 DEF Reached, InTime
<1>9. Core(b, b, e)
  BY <1>3, <1>4, <1>6, <1>7, <1>8 DEF Core
<1>10. \E h : Core(b, b, h)'
  BY <1>9, TransmitCore
<1>11. b = Len(sent') - 1
  <2>1. Len(sent') = Len(sent) + 1
    BY <1>4, <1>6, <1>7, <1>3, TransmitLays
  <2> QED
    BY <1>3, <1>4, <2>1
<1> QED
  BY <1>10, <1>11

LEMMA FreshNext ==
  ASSUME TypeInv, TypeInv', QuietInv, FreshInv, [Next]_vars PROVE FreshInv'
<1> SUFFICES ASSUME Fast, fresh', sent' # <<>>
             PROVE  (\E b, k, e :
                       /\ b = Len(sent) - 1 /\ Core(b, k, e)
                       /\ k = Len(sent) /\ Summable(sent[k]) => got # <<>> /\ Last(got) = sent[k])'
  BY DEF FreshInv, Fast
<1>1. ASSUME NEW f \in FrameSet, Transmit(f.topic, f.msg)
      PROVE  (\E b, k, e :
                /\ b = Len(sent) - 1 /\ Core(b, k, e)
                /\ k = Len(sent) /\ Summable(sent[k]) => got # <<>> /\ Last(got) = sent[k])'
  <2>1. PICK b, k, e : b = Len(sent') - 1 /\ k = b /\ Core(b, k, e)'
    BY <1>1, FreshStart
  <2>2. Len(sent') \in Nat
    BY LenProperties DEF TypeInv
  <2>3. k # Len(sent')
    BY <2>1, <2>2
  <2> QED
    BY <2>1, <2>3
<1>2. ASSUME \A f \in FrameSet : ~Transmit(f.topic, f.msg)
      PROVE  (\E b, k, e :
                /\ b = Len(sent) - 1 /\ Core(b, k, e)
                /\ k = Len(sent) /\ Summable(sent[k]) => got # <<>> /\ Last(got) = sent[k])'
  <2>1. ASSUME Read PROVE UNCHANGED <<sent, fresh>>
    <3>1. \E mode, data, next : Reads(mode, data, next)
      BY <2>1 DEF Read, FirstFF, ProtocolVer, SizeL, SizeH, SizeChecksum, TopicL, TopicH, Message,
         MsgChecksum
    <3> QED
      BY <3>1 DEF Reads
  <2>2. ~Fault
    BY DEF Fault
  <2>3. UNCHANGED <<sent, fresh>>
    BY <1>2, <2>1, <2>2, Steps DEF Arrive, Tick, spinOnce, NoMoreData, setSubscribeSize, vars
  <2>4. PICK b, k, e :
          /\ b = Len(sent) - 1 /\ Core(b, k, e)
          /\ k = Len(sent) /\ Summable(sent[k]) => got # <<>> /\ Last(got) = sent[k]
    BY <2>3 DEF FreshInv
  <2>5. PICK m, h : Core(b, m, h)' /\ Handles(k, m)
    BY <2>2, <2>4, CoreNext
  <2>6. CASE m = k /\ got' = got
    BY <2>3, <2>4, <2>5, <2>6
  <2>7. CASE /\ m = k + 1 /\ k < Len(sent)
             /\ got' = IF Summable(sent[k + 1]) THEN Append(got, sent[k + 1]) ELSE got
    <3>1. ASSUME Summable(sent[m]) PROVE got' # <<>> /\ Last(got') = sent[m]
      <4>1. got' = Append(got, sent[m]) /\ got \in Seq(HandledSet)
        BY <2>7, <3>1 DEF TypeInv
      <4>2. k + 1 \in 1 .. Len(sent)
        BY <2>4, <2>7, Frames DEF Core
      <4>3. sent[m] \in HandledSet
        <5>1. sent[m] \in FrameSet
          BY <2>7, <4>2, Frames
        <5>2. /\ sent[m] = [topic |-> sent[m].topic, msg |-> sent[m].msg]
              /\ sent[m].topic \in 0 .. IntMax /\ sent[m].msg \in Seq(Byte)
          BY <5>1, FrameParts
        <5>3. sent[m].topic \in IntRange
          BY <5>2, ConstantsTypes DEF IntRange, Constants
        <5> QED
          BY <5>2, <5>3 DEF HandledSet
      <4>4. Len(got') = Len(got) + 1 /\ got'[Len(got) + 1] = sent[m] /\ Len(got) \in Nat
            /\ got' # <<>>
        BY <4>1, <4>3, AppendProperties, LenProperties
      <4> QED
        BY <4>4 DEF Last
    <3> QED
      BY <2>3, <2>4, <2>5, <3>1
  <2> QED
    BY <2>5, <2>6, <2>7 DEF Handles
<1> QED
  BY <1>1, <1>2

LEMMA FreshHolds == ASSUME TypeInv, FreshInv PROVE FreshFrameHandled
<1> SUFFICES ASSUME Fast, fresh, wire = <<>>, line = <<>>, sent # <<>>, Summable(Last(sent))
             PROVE  got # <<>> /\ Last(got) = Last(sent)
  BY DEF FreshFrameHandled
<1>1. PICK b, k, e :
        /\ b = Len(sent) - 1 /\ Core(b, k, e)
        /\ k = Len(sent) /\ Summable(sent[k]) => got # <<>> /\ Last(got) = sent[k]
  BY DEF FreshInv
<1>2. b \in 0 .. Len(sent) /\ k \in b .. Len(sent) /\ Laid(b, e) /\ Reached(k, e)
      /\ Len(sent) \in Nat
  BY <1>1, Frames DEF Core
<1>3. k = Len(sent)
  <2> SUFFICES ASSUME k < Len(sent) PROVE FALSE
    BY <1>2
  <2>1. k + 1 = Len(sent) /\ Len(sent) \in b .. Len(sent)
    BY <1>1, <1>2
  <2>2. e[k + 1] >= 1 /\ e[Len(sent)] = Len(line) + Len(wire)
    BY <1>2 DEF Reached, Laid
  <2>3. Len(line) = 0 /\ Len(wire) = 0
    OBVIOUS
  <2> QED
    BY <2>1, <2>2, <2>3
<1> QED
  BY <1>1, <1>3 DEF Last

(* Whatever a fault has left behind in the parser, a frame that fits, sent *)
(* after a silence of MSG_TIMEOUT and a loop(), is handled unless its sum  *)
(* overflows or the device has gone astray.                                *)
THEOREM FreshFrameCorrect == Spec => []FreshFrameHandled
<1>1. Init => TypeInv /\ QuietInv /\ FreshInv
  BY TypeInit, QuietInit, FreshInit
<1>2. TypeInv /\ QuietInv /\ FreshInv /\ [Next]_vars => (TypeInv /\ QuietInv /\ FreshInv)'
  BY TypeNext, QuietNext, FreshNext
<1>3. TypeInv /\ FreshInv => FreshFrameHandled
  BY FreshHolds
<1> QED
  BY <1>1, <1>2, <1>3, PTL DEF Spec

=============================================================================
