---------------------- MODULE RosserialSessionProofs ----------------------
(***************************************************************************)
(* Proofs about RosserialSession: parameters and answers of services reach *)
(* the request they are for, whatever the line loses and whoever restarts, *)
(* for any number of requests.  The argument is the same for all three: a  *)
(* request has one frame, in one place of its way there and back, and only *)
(* the request under way has one, unless an earlier one was given up.      *)
(* They rest on what the steps do to the frames on the line: frames are    *)
(* sent, lost and read; none is duplicated.  A frame with a number is sent *)
(* in five steps, and otherwise those on the line only get fewer (Kept).   *)
(* Last, the endpoints: a host misses only those that a fault took.        *)
(***************************************************************************)
EXTENDS RosserialSession, SequenceTheorems, TLAPS

---------------------------------------------------------------------------
(* Frames, and what the steps do to them.                                  *)

Numbered == {"call", "answer", "request", "reply", "param"}

Frames ==
  {Time, Topics, TopicsVer1, Stop} \cup {Info(e) : e \in STRING}
    \cup [k : Numbered, n : Int]

(* What frames are.                                                        *)
LEMMA FrameFacts ==
  /\ Time \in Frames /\ Topics \in Frames /\ TopicsVer1 \in Frames /\ Stop \in Frames
  /\ {Time.k, Topics.k, TopicsVer1.k, Stop.k} \cap Numbered = {}
  /\ \A e \in STRING : Info(e) \in Frames /\ Info(e).k \notin Numbered
  /\ \A n \in Int :
       /\ Call(n) \in Frames /\ Call(n).k = "call" /\ Call(n).n = n
       /\ Answer(n) \in Frames /\ Answer(n).k = "answer" /\ Answer(n).n = n
       /\ Request(n) \in Frames /\ Request(n).k = "request" /\ Request(n).n = n
       /\ Reply(n) \in Frames /\ Reply(n).k = "reply" /\ Reply(n).n = n
       /\ Param(n) \in Frames /\ Param(n).k = "param" /\ Param(n).n = n
  /\ \A f \in Frames : f.k \in Numbered => f.n \in Int
<1>1. /\ Time \in Frames /\ Topics \in Frames /\ TopicsVer1 \in Frames /\ Stop \in Frames
      /\ {Time.k, Topics.k, TopicsVer1.k, Stop.k} \cap Numbered = {}
  BY DEF Frames, Numbered, Time, Topics, TopicsVer1, Stop
<1>2. ASSUME NEW e \in STRING PROVE Info(e) \in Frames /\ Info(e).k \notin Numbered
  BY DEF Frames, Numbered, Info
<1>3. ASSUME NEW k \in Numbered, NEW n \in Int
      PROVE  /\ [k |-> k, n |-> n] \in Frames
             /\ [k |-> k, n |-> n].k = k /\ [k |-> k, n |-> n].n = n
  BY DEF Frames
<1>4. ASSUME NEW f \in Frames, f.k \in Numbered PROVE f.n \in Int
  <2>1. CASE f \in [k : Numbered, n : Int]
    BY <2>1
  <2>2. CASE f \in {Time, Topics, TopicsVer1, Stop}
    BY <1>1, <1>4, <2>2
  <2>3. CASE f \in {Info(e) : e \in STRING}
    BY <1>2, <1>4, <2>3
  <2> QED BY <2>1, <2>2, <2>3 DEF Frames
<1>5. {"call", "answer", "request", "reply", "param"} \subseteq Numbered
  BY DEF Numbered
<1> QED BY <1>1, <1>2, <1>3, <1>4, <1>5 DEF Call, Answer, Request, Reply, Param

----------------------------------------------------------------------------
(* The frames of the kinds K in t are some of those in s, each at most as  *)
(* often.                                                                  *)
Kept(t, s, K) ==
  \E f \in [1..Len(t) -> Int] :
    \A i \in 1..Len(t) : t[i].k \in K =>
      /\ f[i] \in 1..Len(s) /\ t[i] = s[f[i]]
      /\ \A j \in 1..Len(t) : t[j].k \in K /\ f[i] = f[j] => i = j

LEMMA KeptSame ==
  ASSUME NEW s \in Seq(Frames), NEW K PROVE Kept(s, s, K)
<1>1. [i \in 1..Len(s) |-> i] \in [1..Len(s) -> Int]
  OBVIOUS
<1> QED BY <1>1 DEF Kept

LEMMA KeptEmpty ==
  ASSUME NEW s \in Seq(Frames), NEW K PROVE Kept(<<>>, s, K)
<1> DEFINE t == <<>>
<1>1. 1..Len(t) = {}
  OBVIOUS
<1>2. [i \in {} |-> i] \in [{} -> Int]
  OBVIOUS
<1> HIDE DEF t
<1>3. Kept(t, s, K)
  BY <1>1, <1>2 DEF Kept
<1> QED BY <1>3 DEF t

(* A host that flushes drops the first frames.                             *)
LEMMA KeptFlush ==
  ASSUME NEW s \in Seq(Frames), NEW n \in 0..Len(s), NEW K
  PROVE  SubSeq(s, n + 1, Len(s)) \in Seq(Frames) /\ Kept(SubSeq(s, n + 1, Len(s)), s, K)
<1> DEFINE t == SubSeq(s, n + 1, Len(s))
           f == [i \in 1..Len(t) |-> i + n]
<1>1. /\ t \in Seq(Frames) /\ Len(t) = Len(s) - n
      /\ \A i \in 1..Len(t) : t[i] = s[i + n]
  <2>1. \A i \in n + 1 .. Len(s) : s[i] \in Frames
    OBVIOUS
  <2> QED BY <2>1, SubSeqProperties
<1>2. f \in [1..Len(t) -> Int]
  BY <1>1
<1>3. \A i \in 1..Len(t) : /\ f[i] \in 1..Len(s) /\ t[i] = s[f[i]]
                           /\ \A j \in 1..Len(t) : f[i] = f[j] => i = j
  BY <1>1
<1> HIDE DEF t, f
<1> QED BY <1>1, <1>2, <1>3 DEF Kept, t

LEMMA KeptTail ==
  ASSUME NEW s \in Seq(Frames), s # <<>>, NEW K
  PROVE  Tail(s) \in Seq(Frames) /\ Kept(Tail(s), s, K)
<1>1. 1 \in 0..Len(s) /\ 1 + 1 = 2
  BY EmptySeq
<1>2. Tail(s) = SubSeq(s, 1 + 1, Len(s))
  BY <1>1, TailIsSubSeq
<1> QED BY <1>1, <1>2, KeptFlush

(* Frames of other kinds are sent after it.                                *)
LEMMA KeptConcat ==
  ASSUME NEW s \in Seq(Frames), NEW t \in Seq(Frames), NEW K,
         \A i \in 1..Len(t) : t[i].k \notin K
  PROVE  s \o t \in Seq(Frames) /\ Kept(s \o t, s, K)
<1> DEFINE u == s \o t
           f == [i \in 1..Len(u) |-> i]
<1>1. /\ u \in Seq(Frames) /\ Len(u) = Len(s) + Len(t)
      /\ \A i \in 1..Len(u) : u[i] = IF i <= Len(s) THEN s[i] ELSE t[i - Len(s)]
  BY ConcatProperties
<1>2. f \in [1..Len(u) -> Int]
  BY <1>1
<1>3. \A i \in 1..Len(u) : u[i].k \in K =>
         /\ f[i] \in 1..Len(s) /\ u[i] = s[f[i]]
         /\ \A j \in 1..Len(u) : f[i] = f[j] => i = j
  <2> SUFFICES ASSUME NEW i \in 1..Len(u), u[i].k \in K
               PROVE  /\ i \in 1..Len(s) /\ u[i] = s[i]
                      /\ \A j \in 1..Len(u) : f[i] = f[j] => i = j
    OBVIOUS
  <2>1. i <= Len(s)
    <3> SUFFICES ASSUME ~(i <= Len(s)) PROVE FALSE
      OBVIOUS
    <3>1. i - Len(s) \in 1..Len(t) /\ u[i] = t[i - Len(s)]
      BY <1>1
    <3> QED BY <3>1
  <2>2. i \in 1..Len(s)
    BY <1>1, <2>1
  <2>3. \A j \in 1..Len(u) : f[i] = f[j] => i = j
    OBVIOUS
  <2> QED BY <1>1, <2>1, <2>2, <2>3
<1> HIDE DEF u, f
<1> QED BY <1>1, <1>2, <1>3 DEF Kept, u

LEMMA KeptAppend ==
  ASSUME NEW s \in Seq(Frames), NEW x \in Frames, NEW K, x.k \notin K
  PROVE  Append(s, x) \in Seq(Frames) /\ Kept(Append(s, x), s, K)
<1>1. <<x>> \in Seq(Frames) /\ Len(<<x>>) = 1 /\ <<x>>[1] = x
  OBVIOUS
<1> DEFINE t == <<x>>
<1>2. \A i \in 1..Len(t) : t[i].k \notin K
  BY <1>1
<1>3. Append(s, x) = s \o t
  BY AppendIsConcat
<1> HIDE DEF t
<1>4. t \in Seq(Frames)
  BY <1>1 DEF t
<1> QED BY <1>2, <1>3, <1>4, KeptConcat

LEMMA KeptDrop ==
  ASSUME NEW s \in Seq(Frames), NEW n \in 1..Len(s), NEW K
  PROVE  Drop(s, n) \in Seq(Frames) /\ Kept(Drop(s, n), s, K)
<1> DEFINE a == SubSeq(s, 1, n - 1)
           b == SubSeq(s, n + 1, Len(s))
           u == a \o b
           f == [i \in 1..Len(u) |-> IF i < n THEN i ELSE i + 1]
<1>1. a \in Seq(Frames) /\ Len(a) = n - 1 /\ \A i \in 1..n - 1 : a[i] = s[i]
  <2>1. \A i \in 1 .. n - 1 : s[i] \in Frames
    OBVIOUS
  <2> QED BY <2>1, SubSeqProperties
<1>2. b \in Seq(Frames) /\ Len(b) = Len(s) - n /\ \A i \in 1..Len(s) - n : b[i] = s[i + n]
  <2>1. \A i \in n + 1 .. Len(s) : s[i] \in Frames
    OBVIOUS
  <2> QED BY <2>1, SubSeqProperties
<1> HIDE DEF a, b
<1>3. /\ u \in Seq(Frames) /\ Len(u) = Len(s) - 1
      /\ \A i \in 1..Len(u) : u[i] = IF i < n THEN a[i] ELSE b[i - (n - 1)]
  BY <1>1, <1>2, ConcatProperties
<1>4. ASSUME NEW i \in 1..Len(u) PROVE u[i] = s[IF i < n THEN i ELSE i + 1]
  <2>1. CASE i < n
    BY <1>1, <1>3, <2>1
  <2>2. CASE ~(i < n)
    <3>1. i - (n - 1) \in 1..Len(s) - n /\ (i - (n - 1)) + n = i + 1
      BY <1>3, <2>2
    <3> QED BY <1>2, <1>3, <2>2, <3>1
  <2> QED BY <2>1, <2>2
<1>5. f \in [1..Len(u) -> Int]
  BY <1>3
<1>6. \A i \in 1..Len(u) : /\ f[i] \in 1..Len(s) /\ u[i] = s[f[i]]
                           /\ \A j \in 1..Len(u) : f[i] = f[j] => i = j
  BY <1>3, <1>4
<1>7. u = Drop(s, n)
  BY DEF Drop, a, b
<1> HIDE DEF u, f
<1>8. Kept(u, s, K)
  BY <1>5, <1>6 DEF Kept
<1> QED BY <1>3, <1>7, <1>8

LEMMA KeptTrans ==
  ASSUME NEW s \in Seq(Frames), NEW t \in Seq(Frames), NEW u \in Seq(Frames), NEW K,
         Kept(u, t, K), Kept(t, s, K)
  PROVE  Kept(u, s, K)
<1>1. PICK f \in [1..Len(t) -> Int] :
        \A i \in 1..Len(t) : t[i].k \in K =>
          /\ f[i] \in 1..Len(s) /\ t[i] = s[f[i]]
          /\ \A j \in 1..Len(t) : t[j].k \in K /\ f[i] = f[j] => i = j
  BY DEF Kept
<1>2. PICK g \in [1..Len(u) -> Int] :
        \A i \in 1..Len(u) : u[i].k \in K =>
          /\ g[i] \in 1..Len(t) /\ u[i] = t[g[i]]
          /\ \A j \in 1..Len(u) : u[j].k \in K /\ g[i] = g[j] => i = j
  BY DEF Kept
<1> DEFINE h == [i \in 1..Len(u) |-> IF g[i] \in 1..Len(t) THEN f[g[i]] ELSE 0]
<1>3. h \in [1..Len(u) -> Int]
  OBVIOUS
<1>4. ASSUME NEW i \in 1..Len(u), u[i].k \in K
      PROVE  /\ h[i] \in 1..Len(s) /\ u[i] = s[h[i]]
             /\ \A j \in 1..Len(u) : u[j].k \in K /\ h[i] = h[j] => i = j
  <2>1. g[i] \in 1..Len(t) /\ u[i] = t[g[i]] /\ h[i] = f[g[i]]
    BY <1>2, <1>4
  <2>2. ASSUME NEW j \in 1..Len(u), u[j].k \in K, h[i] = h[j] PROVE i = j
    <3>1. g[j] \in 1..Len(t) /\ u[j] = t[g[j]] /\ h[j] = f[g[j]]
      BY <1>2, <2>2
    <3>2. g[i] = g[j]
      BY <1>1, <1>4, <2>1, <2>2, <3>1
    <3> QED BY <1>2, <1>4, <2>2, <3>2
  <2> QED BY <1>1, <1>4, <2>1, <2>2
<1> HIDE DEF h
<1> QED BY <1>3, <1>4 DEF Kept

LEMMA KeptFewer ==
  ASSUME NEW s, NEW t, NEW K, NEW L \in SUBSET K, Kept(t, s, K)
  PROVE  Kept(t, s, L)
<1>1. PICK f \in [1..Len(t) -> Int] :
        \A i \in 1..Len(t) : t[i].k \in K =>
          /\ f[i] \in 1..Len(s) /\ t[i] = s[f[i]]
          /\ \A j \in 1..Len(t) : t[j].k \in K /\ f[i] = f[j] => i = j
  BY DEF Kept
<1>2. \A i \in 1..Len(t) : t[i].k \in L =>
          /\ f[i] \in 1..Len(s) /\ t[i] = s[f[i]]
          /\ \A j \in 1..Len(t) : t[j].k \in L /\ f[i] = f[j] => i = j
  BY <1>1
<1> QED BY <1>2 DEF Kept

----------------------------------------------------------------------------
(* The numbers of the frames of the kinds K.                               *)
Numbers(s, K) == {s[i].n : i \in {j \in 1..Len(s) : s[j].k \in K}}

(* The numbers from one of E on.                                           *)
From(E) == {n \in Int : \E m \in E : m <= n}

(* Two frames of the kinds K have two numbers, except those in G.          *)
Once(s, t, K, G) ==
  /\ \A i, j \in 1..Len(s) :
       s[i].k \in K /\ s[j].k \in K /\ s[i].n = s[j].n /\ s[i].n \notin G => i = j
  /\ \A i, j \in 1..Len(t) :
       t[i].k \in K /\ t[j].k \in K /\ t[i].n = t[j].n /\ t[i].n \notin G => i = j
  /\ Numbers(s, K) \cap Numbers(t, K) \subseteq G

LEMMA OnceSymmetric ==
  ASSUME NEW s, NEW t, NEW K, NEW G, Once(s, t, K, G) PROVE Once(t, s, K, G)
BY DEF Once

LEMMA NumbersKept ==
  ASSUME NEW s, NEW t, NEW K, Kept(t, s, K)
  PROVE  Numbers(t, K) \subseteq Numbers(s, K)
<1>1. PICK f \in [1..Len(t) -> Int] :
        \A i \in 1..Len(t) : t[i].k \in K => f[i] \in 1..Len(s) /\ t[i] = s[f[i]]
  BY DEF Kept
<1>2. ASSUME NEW i \in 1..Len(t), t[i].k \in K PROVE t[i].n \in Numbers(s, K)
  BY <1>1, <1>2 DEF Numbers
<1> QED BY <1>2 DEF Numbers

(* Frames that are lost or read leave the others as they were.             *)
LEMMA OnceKept ==
  ASSUME NEW s, NEW s2, NEW t, NEW t2, NEW K, NEW G, NEW G2,
         Kept(s2, s, K), Kept(t2, t, K), G \subseteq G2, Once(s, t, K, G)
  PROVE  Once(s2, t2, K, G2)
<1>1. ASSUME NEW r, NEW r2, Kept(r2, r, K),
             \A i, j \in 1..Len(r) :
               r[i].k \in K /\ r[j].k \in K /\ r[i].n = r[j].n /\ r[i].n \notin G => i = j,
             NEW i \in 1..Len(r2), NEW j \in 1..Len(r2),
             r2[i].k \in K, r2[j].k \in K, r2[i].n = r2[j].n, r2[i].n \notin G2
      PROVE  i = j
  <2>1. PICK f \in [1..Len(r2) -> Int] :
          \A l \in 1..Len(r2) : r2[l].k \in K =>
            /\ f[l] \in 1..Len(r) /\ r2[l] = r[f[l]]
            /\ \A m \in 1..Len(r2) : r2[m].k \in K /\ f[l] = f[m] => l = m
    BY <1>1 DEF Kept
  <2>2. /\ f[i] \in 1..Len(r) /\ f[j] \in 1..Len(r)
        /\ r2[i] = r[f[i]] /\ r2[j] = r[f[j]]
    BY <1>1, <2>1
  <2>3. f[i] = f[j]
    BY <1>1, <2>2
  <2> QED BY <1>1, <2>1, <2>3
<1>2. Numbers(s2, K) \cap Numbers(t2, K) \subseteq G2
  BY NumbersKept DEF Once
<1>3. /\ \A i, j \in 1..Len(s) :
           s[i].k \in K /\ s[j].k \in K /\ s[i].n = s[j].n /\ s[i].n \notin G => i = j
      /\ \A i, j \in 1..Len(t) :
           t[i].k \in K /\ t[j].k \in K /\ t[i].n = t[j].n /\ t[i].n \notin G => i = j
  BY DEF Once
<1>4. \A i, j \in 1..Len(s2) :
        s2[i].k \in K /\ s2[j].k \in K /\ s2[i].n = s2[j].n /\ s2[i].n \notin G2 => i = j
  BY <1>1, <1>3
<1>5. \A i, j \in 1..Len(t2) :
        t2[i].k \in K /\ t2[j].k \in K /\ t2[i].n = t2[j].n /\ t2[i].n \notin G2 => i = j
  BY <1>1, <1>3
<1> QED BY <1>2, <1>4, <1>5 DEF Once

(* A frame is sent whose number is new, or in G.                           *)
LEMMA OnceSent ==
  ASSUME NEW s \in Seq(Frames), NEW t \in Seq(Frames), NEW K, NEW G, NEW x \in Frames,
         Once(s, t, K, G), x.k \in K,
         x.n \notin G => x.n \notin Numbers(s, K) /\ x.n \notin Numbers(t, K)
  PROVE  /\ Once(Append(s, x), t, K, G)
         /\ \A m : m \in Numbers(Append(s, x), K) <=> m \in Numbers(s, K) \/ m = x.n
<1> DEFINE u == Append(s, x)
<1>1. /\ u \in Seq(Frames) /\ Len(u) = Len(s) + 1 /\ Len(s) \in Nat
      /\ \A i \in 1..Len(s) : u[i] = s[i]
      /\ u[Len(s) + 1] = x
  BY AppendProperties
<1> HIDE DEF u
<1>2. \A i \in 1..Len(u) : i \in 1..Len(s) \/ i = Len(s) + 1
  BY <1>1
<1>3. Numbers(u, K) = Numbers(s, K) \cup {x.n}
  <2>1. ASSUME NEW i \in 1..Len(u), u[i].k \in K PROVE u[i].n \in Numbers(s, K) \cup {x.n}
    BY <1>1, <1>2, <2>1 DEF Numbers
  <2>2. ASSUME NEW i \in 1..Len(s), s[i].k \in K PROVE s[i].n \in Numbers(u, K)
    <3>1. i \in 1..Len(u) /\ u[i] = s[i]
      BY <1>1
    <3> QED BY <2>2, <3>1 DEF Numbers
  <2>3. x.n \in Numbers(u, K)
    <3>1. Len(s) + 1 \in 1..Len(u)
      BY <1>1
    <3> QED BY <1>1, <3>1 DEF Numbers
  <2> QED BY <2>1, <2>2, <2>3 DEF Numbers
<1>4. ASSUME NEW i \in 1..Len(u), NEW j \in 1..Len(u),
             u[i].k \in K, u[j].k \in K, u[i].n = u[j].n, u[i].n \notin G
      PROVE  i = j
  <2>1. ASSUME NEW a \in 1..Len(s), s[a].k \in K PROVE s[a].n # x.n \/ x.n \in G
    BY <2>1 DEF Numbers
  <2>2. CASE i \in 1..Len(s) /\ j \in 1..Len(s)
    BY <1>1, <1>4, <2>2 DEF Once
  <2>3. CASE i = Len(s) + 1 \/ j = Len(s) + 1
    BY <1>1, <1>2, <1>4, <2>1, <2>3
  <2> QED BY <1>2, <2>2, <2>3
<1> QED BY <1>3, <1>4 DEF Once, u

(* A frame is read: no other has its number, unless it is in G.            *)
LEMMA OnceRead ==
  ASSUME NEW s \in Seq(Frames), NEW t \in Seq(Frames), NEW K, NEW G, s # <<>>,
         Once(s, t, K, G), Head(s).k \in K
  PROVE  /\ Head(s) \in Frames /\ Head(s).n \in Numbers(s, K)
         /\ Head(s).n \notin G =>
              Head(s).n \notin Numbers(Tail(s), K) /\ Head(s).n \notin Numbers(t, K)
<1>1. /\ Head(s) = s[1] /\ 1 \in 1..Len(s) /\ Head(s) \in Frames
      /\ Len(Tail(s)) = Len(s) - 1
      /\ \A i \in 1..Len(Tail(s)) : Tail(s)[i] = s[i + 1]
  BY HeadTailProperties, EmptySeq
<1>2. Head(s).n \in Numbers(s, K)
  BY <1>1 DEF Numbers
<1>3. ASSUME NEW i \in 1..Len(Tail(s)), Tail(s)[i].k \in K, Tail(s)[i].n = Head(s).n
      PROVE  Head(s).n \in G
  <2>1. i + 1 \in 1..Len(s) /\ i + 1 # 1 /\ Tail(s)[i] = s[i + 1]
    BY <1>1
  <2> QED BY <1>1, <1>3, <2>1 DEF Once
<1>4. Head(s).n \in Numbers(Tail(s), K) => Head(s).n \in G
  BY <1>3 DEF Numbers
<1> QED BY <1>1, <1>2, <1>4 DEF Once

(* Nothing is on an empty line, and frames of other kinds have no numbers  *)
(* in K.                                                                   *)
LEMMA NumbersEmpty ==
  ASSUME NEW K PROVE Numbers(<<>>, K) = {}
<1>1. 1..Len(<<>>) = {}
  OBVIOUS
<1> QED BY <1>1 DEF Numbers

----------------------------------------------------------------------------
(* What a step does to the line.                                           *)
Lines == up \in Seq(Frames) /\ down \in Seq(Frames)

LinesKept == Kept(up', up, Numbered) /\ Kept(down', down, Numbered)

LEMMA SentAndSynced ==
  ASSUME Lines, NEW fs \in Seq(Frames), SendAndSync(fs)
  PROVE  up' \in Seq(Frames) /\ Kept(up', up \o fs, Numbered)
<1> DEFINE more == IF configured_' /\ sync_age > SyncPeriod THEN <<Time>> ELSE <<>>
<1>1. more \in Seq(Frames) /\ \A i \in 1..Len(more) : more[i].k \notin Numbered
  <2>1. Time \in Frames /\ Time.k \notin Numbered
    BY FrameFacts
  <2> QED BY <2>1
<1>2. up' = (up \o fs) \o more
  BY DEF SendAndSync
<1>3. up \o fs \in Seq(Frames)
  BY DEF Lines
<1> HIDE DEF more
<1> QED BY <1>1, <1>2, <1>3, KeptConcat

(* Without an answer to send.                                              *)
LEMMA Synced0 ==
  ASSUME Lines, SendAndSync(<<>>)
  PROVE  up' \in Seq(Frames) /\ Kept(up', up, Numbered)
<1>1. <<>> \in Seq(Frames) /\ up \o <<>> = up
  BY ConcatEmptySeq DEF Lines
<1> QED BY <1>1, SentAndSynced

LEMMA FrameRead ==
  ASSUME Lines, NEW kind, Frame(kind)
  PROVE  /\ down' \in Seq(Frames) /\ Kept(down', down, Numbered)
         /\ down # <<>> /\ down' = Tail(down) /\ Head(down) \in Frames
BY KeptTail, HeadTailProperties DEF Frame, Lines

(* A call of the device's service is answered by one frame.                *)
LEMMA Replied ==
  ASSUME Lines, ServiceCallback
  PROVE  /\ Lines' /\ Kept(down', down, Numbered) /\ down' = Tail(down)
         /\ down # <<>> /\ Head(down).k = "request"
         /\ \/ Kept(up', up, Numbered)
            \/ Kept(up', Append(up, Reply(Head(down).n)), Numbered)
<1>1. /\ down' \in Seq(Frames) /\ Kept(down', down, Numbered)
      /\ down # <<>> /\ down' = Tail(down) /\ Head(down) \in Frames
      /\ Head(down).k = "request"
  BY FrameRead DEF ServiceCallback, Frame
<1>2. Reply(Head(down).n) \in Frames
  BY <1>1, FrameFacts DEF Numbered
<1>3. CASE Connected
  <2>1. SendAndSync(<<Reply(Head(down).n)>>)
    BY <1>3 DEF ServiceCallback
  <2>2. up \o <<Reply(Head(down).n)>> = Append(up, Reply(Head(down).n))
    BY <1>2, AppendIsConcat DEF Lines
  <2>3. <<Reply(Head(down).n)>> \in Seq(Frames)
    BY <1>2
  <2> QED BY <1>1, <2>1, <2>2, <2>3, SentAndSynced DEF Lines
<1>4. CASE ~Connected
  <2>1. SendAndSync(<<>>)
    BY <1>4 DEF ServiceCallback
  <2> QED BY <1>1, <2>1, Synced0 DEF Lines
<1> QED BY <1>3, <1>4

(* The frames the device reads otherwise, and what it then sends.          *)
LEMMA SpinLines ==
  ASSUME Lines, spinOnce, ~ServiceCallback
  PROVE  Lines' /\ LinesKept
<1>1. CASE negotiateTopics
  <2> DEFINE fs == <<Time>> \o [i \in 1..Len(Endpoints) |-> Info(Endpoints[i])]
             infos == [i \in 1..Len(Endpoints) |-> Info(Endpoints[i])]
  <2>1. infos \in Seq(Frames) /\ \A i \in 1..Len(infos) : infos[i].k \notin Numbered
    <3>1. \A i \in 1..Len(Endpoints) : Endpoints[i] \in STRING
      BY EndpointsAreNames
    <3>2. Len(Endpoints) \in Nat
      BY EndpointsAreNames
    <3>3. \A i \in 1..Len(Endpoints) :
             Info(Endpoints[i]) \in Frames /\ Info(Endpoints[i]).k \notin Numbered
      BY <3>1, FrameFacts
    <3>4. infos \in Seq(Frames) /\ Len(infos) = Len(Endpoints)
      BY <3>2, <3>3
    <3> QED BY <3>3, <3>4
  <2>2. <<Time>> \in Seq(Frames) /\ Len(<<Time>>) = 1 /\ <<Time>>[1].k \notin Numbered
    <3>1. Time \in Frames /\ Time.k \notin Numbered
      BY FrameFacts
    <3> QED BY <3>1
  <2>3. up' = (up \o <<Time>>) \o infos
    BY <1>1 DEF negotiateTopics
  <2> HIDE DEF infos
  <2>4. up \o <<Time>> \in Seq(Frames) /\ Kept(up \o <<Time>>, up, Numbered)
    <3> DEFINE t == <<Time>>
    <3>1. t \in Seq(Frames) /\ \A i \in 1..Len(t) : t[i].k \notin Numbered
      BY <2>2
    <3> HIDE DEF t
    <3>2. up \o t \in Seq(Frames) /\ Kept(up \o t, up, Numbered)
      BY <3>1, KeptConcat DEF Lines
    <3> QED BY <3>2 DEF t
  <2>5. up' \in Seq(Frames) /\ Kept(up', up \o <<Time>>, Numbered)
    BY <2>1, <2>3, <2>4, KeptConcat
  <2>6. Kept(up', up, Numbered)
    BY <2>4, <2>5, KeptTrans DEF Lines
  <2> QED BY <1>1, <2>5, <2>6, FrameRead DEF negotiateTopics, Lines, LinesKept
<1>2. CASE OtherVersion
  <2>1. CASE Connected
    BY <1>2, <2>1, Synced0, FrameRead DEF OtherVersion, Lines, LinesKept
  <2>2. CASE ~Connected
    <3> DEFINE t == <<Time>>
    <3>1. t \in Seq(Frames) /\ \A i \in 1..Len(t) : t[i].k \notin Numbered
      <4>1. Time \in Frames /\ Time.k \notin Numbered
        BY FrameFacts
      <4> QED BY <4>1
    <3>2. SendAndSync(t)
      BY <1>2, <2>2 DEF OtherVersion
    <3> HIDE DEF t
    <3>3. up \o t \in Seq(Frames) /\ Kept(up \o t, up, Numbered)
      BY <3>1, KeptConcat DEF Lines
    <3>4. up' \in Seq(Frames) /\ Kept(up', up \o t, Numbered)
      BY <3>1, <3>2, SentAndSynced
    <3>5. Kept(up', up, Numbered)
      BY <3>3, <3>4, KeptTrans DEF Lines
    <3> QED BY <1>2, <3>4, <3>5, FrameRead DEF OtherVersion, Lines, LinesKept
  <2> QED BY <2>1, <2>2
<1>3. CASE syncTime
  BY <1>3, Synced0, FrameRead DEF syncTime, Lines, LinesKept
<1>4. CASE ParamReceived
  BY <1>4, Synced0, FrameRead DEF ParamReceived, Lines, LinesKept
<1>5. CASE TxStop
  BY <1>5, Synced0, FrameRead DEF TxStop, Lines, LinesKept
<1>6. CASE ClientCallback
  BY <1>6, Synced0, FrameRead DEF ClientCallback, Lines, LinesKept
<1>7. CASE NoFrame
  BY <1>7, Synced0, KeptSame DEF NoFrame, Lines, LinesKept
<1> QED BY <1>1, <1>2, <1>3, <1>4, <1>5, <1>6, <1>7 DEF spinOnce

Typed == Lines /\ calls \in Nat /\ params \in Nat /\ serving \in Int

(* Frames of the kinds K are only ever read or lost, except in the steps   *)
(* that send one.                                                          *)
LEMMA StepLines ==
  ASSUME Typed, [Next]_vars, NEW K \in SUBSET Numbered,
         ServiceCallback => "reply" \notin K,
         call => "call" \notin K,
         requestParam \/ handleParameterRequest => "param" \notin K,
         ProxyReturns => "answer" \notin K,
         \A n \in Requests : EndSend(n) => "request" \notin K
  PROVE  Lines' /\ Kept(up', up, K) /\ Kept(down', down, K)
<1> DEFINE Good == Lines' /\ Kept(up', up, K) /\ Kept(down', down, K)
<1> USE DEF Lines
<1>1. Lines
  BY DEF Typed
<1>2. Kept(up, up, K) /\ Kept(down, down, K) /\ Kept(<<>>, up, K) /\ Kept(<<>>, down, K)
      /\ <<>> \in Seq(Frames)
  BY <1>1, KeptSame, KeptEmpty
<1>3. up # <<>> => Tail(up) \in Seq(Frames) /\ Kept(Tail(up), up, K) /\ Head(up) \in Frames
  BY <1>1, KeptTail, HeadTailProperties
<1>4. flushInput => up' \in Seq(Frames) /\ Kept(up', up, K)
  BY <1>1, KeptFlush DEF flushInput
<1>5. ASSUME NEW x \in {Time, Topics, TopicsVer1, Stop}
      PROVE  Append(down, x) \in Seq(Frames) /\ Kept(Append(down, x), down, K)
  <2>1. x \in Frames /\ x.k \notin K
    BY FrameFacts
  <2> QED BY <1>1, <2>1, KeptAppend
<1>6. requestTopics => Good
  BY <1>1, <1>2, <1>4, <1>5 DEF requestTopics, WriteAnyway
<1>7. ASSUME NEW q, NEW a, request_topics(q, a)
      PROVE  down' \in Seq(Frames) /\ Kept(down', down, K)
  <2>1. down' = Append(down, Topics) \/ down' = Append(down, TopicsVer1)
    BY <1>7 DEF request_topics
  <2> QED BY <1>5, <2>1
<1>8. ASSUME NEW k \in Numbered, k \notin K, NEW n \in Int, NEW s \in Seq(Frames)
      PROVE  Append(s, [k |-> k, n |-> n]) \in Seq(Frames)
             /\ Kept(Append(s, [k |-> k, n |-> n]), s, K)
  <2>1. [k |-> k, n |-> n] \in Frames
    BY DEF Frames
  <2> QED BY <1>8, <2>1, KeptAppend
<1>9. {"call", "answer", "request", "reply", "param"} \subseteq Numbered
  BY DEF Numbered
<1>10. CASE Device
  <2>1. CASE ServiceCallback
    <3>1. /\ Lines' /\ Kept(down', down, Numbered) /\ down # <<>> /\ Head(down).k = "request"
          /\ \/ Kept(up', up, Numbered)
             \/ Kept(up', Append(up, Reply(Head(down).n)), Numbered)
      BY <1>1, <2>1, Replied
    <3>2. Head(down) \in Frames /\ Head(down).n \in Int
      BY <1>1, <3>1, HeadTailProperties, FrameFacts, <1>9
    <3>3. /\ Append(up, Reply(Head(down).n)) \in Seq(Frames)
          /\ Kept(Append(up, Reply(Head(down).n)), up, K)
      BY <1>1, <1>8, <1>9, <2>1, <3>2 DEF Reply
    <3>4. Kept(up', up, K) \/ Kept(up', Append(up, Reply(Head(down).n)), K)
      BY <3>1, KeptFewer
    <3>5. Kept(down', down, K)
      BY <3>1, KeptFewer
    <3>6. Kept(up', up, K)
      BY <1>1, <3>1, <3>3, <3>4, KeptTrans
    <3> QED BY <3>1, <3>5, <3>6
  <2>2. CASE ~ServiceCallback
    <3>1. Lines' /\ LinesKept
      BY <1>1, <1>10, <2>2, SpinLines DEF Device
    <3> QED BY <3>1, KeptFewer DEF LinesKept
  <2> QED BY <2>1, <2>2
<1>11. CASE Program
  <2>1. CASE call
    <3>1. up' = Append(up, [k |-> "call", n |-> calls + 1]) /\ down' = down /\ calls + 1 \in Int
      BY <2>1 DEF call, Call, Typed
    <3> QED BY <1>1, <1>2, <1>8, <1>9, <2>1, <3>1
  <2>2. CASE requestParam
    <3>1. up' = Append(up, [k |-> "param", n |-> params + 1]) /\ down' = down /\ params + 1 \in Int
      BY <2>2 DEF requestParam, Param, Typed
    <3> QED BY <1>1, <1>2, <1>8, <1>9, <2>2, <3>1
  <2> QED BY <1>11, <2>1, <2>2 DEF Program
<1>12. CASE Unheard
  BY <1>1, <1>2, <1>12 DEF Unheard
<1>13. CASE Fault
  <2>1. CASE LoseUp
    BY <1>1, <1>2, <2>1, KeptDrop DEF LoseUp
  <2>2. CASE LoseDown
    BY <1>1, <1>2, <2>2, KeptDrop DEF LoseDown
  <2>3. CASE Reset
    BY <1>1, <1>2, <2>3 DEF Reset
  <2>4. CASE ReadFails
    BY <1>6, <2>4 DEF ReadFails
  <2>5. CASE txStopRequest
    BY <1>1, <1>2, <1>4, <1>5, <2>5 DEF txStopRequest
  <2>6. CASE Killed
    BY <1>1, <1>2, <2>6 DEF Killed
  <2>7. CASE read_failed
    BY <1>1, <1>2, <2>7 DEF read_failed
  <2>8. CASE Misjudged
    BY <1>1, <1>2, <2>8 DEF Misjudged, deviceVars
  <2> QED BY <1>13, <2>1, <2>2, <2>3, <2>4, <2>5, <2>6, <2>7, <2>8 DEF Fault
<1>14. CASE Tick
  BY <1>1, <1>2, <1>14 DEF Tick, DeviceTick
<1>15. CASE Python(Start)
  <2>1. up' = <<>> /\ down = <<>> /\ down' = <<Topics>> /\ down' = Append(down, Topics)
    BY <1>15 DEF Python, Start
  <2> QED BY <1>2, <1>5, <2>1
<1>16. CASE Python(Client)
  <2>1. CASE LostSync
    BY <1>6, <2>1 DEF LostSync
  <2>2. CASE handleTimeRequest
    BY <1>3, <1>5, <2>2 DEF handleTimeRequest, Received, send
  <2>3. CASE Setup \/ handleReply \/ handleCall
    BY <1>1, <1>2, <1>3, <2>3 DEF Setup, handleReply, handleCall, Received
  <2>4. CASE wait_for_service
    BY <1>1, <1>2, <2>4 DEF wait_for_service, deviceVars
  <2>5. CASE handleParameterRequest
    <3>1. up # <<>> /\ up' = Tail(up) /\ Head(up).k = "param"
      BY <2>5 DEF handleParameterRequest, Received
    <3>2. Head(up).n \in Int
      BY <1>3, <1>9, <3>1, FrameFacts
    <3>3. down' = down \/ down' = Append(down, [k |-> "param", n |-> Head(up).n])
      BY <2>5 DEF handleParameterRequest, send, Param
    <3> QED BY <1>1, <1>2, <1>3, <1>8, <1>9, <2>5, <3>1, <3>2, <3>3
  <2>6. CASE ProxyReturns
    <3>1. up' = up /\ (down' = down \/ down' = Append(down, [k |-> "answer", n |-> serving]))
      BY <2>6 DEF ProxyReturns, send, Answer
    <3> QED BY <1>1, <1>2, <1>8, <1>9, <2>6, <3>1 DEF Typed
  <2> QED BY <1>16, <2>1, <2>2, <2>3, <2>4, <2>5, <2>6 DEF Python, Client
<1>17. ASSUME NEW n \in Requests, Python(Uses < MaxUses /\ More /\ callback(n)) PROVE Good
  BY <1>1, <1>2, <1>17 DEF Python, callback, deviceVars
<1>18. ASSUME NEW n \in Requests, Python(Caller(n)) PROVE Good
  <2>1. CASE BeginSend(n) \/ Return(n)
    BY <1>1, <1>2, <2>1 DEF BeginSend, Return, deviceVars
  <2>2. CASE EndSend(n)
    <3>1. up' = up /\ (down' = down \/ down' = Append(down, [k |-> "request", n |-> n]))
      BY <2>2 DEF EndSend, Request
    <3>2. n \in Int
      BY DEF Requests
    <3> QED BY <1>1, <1>2, <1>8, <1>9, <2>2, <3>1, <3>2
  <2> QED BY <1>18, <2>1, <2>2 DEF Python, Caller
<1>19. CASE Session(start)
  BY <1>1, <1>2, <1>7, <1>19 DEF Session, start
<1>20. CASE Session(Server)
  <2>1. CASE sync_timeout
    BY <1>1, <1>2, <1>7, <2>1 DEF sync_timeout
  <2>2. CASE required_topics_check
    <3>1. up' = up /\ (down' = down \/ \E q, a : request_topics(q, a))
      BY <2>2 DEF required_topics_check
    <3> QED BY <1>1, <1>2, <1>7, <3>1
  <2>3. CASE setup_endpoint \/ Unrecognized
    BY <1>1, <1>2, <1>3, <2>3 DEF setup_endpoint, Unrecognized, ServerReceived
  <2>4. CASE handle_time
    BY <1>3, <1>5, <2>4 DEF handle_time, ServerReceived
  <2> QED BY <1>20, <2>1, <2>2, <2>3, <2>4 DEF Session, Server
<1>21. CASE UNCHANGED vars
  BY <1>1, <1>2, <1>21 DEF vars, deviceVars
<1> QED BY <1>10, <1>11, <1>12, <1>13, <1>14, <1>15, <1>16, <1>17, <1>18, <1>19, <1>20, <1>21 DEF Next

program == <<pc, waiting, calls, answers, interrupted,
             param_recieved, req_param_resp, params, values, expired>>

(* Nothing but the device itself changes what its program waits for.       *)
LEMMA ProgramElsewhere ==
  ASSUME [Next]_vars, ~spinOnce, ~call, ~requestParam, ~Reset
  PROVE  UNCHANGED program
<1> USE DEF program, service, parameter, deviceRest, deviceVars
<1>1. ~Device /\ ~Program
  BY DEF Device, Program
<1>2. CASE Unheard
  BY <1>2 DEF Unheard
<1>3. CASE Fault
  <2>1. CASE LoseUp \/ LoseDown
    BY <2>1 DEF LoseUp, LoseDown
  <2>2. CASE ReadFails \/ txStopRequest \/ Killed
    BY <2>2 DEF ReadFails, txStopRequest, Killed, Gone
  <2>3. CASE read_failed \/ Misjudged
    BY <2>3 DEF read_failed, Misjudged
  <2> QED BY <1>3, <2>1, <2>2, <2>3 DEF Fault
<1>4. CASE Tick
  BY <1>4 DEF Tick, DeviceTick
<1>5. CASE Python(Start)
  BY <1>5 DEF Python, Start
<1>6. CASE Python(Client)
  <2>1. CASE LostSync
    BY <2>1 DEF LostSync
  <2>2. CASE handleTimeRequest \/ Setup \/ handleReply \/ handleCall \/ handleParameterRequest
    BY <2>2 DEF handleTimeRequest, Setup, handleReply, handleCall, handleParameterRequest, Received
  <2>3. CASE wait_for_service
    BY <2>3 DEF wait_for_service
  <2>4. CASE ProxyReturns
    BY <2>4 DEF ProxyReturns, Gone
  <2> QED BY <1>6, <2>1, <2>2, <2>3, <2>4 DEF Python, Client
<1>7. ASSUME NEW n \in Requests, Python(Uses < MaxUses /\ More /\ callback(n)) \/ Python(Caller(n))
      PROVE  UNCHANGED program
  BY <1>7 DEF Python, callback, Caller, BeginSend, EndSend, Return
<1>8. CASE Session(start)
  BY <1>8 DEF Session, start
<1>9. CASE Session(Server)
  <2>1. CASE sync_timeout \/ required_topics_check
    BY <2>1 DEF sync_timeout, required_topics_check
  <2>2. CASE setup_endpoint \/ handle_time \/ Unrecognized
    BY <2>2 DEF setup_endpoint, handle_time, Unrecognized, ServerReceived
  <2> QED BY <1>9, <2>1, <2>2 DEF Session, Server
<1>10. CASE UNCHANGED vars
  BY <1>10 DEF vars
<1> QED BY <1>1, <1>2, <1>3, <1>4, <1>5, <1>6, <1>7, <1>8, <1>9, <1>10 DEF Next

(* run() gets into the service client, with another call, in handleCall()  *)
(* only.                                                                   *)
LEMMA ServingElsewhere ==
  ASSUME [Next]_vars, ~handleCall
  PROVE  serving' \in {serving, 0} /\ (run' = "proxy" => run = "proxy" /\ serving' = serving)
<1> USE DEF clientVars
<1>1. CASE Device \/ Program \/ Unheard
  BY <1>1 DEF Device, Program, Unheard
<1>2. CASE Fault
  <2>1. CASE LoseUp \/ LoseDown \/ (Reset /\ UNCHANGED <<hostVars, clientVars, serverVars>>)
    BY <2>1 DEF LoseUp, LoseDown
  <2>2. CASE ReadFails \/ txStopRequest \/ Killed
    BY <2>2 DEF ReadFails, txStopRequest, Killed, Gone
  <2>3. CASE read_failed \/ Misjudged
    BY <2>3 DEF read_failed, Misjudged
  <2> QED BY <1>2, <2>1, <2>2, <2>3 DEF Fault
<1>3. CASE Tick
  BY <1>3 DEF Tick
<1>4. CASE Python(Start)
  BY <1>4 DEF Python, Start
<1>5. CASE Python(Client)
  <2>1. CASE LostSync
    BY <2>1 DEF LostSync
  <2>2. CASE handleTimeRequest \/ Setup \/ handleReply \/ handleParameterRequest
    BY <2>2 DEF handleTimeRequest, Setup, handleReply, handleParameterRequest, Received
  <2>3. CASE wait_for_service
    BY <2>3 DEF wait_for_service
  <2>4. CASE ProxyReturns
    BY <2>4 DEF ProxyReturns, Gone
  <2> QED BY <1>5, <2>1, <2>2, <2>3, <2>4 DEF Python, Client
<1>6. ASSUME NEW n \in Requests, Python(Uses < MaxUses /\ More /\ callback(n)) \/ Python(Caller(n))
      PROVE  serving' \in {serving, 0} /\ (run' = "proxy" => run = "proxy" /\ serving' = serving)
  BY <1>6 DEF Python, callback, Caller, BeginSend, EndSend, Return
<1>7. CASE Session(start)
  BY <1>7 DEF Session, start
<1>8. CASE Session(Server)
  <2>1. CASE sync_timeout \/ required_topics_check
    BY <2>1 DEF sync_timeout, required_topics_check
  <2>2. CASE setup_endpoint \/ handle_time \/ Unrecognized
    BY <2>2 DEF setup_endpoint, handle_time, Unrecognized, ServerReceived
  <2> QED BY <1>8, <2>1, <2>2 DEF Session, Server
<1>9. CASE UNCHANGED vars
  BY <1>9 DEF vars
<1> QED BY <1>1, <1>2, <1>3, <1>4, <1>5, <1>6, <1>7, <1>8, <1>9 DEF Next

LEMMA TypedStep ==
  ASSUME Typed, [Next]_vars
  PROVE  Typed'
<1>1. Lines'
  BY StepLines, {} \in SUBSET Numbered
<1>2. serving' \in Int
  <2>1. CASE handleCall
    <3>1. up # <<>> /\ Head(up).k = "call" /\ (serving' = Head(up).n \/ serving' = serving)
      BY <2>1 DEF handleCall, Received
    <3>2. Head(up) \in Frames
      BY <3>1, HeadTailProperties DEF Typed, Lines
    <3> QED BY <3>1, <3>2, FrameFacts DEF Typed, Numbered
  <2>2. CASE ~handleCall
    BY <2>2, ServingElsewhere DEF Typed
  <2> QED BY <2>1, <2>2
<1>3. calls' \in Nat /\ params' \in Nat
  <2>1. CASE spinOnce
    BY <2>1 DEF spinOnce, negotiateTopics, OtherVersion, syncTime, ParamReceived, TxStop,
                ServiceCallback, ClientCallback, NoFrame, Around, Typed
  <2>2. CASE call \/ requestParam
    BY <2>2 DEF call, requestParam, parameter, service, Typed
  <2>3. CASE Reset
    BY <2>3 DEF Reset, Typed
  <2>4. CASE ~spinOnce /\ ~call /\ ~requestParam /\ ~Reset
    BY <2>4, ProgramElsewhere DEF program, Typed
  <2> QED BY <2>1, <2>2, <2>3, <2>4
<1> QED BY <1>1, <1>2, <1>3 DEF Typed

LEMMA TypedInit ==
  ASSUME Init PROVE Typed
BY DEF Init, DeviceInit, ClientInit, Typed, Lines

LEMMA FromGrows ==
  ASSUME NEW E \in SUBSET Int, NEW F \in SUBSET Int, E \subseteq F
  PROVE  From(E) \subseteq From(F) /\ E \subseteq From(E)
BY DEF From

(* The line and the counters are what they seem.                           *)
LEMMA TypeCorrect == Spec => []Typed
<1>1. Init => Typed
  BY TypedInit
<1>2. Typed /\ [Next]_vars => Typed'
  BY TypedStep
<1> QED BY <1>1, <1>2, PTL DEF Spec

---------------------------------------------------------------------------
(* Parameters, calls and callers.                                          *)

(* Parameters: only the one asked for has a frame on the line, and one, but *)
(* for those from a parameter given up on.                                 *)
P == {"param"}

OnLine(K) == Numbers(up, K) \cup Numbers(down, K)

ParamInv ==
  /\ expired \subseteq Int
  /\ pc = "param" => ~param_recieved
  /\ OnLine(P) \subseteq {n \in Int : n <= params}
  /\ \A n \in OnLine(P) : n \in From(expired) \/ (pc = "param" /\ n = params)
  /\ Once(up, down, P, From(expired))
  /\ ParamTrue

LEMMA ParamInit == ASSUME Init PROVE ParamInv
<1>1. up = <<>> /\ down = <<>> /\ expired = {} /\ values = {} /\ pc = "loop"
  BY DEF Init, DeviceInit
<1>2. OnLine(P) = {}
  BY <1>1, NumbersEmpty DEF OnLine
<1>3. Once(up, down, P, From(expired))
  <2>1. 1..Len(<<>>) = {}
    OBVIOUS
  <2> QED BY <1>1, <2>1, NumbersEmpty DEF Once
<1> QED BY <1>1, <1>2, <1>3 DEF ParamInv, ParamTrue

(* A step in which no parameter is sent, and at most the current one is    *)
(* given up.                                                               *)
LEMMA ParamQuiet ==
  ASSUME Typed, ParamInv, Kept(up', up, P), Kept(down', down, P),
         params' = params, values' = values,
         \/ expired' = expired /\ (pc' = "param" <=> pc = "param") /\ param_recieved' = param_recieved
         \/ expired' = expired /\ pc # "param" /\ pc' # "param"
         \/ expired' = expired \cup {params} /\ pc' # "param"
  PROVE  ParamInv'
<1>1. expired \subseteq expired' /\ expired' \subseteq Int /\ From(expired) \subseteq From(expired')
  <2>1. expired \in SUBSET Int /\ expired' \in SUBSET Int /\ expired \subseteq expired'
    <3>1. expired' = expired \/ expired' = expired \cup {params}
      OBVIOUS
    <3>2. expired \subseteq Int /\ params \in Int
      BY DEF ParamInv, Typed
    <3> QED BY <3>1, <3>2
  <2> QED BY <2>1, FromGrows
<1>2. OnLine(P)' \subseteq OnLine(P)
  BY NumbersKept DEF OnLine
<1>3. Once(up, down, P, From(expired))'
  BY <1>1, OnceKept DEF ParamInv
<1>4. \A n \in OnLine(P)' : n \in From(expired') \/ (pc' = "param" /\ n = params')
  <2>1. CASE expired' = expired \cup {params}
    BY <1>1, <1>2, <2>1, FromGrows DEF ParamInv
  <2>2. CASE expired' = expired /\ expired' # expired \cup {params}
    <3> SUFFICES ASSUME NEW n \in OnLine(P)', n \notin From(expired)
                 PROVE  pc' = "param" /\ n = params
      BY <2>2
    <3>1. pc = "param" /\ n = params
      BY <1>2 DEF ParamInv
    <3>2. pc' = "param" <=> pc = "param"
      BY <2>2, <3>1
    <3> QED BY <3>1, <3>2
  <2> QED BY <1>1, <2>1, <2>2
<1>5. ParamTrue'
  BY <1>1 DEF ParamInv, ParamTrue
<1> QED BY <1>1, <1>2, <1>3, <1>4, <1>5 DEF ParamInv

LEMMA ParamSpin ==
  ASSUME Typed, ParamInv, spinOnce, ~ParamReceived,
         Kept(up', up, P), Kept(down', down, P)
  PROVE  ParamInv'
<1>1. param_recieved' = param_recieved /\ \E r \in {-1, 0} : Around(r)
  BY DEF spinOnce, negotiateTopics, OtherVersion, syncTime, TxStop, ServiceCallback,
         ClientCallback, NoFrame
<1>2. PICK r \in {-1, 0} : Around(r)
  BY <1>1
<1>3. params' = params /\ values' = values
  BY <1>1, <1>2 DEF Around, ParamInv
<1>4. CASE pc = "param" /\ param_age > ParamTimeout
  <2>1. expired' = expired \cup {params} /\ pc' # "param"
    BY <1>2, <1>4 DEF Around
  <2> QED BY <1>3, <2>1, ParamQuiet
<1>5. CASE ~(pc = "param" /\ param_age > ParamTimeout)
  <2>1. expired' = expired /\ (pc' = "param" <=> pc = "param")
    BY <1>1, <1>2, <1>5 DEF Around, ParamInv
  <2> QED BY <1>1, <1>3, <2>1, ParamQuiet
<1> QED BY <1>4, <1>5

(* The answer that comes is to the current parameter, or there was one     *)
(* given up before it, and then the current one is late as well.           *)
LEMMA ParamComes ==
  ASSUME Typed, ParamInv, ParamReceived, Kept(up', up, P), Kept(down', down, P)
  PROVE  ParamInv'
<1> DEFINE n == Head(down).n
<1>1. /\ down # <<>> /\ down' = Tail(down) /\ Head(down).k \in P
      /\ param_recieved' = TRUE /\ req_param_resp' = n /\ Around(0)
  BY DEF ParamReceived, Frame, P
<1>2. params' = params
  BY <1>1 DEF Around
<1>3. CASE pc # "param"
  <2>1. expired' = expired /\ values' = values /\ pc' # "param"
    BY <1>1, <1>3 DEF Around
  <2> QED BY <1>2, <1>3, <2>1, ParamQuiet
<1>4. CASE pc = "param" /\ param_age > ParamTimeout
  <2>1. expired' = expired \cup {params} /\ values' = values /\ pc' # "param"
    BY <1>1, <1>4 DEF Around
  <2> QED BY <1>2, <2>1, ParamQuiet
<1>5. CASE pc = "param" /\ ~(param_age > ParamTimeout)
  <2>1. /\ pc' = "loop" /\ expired' = expired
        /\ values' = values \cup {[asked |-> params, got |-> n]}
    BY <1>1, <1>5 DEF Around
  <2>2. /\ n \in Numbers(down, P)
        /\ n \notin From(expired) => n \notin Numbers(down', P) /\ n \notin Numbers(up, P)
    BY <1>1, OnceSymmetric, OnceRead DEF ParamInv, Typed, Lines
  <2>3. n \in Int /\ n <= params /\ (n \in From(expired) \/ n = params)
    BY <2>2 DEF ParamInv, OnLine
  <2>4. Numbers(up', P) \subseteq Numbers(up, P) /\ Numbers(down', P) \subseteq Numbers(down, P)
    BY NumbersKept
  <2>5. ASSUME NEW m \in OnLine(P)' PROVE m \in From(expired)
    <3>1. m \in OnLine(P)
      BY <2>4 DEF OnLine
    <3>2. CASE n \in From(expired)
      <4>1. PICK e \in expired : e <= n
        BY <3>2 DEF From
      <4>2. e \in Int /\ e <= params /\ params \in From(expired)
        BY <2>3, <4>1 DEF From, ParamInv, Typed
      <4> QED BY <3>1, <4>2 DEF ParamInv
    <3>3. CASE n \notin From(expired)
      <4>1. m # n
        BY <2>2, <2>4, <3>3 DEF OnLine
      <4> QED BY <2>3, <3>1, <3>3, <4>1 DEF ParamInv
    <3> QED BY <3>2, <3>3
  <2>6. Once(up, down, P, From(expired))'
    BY <2>1, OnceKept DEF ParamInv
  <2>7. ParamTrue'
    <3>1. n = params \/ \E e \in expired : e <= n
      BY <2>3 DEF From
    <3> QED BY <2>1, <3>1 DEF ParamInv, ParamTrue
  <2>8. OnLine(P)' \subseteq {m \in Int : m <= params}
    BY <2>4 DEF OnLine, ParamInv
  <2> QED BY <1>2, <2>1, <2>5, <2>6, <2>7, <2>8 DEF ParamInv
<1> QED BY <1>3, <1>4, <1>5

(* A parameter is asked for: nothing of an earlier one is on the line.     *)
LEMMA ParamAsked ==
  ASSUME Typed, ParamInv, requestParam
  PROVE  ParamInv'
<1> DEFINE n == params + 1
<1>1. /\ pc = "loop" /\ pc' = "param" /\ ~param_recieved' /\ params' = n /\ n \in Int
      /\ up' = Append(up, Param(n)) /\ down' = down /\ expired' = expired /\ values' = values
  BY DEF requestParam, Typed
<1>2. Param(n) \in Frames /\ Param(n).k \in P /\ Param(n).n = n
  BY <1>1, FrameFacts DEF P
<1>3. n \notin From(expired) => n \notin Numbers(up, P) /\ n \notin Numbers(down, P)
  BY <1>1 DEF ParamInv, OnLine
<1>4. /\ Once(up', down', P, From(expired'))
      /\ \A m : m \in Numbers(up', P) <=> m \in Numbers(up, P) \/ m = n
  BY <1>1, <1>2, <1>3, OnceSent DEF ParamInv, Typed, Lines
<1>5. OnLine(P)' = OnLine(P) \cup {n}
  BY <1>1, <1>4 DEF OnLine
<1>6. OnLine(P)' \subseteq {m \in Int : m <= params'}
  BY <1>1, <1>5 DEF ParamInv, Typed
<1>7. \A m \in OnLine(P)' : m \in From(expired') \/ (pc' = "param" /\ m = params')
  BY <1>1, <1>5 DEF ParamInv
<1> QED BY <1>1, <1>4, <1>6, <1>7 DEF ParamInv, ParamTrue

(* The host answers, or not.                                               *)
LEMMA ParamAnswered ==
  ASSUME Typed, ParamInv, handleParameterRequest
  PROVE  ParamInv'
<1> DEFINE n == Head(up).n
<1>1. /\ up # <<>> /\ up' = Tail(up) /\ Head(up).k = "param"
      /\ down' = down \/ down' = Append(down, Param(n))
      /\ pc' = pc /\ params' = params /\ param_recieved' = param_recieved
      /\ expired' = expired /\ values' = values
  BY DEF handleParameterRequest, Received, send, parameter
<1>2. /\ Head(up) \in Frames /\ n \in Numbers(up, P)
      /\ n \notin From(expired) => n \notin Numbers(up', P) /\ n \notin Numbers(down, P)
  BY <1>1, OnceRead DEF ParamInv, Typed, Lines, P
<1>3. up' \in Seq(Frames) /\ Kept(up', up, P) /\ Kept(down, down, P)
  BY <1>1, KeptTail, KeptSame DEF Typed, Lines
<1>4. CASE down' = down
  BY <1>1, <1>3, <1>4, ParamQuiet
<1>5. CASE down' = Append(down, Param(n))
  <2>1. Param(n) \in Frames /\ Param(n).k \in P /\ Param(n).n = n
    BY <1>1, <1>2, FrameFacts DEF P, Numbered
  <2>2. Once(down, up', P, From(expired))
    BY <1>3, OnceKept, OnceSymmetric DEF ParamInv
  <2>3. /\ Once(down', up', P, From(expired))
        /\ \A m : m \in Numbers(down', P) <=> m \in Numbers(down, P) \/ m = n
    <3>1. down \in Seq(Frames) /\ up' \in Seq(Frames)
      BY <1>3 DEF Typed, Lines
    <3>2. n \notin From(expired) => n \notin Numbers(down, P) /\ n \notin Numbers(up', P)
      BY <1>2
    <3>3. /\ Once(Append(down, Param(n)), up', P, From(expired))
          /\ \A m : m \in Numbers(Append(down, Param(n)), P) <=> m \in Numbers(down, P) \/ m = n
      BY <2>1, <2>2, <3>1, <3>2, OnceSent
    <3> QED BY <1>5, <3>3
  <2>4. OnLine(P)' \subseteq OnLine(P)
    BY <1>2, <1>3, <2>3, NumbersKept DEF OnLine
  <2>5. Once(up, down, P, From(expired))'
    BY <1>1, <2>3, OnceSymmetric
  <2> QED BY <1>1, <2>4, <2>5 DEF ParamInv, ParamTrue
<1> QED BY <1>1, <1>4, <1>5

LEMMA ParamStep ==
  ASSUME Typed, ParamInv, [Next]_vars
  PROVE  ParamInv'
<1>1. CASE requestParam
  BY <1>1, ParamAsked
<1>2. CASE handleParameterRequest
  BY <1>2, ParamAnswered
<1>3. CASE ~requestParam /\ ~handleParameterRequest
  <2>1. Kept(up', up, P) /\ Kept(down', down, P)
    BY <1>3, StepLines DEF P, Numbered
  <2>2. CASE spinOnce
    BY <2>1, <2>2, ParamSpin, ParamComes
  <2>3. CASE call
    BY <2>1, <2>3, ParamQuiet DEF call, parameter
  <2>4. CASE Reset
    BY <2>1, <2>4, ParamQuiet DEF Reset
  <2>5. CASE ~spinOnce /\ ~call /\ ~Reset
    BY <1>3, <2>1, <2>5, ProgramElsewhere, ParamQuiet DEF program
  <2> QED BY <2>2, <2>3, <2>4, <2>5
<1> QED BY <1>1, <1>2, <1>3

(* requestParam() of node_handle.h returns the parameter it asked for,     *)
(* unless it or an earlier one was given up.                               *)
THEOREM ParametersTrue == Spec => []ParamTrue
<1>1. Init => ParamInv
  BY ParamInit
<1>2. Typed /\ Typed' /\ ParamInv /\ [Next]_vars => ParamInv'
  BY ParamStep
<1>3. ParamInv => ParamTrue
  BY DEF ParamInv
<1> QED BY <1>1, <1>2, <1>3, TypeCorrect, PTL DEF Spec

----------------------------------------------------------------------------
(* Calls: only the one under way has a frame, on the line or in run(), and *)
(* one, but for those from a call on that was broken off.                  *)
C == {"call", "answer"}

Held == IF run = "proxy" THEN {serving} ELSE {}

CallInv ==
  /\ interrupted \subseteq Int
  /\ pc = "call" => waiting
  /\ OnLine(C) \cup Held \subseteq {n \in Int : n <= calls}
  /\ \A n \in OnLine(C) \cup Held : n \in From(interrupted) \/ (pc = "call" /\ n = calls)
  /\ \A n \in Held : n \notin From(interrupted) => n \notin OnLine(C)
  /\ Once(up, down, C, From(interrupted))
  /\ CallTrue

LEMMA CallInit == ASSUME Init PROVE CallInv
<1>1. /\ up = <<>> /\ down = <<>> /\ interrupted = {} /\ answers = {} /\ pc = "loop"
      /\ run = "read"
  BY DEF Init, DeviceInit, ClientInit
<1>2. OnLine(C) = {} /\ Held = {}
  BY <1>1, NumbersEmpty DEF OnLine, Held
<1>3. Once(up, down, C, From(interrupted))
  <2>1. 1..Len(<<>>) = {}
    OBVIOUS
  <2> QED BY <1>1, <2>1, NumbersEmpty DEF Once
<1> QED BY <1>1, <1>2, <1>3 DEF CallInv, CallTrue

(* A step in which nothing of a call is sent, and at most the current one  *)
(* is broken off.                                                          *)
LEMMA CallQuiet ==
  ASSUME Typed, CallInv, Kept(up', up, C), Kept(down', down, C), Held' \subseteq Held,
         calls' = calls, answers' = answers,
         \/ interrupted' = interrupted /\ (pc' = "call" <=> pc = "call") /\ waiting' = waiting
         \/ interrupted' = interrupted /\ pc # "call" /\ pc' # "call"
         \/ interrupted' = interrupted \cup {calls} /\ pc' # "call"
  PROVE  CallInv'
<1>1. /\ interrupted' \subseteq Int /\ interrupted \subseteq interrupted'
      /\ From(interrupted) \subseteq From(interrupted') /\ interrupted' \subseteq From(interrupted')
  <2>1. interrupted' = interrupted \/ interrupted' = interrupted \cup {calls}
    OBVIOUS
  <2>2. interrupted \subseteq Int /\ calls \in Int
    BY DEF CallInv, Typed
  <2>3. interrupted \in SUBSET Int /\ interrupted' \in SUBSET Int /\ interrupted \subseteq interrupted'
    BY <2>1, <2>2
  <2> QED BY <2>3, FromGrows
<1>2. OnLine(C)' \subseteq OnLine(C)
  BY NumbersKept DEF OnLine
<1>3. Once(up, down, C, From(interrupted))'
  BY <1>1, OnceKept DEF CallInv
<1>4. \A n \in OnLine(C)' \cup Held' : n \in From(interrupted') \/ (pc' = "call" /\ n = calls')
  <2> SUFFICES ASSUME NEW n \in OnLine(C)' \cup Held', n \notin From(interrupted')
               PROVE  pc' = "call" /\ n = calls
    OBVIOUS
  <2>1. n \in OnLine(C) \cup Held /\ n \notin From(interrupted)
    BY <1>1, <1>2
  <2>2. pc = "call" /\ n = calls
    BY <2>1 DEF CallInv
  <2>3. calls \notin interrupted'
    BY <1>1, <2>2
  <2> QED BY <2>2, <2>3
<1>5. CallTrue'
  BY <1>1 DEF CallInv, CallTrue
<1>6. OnLine(C)' \cup Held' \subseteq {n \in Int : n <= calls'}
  BY <1>2 DEF CallInv
<1>7. \A n \in Held' : n \notin From(interrupted') => n \notin OnLine(C)'
  BY <1>1, <1>2 DEF CallInv
<1>8. pc' = "call" => waiting'
  BY DEF CallInv
<1> QED BY <1>1, <1>3, <1>4, <1>5, <1>6, <1>7, <1>8 DEF CallInv

LEMMA CallSpin ==
  ASSUME Typed, CallInv, spinOnce, ~ClientCallback, Held' \subseteq Held,
         Kept(up', up, C), Kept(down', down, C)
  PROVE  CallInv'
<1>1. waiting' = waiting /\ answers' = answers /\ \E r \in {-1, 0} : Around(r)
  BY DEF spinOnce, negotiateTopics, OtherVersion, syncTime, ParamReceived, TxStop,
         ServiceCallback, NoFrame
<1>2. PICK r \in {-1, 0} : Around(r)
  BY <1>1
<1> DEFINE leaves == pc = "call" /\ (r = -1 \/ ~waiting' \/ ~configured_')
<1>3. calls' = calls
  BY <1>2 DEF Around
<1>4. CASE leaves
  <2>1. waiting'
    BY <1>1, <1>4 DEF CallInv
  <2>2. interrupted' = interrupted \cup {calls} /\ pc' # "call"
    BY <1>2, <1>4, <2>1 DEF Around
  <2> QED BY <1>1, <1>3, <2>2, CallQuiet
<1>5. CASE ~leaves
  <2>1. interrupted' = interrupted /\ (pc' = "call" <=> pc = "call")
    BY <1>2, <1>5 DEF Around
  <2> QED BY <1>1, <1>3, <2>1, CallQuiet
<1> QED BY <1>4, <1>5

(* The answer that comes is to the call under way, or there was one broken *)
(* off before it, and then the one under way is late as well.              *)
LEMMA CallAnswered ==
  ASSUME Typed, CallInv, ClientCallback, Held' \subseteq Held,
         Kept(up', up, C), Kept(down', down, C)
  PROVE  CallInv'
<1> DEFINE n == Head(down).n
<1>1. /\ down # <<>> /\ down' = Tail(down) /\ Head(down).k \in C
      /\ ~waiting' /\ Around(0)
      /\ answers' = answers \cup {[to |-> IF pc = "call" THEN calls ELSE 0, n |-> n]}
  BY DEF ClientCallback, Frame, C
<1>2. calls' = calls /\ interrupted' = interrupted /\ pc' # "call"
  BY <1>1 DEF Around
<1>3. /\ n \in Numbers(down, C)
      /\ n \notin From(interrupted) => n \notin Numbers(down', C) /\ n \notin Numbers(up, C)
  BY <1>1, OnceSymmetric, OnceRead DEF CallInv, Typed, Lines
<1>4. n \in OnLine(C) /\ n \in Int /\ n <= calls
      /\ (n \in From(interrupted) \/ (pc = "call" /\ n = calls))
  BY <1>3 DEF CallInv, OnLine
<1>5. Numbers(up', C) \subseteq Numbers(up, C) /\ Numbers(down', C) \subseteq Numbers(down, C)
  BY NumbersKept
<1>6. ASSUME NEW m \in OnLine(C)' \cup Held' PROVE m \in From(interrupted)
  <2>1. m \in OnLine(C) \cup Held
    BY <1>5 DEF OnLine
  <2>2. CASE n \in From(interrupted)
    <3>1. PICK e \in interrupted : e <= n
      BY <2>2 DEF From
    <3>2. e \in Int /\ e <= calls /\ calls \in From(interrupted)
      BY <1>4, <3>1 DEF From, CallInv, Typed
    <3> QED BY <2>1, <3>2 DEF CallInv
  <2>3. CASE n \notin From(interrupted)
    <3>1. n \notin Held /\ n \notin OnLine(C)'
      BY <1>3, <1>4, <1>5, <2>3 DEF OnLine, CallInv
    <3>2. m # n
      BY <3>1
    <3> QED BY <1>4, <2>1, <2>3, <3>2 DEF CallInv
  <2> QED BY <2>2, <2>3
<1>7. Once(up, down, C, From(interrupted))'
  BY <1>2, OnceKept DEF CallInv
<1>8. CallTrue'
  <2>1. (IF pc = "call" THEN calls ELSE 0) = n \/ \E e \in interrupted : e <= n
    BY <1>4 DEF From
  <2> QED BY <1>1, <1>2, <2>1 DEF CallInv, CallTrue
<1>9. OnLine(C)' \cup Held' \subseteq {m \in Int : m <= calls}
  BY <1>5 DEF OnLine, CallInv
<1> QED BY <1>2, <1>6, <1>7, <1>8, <1>9 DEF CallInv

(* A call is made: nothing of an earlier one is left.                      *)
LEMMA CallMade ==
  ASSUME Typed, CallInv, call, Held' \subseteq Held
  PROVE  CallInv'
<1> DEFINE n == calls + 1
<1>1. /\ pc = "loop" /\ pc' = "call" /\ waiting' /\ calls' = n /\ n \in Int
      /\ up' = Append(up, Call(n)) /\ down' = down
      /\ interrupted' = interrupted /\ answers' = answers
  BY DEF call, Typed
<1>2. Call(n) \in Frames /\ Call(n).k \in C /\ Call(n).n = n
  BY <1>1, FrameFacts DEF C
<1>3. n \notin OnLine(C) /\ n \notin Held
  BY <1>1 DEF CallInv, Typed
<1>4. /\ Once(up', down', C, From(interrupted'))
      /\ \A m : m \in Numbers(up', C) <=> m \in Numbers(up, C) \/ m = n
  BY <1>1, <1>2, <1>3, OnceSent DEF CallInv, Typed, Lines, OnLine
<1>5. \A m : m \in OnLine(C)' <=> m \in OnLine(C) \/ m = n
  BY <1>1, <1>4 DEF OnLine
<1>6. OnLine(C)' \cup Held' \subseteq {m \in Int : m <= calls'}
  BY <1>1, <1>5 DEF CallInv, Typed
<1>7. \A m \in OnLine(C)' \cup Held' : m \in From(interrupted') \/ (pc' = "call" /\ m = calls')
  BY <1>1, <1>5 DEF CallInv
<1>8. \A m \in Held' : m \notin From(interrupted') => m \notin OnLine(C)'
  BY <1>1, <1>3, <1>5 DEF CallInv
<1>9. CallTrue'
  BY <1>1 DEF CallInv, CallTrue
<1> QED BY <1>1, <1>4, <1>6, <1>7, <1>8, <1>9 DEF CallInv

(* run() takes the call from the line to the service.                      *)
LEMMA CallTaken ==
  ASSUME Typed, CallInv, handleCall
  PROVE  CallInv'
<1> DEFINE n == Head(up).n
<1>1. /\ up # <<>> /\ up' = Tail(up) /\ down' = down /\ Head(up).k \in C
      /\ run = "read" /\ (run' = "proxy" => serving' = n)
      /\ pc' = pc /\ waiting' = waiting /\ calls' = calls
      /\ answers' = answers /\ interrupted' = interrupted
  <2>1. "call" \in C
    BY DEF C
  <2>2. Received("call") /\ down' = down /\ ((run' = "proxy" /\ serving' = n) \/ run' = run)
    BY DEF handleCall
  <2>3. /\ up # <<>> /\ up' = Tail(up) /\ Head(up).k = "call" /\ run = "read"
        /\ pc' = pc /\ UNCHANGED service
    BY <2>2 DEF Received
  <2> QED BY <2>1, <2>2, <2>3 DEF service
<1>2. /\ n \in Numbers(up, C)
      /\ n \notin From(interrupted) => n \notin Numbers(up', C) /\ n \notin Numbers(down, C)
  BY <1>1, OnceRead DEF CallInv, Typed, Lines
<1>3. Kept(up', up, C) /\ Kept(down', down, C)
  BY <1>1, KeptTail, KeptSame DEF Typed, Lines
<1>4. Numbers(up', C) \subseteq Numbers(up, C)
  BY <1>3, NumbersKept
<1>5. Once(up, down, C, From(interrupted))'
  BY <1>1, <1>3, OnceKept DEF CallInv
<1>6. Held' \subseteq {n} /\ OnLine(C)' \cup Held' \subseteq OnLine(C)
  BY <1>1, <1>2, <1>4 DEF Held, OnLine
<1>7. n \notin From(interrupted) => n \notin OnLine(C)'
  BY <1>1, <1>2 DEF OnLine
<1>8. CallTrue'
  BY <1>1 DEF CallInv, CallTrue
<1> QED BY <1>1, <1>5, <1>6, <1>7, <1>8 DEF CallInv

(* The service returns, and its answer goes to the line.                   *)
LEMMA CallServed ==
  ASSUME Typed, CallInv, ProxyReturns
  PROVE  CallInv'
<1>1. /\ run = "proxy" /\ run' = "read" /\ up' = up
      /\ down' = down \/ down' = Append(down, Answer(serving))
      /\ pc' = pc /\ waiting' = waiting /\ calls' = calls
      /\ answers' = answers /\ interrupted' = interrupted
  BY DEF ProxyReturns, Gone, send, service
<1>2. Held = {serving} /\ Held' = {} /\ serving \in Int
  BY <1>1 DEF Held, Typed
<1>3. CASE down' = down
  <2>1. Kept(up', up, C) /\ Kept(down', down, C)
    BY <1>1, <1>3, KeptSame DEF Typed, Lines
  <2> QED BY <1>1, <1>2, <2>1, CallQuiet
<1>4. CASE down' = Append(down, Answer(serving))
  <2>1. Answer(serving) \in Frames /\ Answer(serving).k \in C /\ Answer(serving).n = serving
    BY <1>2, FrameFacts DEF C
  <2>2. serving \notin From(interrupted) => serving \notin Numbers(up, C) /\ serving \notin Numbers(down, C)
    BY <1>2 DEF CallInv, OnLine
  <2>3. Once(down, up, C, From(interrupted))
    BY OnceSymmetric DEF CallInv
  <2>4. /\ Once(down', up, C, From(interrupted))
        /\ \A m : m \in Numbers(down', C) <=> m \in Numbers(down, C) \/ m = serving
    <3>1. down \in Seq(Frames) /\ up \in Seq(Frames)
      BY DEF Typed, Lines
    <3> DEFINE x == Answer(serving)
    <3>2. /\ x \in Frames /\ x.k \in C
          /\ x.n \notin From(interrupted) => x.n \notin Numbers(down, C) /\ x.n \notin Numbers(up, C)
      BY <2>1, <2>2
    <3>3. /\ Once(Append(down, x), up, C, From(interrupted))
          /\ \A m : m \in Numbers(Append(down, x), C) <=> m \in Numbers(down, C) \/ m = x.n
      BY <2>3, <3>1, <3>2, OnceSent
    <3> QED BY <1>4, <2>1, <3>3
  <2>5. Once(up, down, C, From(interrupted))'
    BY <1>1, <2>4, OnceSymmetric
  <2>6. OnLine(C)' \cup Held' \subseteq OnLine(C) \cup Held
    BY <1>1, <1>2, <2>4 DEF OnLine
  <2>7. CallTrue'
    BY <1>1 DEF CallInv, CallTrue
  <2> QED BY <1>1, <1>2, <2>5, <2>6, <2>7 DEF CallInv
<1> QED BY <1>1, <1>3, <1>4

LEMMA CallStep ==
  ASSUME Typed, CallInv, [Next]_vars
  PROVE  CallInv'
<1>1. CASE handleCall
  BY <1>1, CallTaken
<1>2. CASE ProxyReturns
  BY <1>2, CallServed
<1>3. CASE ~handleCall /\ ~ProxyReturns
  <2>1. Held' \subseteq Held
    BY <1>3, ServingElsewhere DEF Held
  <2>2. CASE call
    BY <2>1, <2>2, CallMade
  <2>3. CASE ~call
    <3>1. Kept(up', up, C) /\ Kept(down', down, C)
      BY <1>3, <2>3, StepLines DEF C, Numbered
    <3>2. CASE spinOnce
      BY <2>1, <3>1, <3>2, CallSpin, CallAnswered
    <3>3. CASE requestParam
      BY <2>1, <3>1, <3>3, CallQuiet DEF requestParam, service
    <3>4. CASE Reset
      <4>1. calls' = calls /\ answers' = answers /\ pc' = "loop"
            /\ ((interrupted' = interrupted /\ pc # "call") \/ interrupted' = interrupted \cup {calls})
        BY <3>4 DEF Reset
      <4> QED BY <2>1, <3>1, <4>1, CallQuiet
    <3>5. CASE ~spinOnce /\ ~requestParam /\ ~Reset
      BY <2>1, <2>3, <3>1, <3>5, ProgramElsewhere, CallQuiet DEF program
    <3> QED BY <3>2, <3>3, <3>4, <3>5
  <2> QED BY <2>2, <2>3
<1> QED BY <1>1, <1>2, <1>3

(* call() of service_client.h gets the answer to this call, unless it or   *)
(* an earlier one was broken off, and none comes outside of a call.        *)
THEOREM AnswersTrue == Spec => []CallTrue
<1>1. Init => CallInv
  BY CallInit
<1>2. Typed /\ Typed' /\ CallInv /\ [Next]_vars => CallInv'
  BY CallStep
<1>3. CallInv => CallTrue
  BY DEF CallInv
<1> QED BY <1>1, <1>2, <1>3, TypeCorrect, PTL DEF Spec

----------------------------------------------------------------------------
(* The device's service: only calls that wait have a frame on the line,    *)
(* and one, and the response that nobody has taken yet is the one of the   *)
(* only call under way, but for calls from one on that ran beside another. *)
S == {"request", "reply"}

Called == {n \in Requests : caller[n] # "new"}

CallersInv ==
  /\ caller \in [Requests -> {"new", "send", "write", "wait", "done"}]
  /\ overlapped \subseteq Called
  /\ OnLine(S) \subseteq {n \in Requests : caller[n] \in {"wait", "done"}}
  /\ alive => \A n \in OnLine(S) : n \in From(overlapped) \/ caller[n] = "wait"
  /\ ~alive => response = 0 /\ Open = {}
  /\ host # "python" => response = 0 /\ Called = {}
  /\ response # 0 =>
       /\ response \in Requests
       /\ response \in From(overlapped)
            \/ (caller[response] \in {"wait", "done"} /\ Open \subseteq {response}
                /\ response \notin OnLine(S))
  /\ \A n, m \in Open : n # m => n \in overlapped
  /\ \A n \in Open, m \in Called : n < m => n \in overlapped
  /\ \A n \in Requests, m \in Called : n < m => n \in Called
  /\ Once(up, down, S, From(overlapped))
  /\ CallersTrue

LEMMA RequestsAreInt == Requests \subseteq Int
BY DEF Requests

LEMMA CallersInit == ASSUME Init PROVE CallersInv
<1>1. /\ up = <<>> /\ down = <<>> /\ response = 0 /\ results = {} /\ overlapped = {}
      /\ caller = [n \in Requests |-> "new"]
  BY DEF Init, DeviceInit, ClientInit
<1>2. OnLine(S) = {} /\ Open = {} /\ Called = {}
  BY <1>1, NumbersEmpty DEF OnLine, Open, Called
<1>3. Once(up, down, S, From(overlapped))
  <2>1. 1..Len(<<>>) = {}
    OBVIOUS
  <2> QED BY <1>1, <2>1, NumbersEmpty DEF Once
<1>4. caller \in [Requests -> {"new", "send", "write", "wait", "done"}]
  BY <1>1
<1> QED BY <1>1, <1>2, <1>3, <1>4 DEF CallersInv, CallersTrue

(* Only EndSend() adds a frame; the device passes one on.                  *)
LEMMA CallersLine ==
  ASSUME Typed, CallersInv, [Next]_vars, \A n \in Requests : ~EndSend(n)
  PROVE  OnLine(S)' \subseteq OnLine(S) /\ Once(up', down', S, From(overlapped))
<1>1. CASE ~ServiceCallback
  <2>1. Kept(up', up, S) /\ Kept(down', down, S)
    BY <1>1, StepLines DEF S, Numbered
  <2> QED BY <2>1, NumbersKept, OnceKept DEF OnLine, CallersInv
<1>2. CASE ServiceCallback
  <2> DEFINE n == Head(down).n
  <2>1. /\ Kept(down', down, S) /\ down' = Tail(down) /\ down # <<>> /\ Head(down).k = "request"
        /\ Lines' /\ (Kept(up', up, S) \/ Kept(up', Append(up, Reply(n)), S))
    BY <1>2, Replied, KeptFewer DEF Typed, S, Numbered
  <2>2. CASE Kept(up', up, S)
    BY <2>1, <2>2, NumbersKept, OnceKept DEF OnLine, CallersInv
  <2>3. CASE Kept(up', Append(up, Reply(n)), S)
    <3>1. /\ Head(down) \in Frames /\ n \in Numbers(down, S)
          /\ n \notin From(overlapped) => n \notin Numbers(down', S) /\ n \notin Numbers(up, S)
      BY <2>1, OnceSymmetric, OnceRead DEF CallersInv, Typed, Lines, S
    <3>2. n \in Int
      BY <2>1, <3>1, FrameFacts DEF Numbered
    <3> DEFINE x == Reply(n)
    <3>3. x \in Frames /\ x.k \in S /\ x.n = n
      BY <3>2, FrameFacts DEF S
    <3>4. Once(up, down', S, From(overlapped))
      BY <2>1, KeptSame, OnceKept DEF CallersInv, Typed, Lines
    <3>5. x.n \notin From(overlapped) => x.n \notin Numbers(up, S) /\ x.n \notin Numbers(down', S)
      BY <3>1, <3>3
    <3>6. up \in Seq(Frames) /\ down' \in Seq(Frames)
      BY <2>1 DEF Typed, Lines
    <3>7. /\ Once(Append(up, x), down', S, From(overlapped))
          /\ \A m : m \in Numbers(Append(up, x), S) <=> m \in Numbers(up, S) \/ m = x.n
      BY <3>3, <3>4, <3>5, <3>6, OnceSent
    <3>8. Numbers(up', S) \subseteq Numbers(Append(up, x), S) /\ Numbers(down', S) \subseteq Numbers(down, S)
      BY <2>1, <2>3, NumbersKept
    <3>9. OnLine(S)' \subseteq OnLine(S)
      BY <3>1, <3>3, <3>7, <3>8 DEF OnLine
    <3>10. Kept(down', down', S)
      BY <3>6, KeptSame
    <3>11. Once(up', down', S, From(overlapped))
      BY <2>3, <3>7, <3>10, OnceKept
    <3> QED BY <3>9, <3>11
  <2> QED BY <2>1, <2>2, <2>3
<1> QED BY <1>1, <1>2

calling == <<caller, response, overlapped, results>>

(* The steps that have to do with these calls.                             *)
Concerned ==
  \/ handleReply \/ Gone \/ Start
  \/ \E n \in Requests : callback(n) \/ BeginSend(n) \/ EndSend(n) \/ Return(n)

LEMMA CallersElsewhere ==
  ASSUME [Next]_vars
  PROVE  /\ host' = host
         /\ ~Concerned => UNCHANGED calling /\ (alive' = alive \/ host = "server")
         /\ \A n \in Requests : callback(n) => host = "python" \/ UNCHANGED calling
<1> USE DEF clientVars, hostVars, lineVars, calling
<1>1. CASE Device \/ Program \/ Unheard
  BY <1>1 DEF Device, Program, Unheard
<1>2. CASE Fault
  <2>1. CASE LoseUp \/ LoseDown \/ (Reset /\ UNCHANGED <<hostVars, clientVars, serverVars>>)
    BY <1>2, <2>1 DEF Fault, LoseUp, LoseDown
  <2>2. CASE host = "python" /\ ReadFails
    BY <1>2, <2>2 DEF Fault, ReadFails
  <2>3. CASE host = "python" /\ (txStopRequest \/ Killed)
    BY <1>2, <2>3 DEF Fault, txStopRequest, Killed, Concerned
  <2>4. CASE host = "server" /\ (read_failed \/ Misjudged)
    BY <1>2, <2>4 DEF Fault, read_failed, Misjudged
  <2> QED BY <1>2, <2>1, <2>2, <2>3, <2>4 DEF Fault
<1>3. CASE Tick
  BY <1>3 DEF Tick
<1>4. CASE Python(Start)
  BY <1>4 DEF Python, Concerned
<1>5. CASE Python(Client)
  <2>1. host = "python" /\ host' = host
    BY <1>5 DEF Python
  <2>2. CASE LostSync
    BY <2>1, <2>2 DEF LostSync
  <2>3. CASE handleTimeRequest \/ Setup \/ handleParameterRequest \/ handleCall
    BY <2>1, <2>3 DEF handleTimeRequest, Setup, handleParameterRequest, handleCall, Received
  <2>4. CASE wait_for_service
    BY <2>1, <2>4 DEF wait_for_service
  <2>5. CASE ProxyReturns
    BY <2>1, <2>5 DEF ProxyReturns, Concerned
  <2>6. CASE handleReply
    BY <2>1, <2>6 DEF Concerned
  <2> QED BY <1>5, <2>2, <2>3, <2>4, <2>5, <2>6 DEF Python, Client
<1>6. ASSUME NEW n \in Requests, Python(Uses < MaxUses /\ More /\ callback(n)) \/ Python(Caller(n))
      PROVE  host = "python" /\ host' = host /\ Concerned
  BY <1>6 DEF Python, Caller, Concerned
<1>7. CASE Session(start)
  BY <1>7 DEF Session, start
<1>8. CASE Session(Server)
  <2>1. CASE sync_timeout \/ required_topics_check
    BY <1>8, <2>1 DEF Session, sync_timeout, required_topics_check
  <2>2. CASE setup_endpoint \/ handle_time \/ Unrecognized
    BY <1>8, <2>2 DEF Session, setup_endpoint, handle_time, Unrecognized, ServerReceived
  <2> QED BY <1>8, <2>1, <2>2 DEF Session, Server
<1>9. CASE UNCHANGED vars
  BY <1>9 DEF vars
<1> QED BY <1>1, <1>2, <1>3, <1>4, <1>5, <1>6, <1>7, <1>8, <1>9 DEF Next

(* What the lemmas below have in common.                                   *)
LineStep ==
  /\ OnLine(S)' \subseteq OnLine(S)
  /\ Once(up', down', S, From(overlapped))
  /\ host' = host

LEMMA CallersQuiet ==
  ASSUME CallersInv, LineStep, UNCHANGED calling, alive' = alive \/ host = "server"
  PROVE  CallersInv'
<1>1. UNCHANGED <<caller, response, overlapped, results>>
  BY DEF calling
<1>2. Open' = Open /\ Called' = Called
  BY <1>1 DEF Open, Called
<1>3. host = "server" => OnLine(S) = {} /\ response = 0 /\ Open = {}
  BY DEF CallersInv, Called, Open
<1>4. alive' => \A n \in OnLine(S)' : n \in From(overlapped) \/ caller[n] = "wait"
  BY <1>3 DEF CallersInv, LineStep
<1>5. ~alive' => response = 0 /\ Open = {}
  BY <1>3 DEF CallersInv
<1>6. CallersTrue'
  BY <1>1 DEF CallersInv, CallersTrue
<1>7. response # 0 =>
        /\ response \in Requests
        /\ response \in From(overlapped)
             \/ (caller[response] \in {"wait", "done"} /\ Open \subseteq {response}
                 /\ response \notin OnLine(S)')
  BY DEF CallersInv, LineStep
<1>8. OnLine(S)' \subseteq {n \in Requests : caller[n] \in {"wait", "done"}}
  BY DEF CallersInv, LineStep
<1>9. Once(up, down, S, From(overlapped))'
  BY <1>1 DEF LineStep
<1> QED BY <1>1, <1>2, <1>4, <1>5, <1>6, <1>7, <1>8, <1>9 DEF CallersInv, LineStep

(* A reply comes: if it is not of an overlapped call, its call is the only *)
(* one open.                                                               *)
LEMMA CallersReply ==
  ASSUME Typed, CallersInv, LineStep, handleReply
  PROVE  CallersInv'
<1> DEFINE n == Head(up).n
<1>1. /\ alive /\ alive' = alive /\ up # <<>> /\ up' = Tail(up) /\ Head(up).k \in S /\ down' = down
      /\ response' = n \/ response' = response
      /\ UNCHANGED <<caller, overlapped, results>>
  <2>1. Received("reply") /\ "reply" \in S
    BY DEF handleReply, S
  <2> QED BY <2>1 DEF handleReply, Received, hostVars
<1>2. Open' = Open /\ Called' = Called
  BY <1>1 DEF Open, Called
<1>3. CallersTrue'
  BY <1>1 DEF CallersInv, CallersTrue
<1>4. /\ n \in Numbers(up, S)
      /\ n \notin From(overlapped) => n \notin Numbers(up', S) /\ n \notin Numbers(down, S)
  BY <1>1, OnceRead DEF CallersInv, Typed, Lines
<1>5. n \in OnLine(S) /\ n \in Requests /\ host = "python"
      /\ (n \in From(overlapped) \/ caller[n] = "wait")
  BY <1>1, <1>4 DEF CallersInv, OnLine, Called
<1>6. ASSUME n \notin From(overlapped)
      PROVE  caller[n] = "wait" /\ Open \subseteq {n} /\ n \notin OnLine(S)'
  <2>1. caller[n] = "wait" /\ n \in Open
    BY <1>5, <1>6 DEF Open
  <2>2. n \notin overlapped
    <3>1. overlapped \in SUBSET Int
      BY RequestsAreInt DEF CallersInv, Called
    <3> QED BY <1>6, <3>1, FromGrows
  <2>3. Open \subseteq {n}
    BY <2>1, <2>2 DEF CallersInv
  <2>4. n \notin OnLine(S)'
    BY <1>1, <1>4, <1>6 DEF OnLine
  <2> QED BY <2>1, <2>3, <2>4
<1>7. response' # 0 =>
        /\ response' \in Requests
        /\ response' \in From(overlapped)
             \/ (caller[response'] \in {"wait", "done"} /\ Open \subseteq {response'}
                 /\ response' \notin OnLine(S)')
  BY <1>1, <1>5, <1>6 DEF CallersInv, LineStep
<1>8. OnLine(S)' \subseteq {m \in Requests : caller[m] \in {"wait", "done"}}
  BY DEF CallersInv, LineStep
<1>9. alive' => \A m \in OnLine(S)' : m \in From(overlapped) \/ caller[m] = "wait"
  BY <1>1 DEF CallersInv, LineStep
<1>10. Once(up, down, S, From(overlapped))'
  BY <1>1 DEF LineStep
<1>11. host' = "python"
  BY <1>5 DEF LineStep
<1> QED BY <1>1, <1>2, <1>3, <1>7, <1>8, <1>9, <1>10, <1>11 DEF CallersInv

(* A call begins: those it runs beside, and itself, are overlapped.        *)
LEMMA CallersCalled ==
  ASSUME Typed, CallersInv, LineStep, NEW n \in Requests, callback(n), host = "python"
  PROVE  CallersInv'
<1>1. /\ alive /\ alive' = alive /\ caller[n] = "new" /\ (n > 1 => caller[n - 1] # "new")
      /\ response' = 0 /\ results' = results
      /\ \E w \in {"send", "done"} : caller' = [caller EXCEPT ![n] = w]
      /\ overlapped' = (IF Open = {} THEN overlapped ELSE overlapped \cup Open \cup {n})
  BY DEF callback, hostVars
<1>2. caller \in [Requests -> {"new", "send", "write", "wait", "done"}]
  BY DEF CallersInv
<1>3. caller' \in [Requests -> {"new", "send", "write", "wait", "done"}]
      /\ caller'[n] \in {"send", "done"} /\ \A m \in Requests : m # n => caller'[m] = caller[m]
  BY <1>1, <1>2
<1>4. /\ Open \subseteq Called /\ Called \subseteq Requests
      /\ Called' = Called \cup {n} /\ n \notin Called
      /\ Open' \subseteq Open \cup {n} /\ n \notin Open
  BY <1>1, <1>3 DEF Open, Called
<1>5. overlapped \subseteq overlapped' /\ overlapped' \subseteq Called'
  BY <1>1, <1>4 DEF CallersInv
<1>6. From(overlapped) \subseteq From(overlapped')
  BY <1>5 DEF From
<1>7. n \notin OnLine(S)
  BY <1>1 DEF CallersInv
<1>8. OnLine(S)' \subseteq {m \in Requests : caller'[m] \in {"wait", "done"}}
  BY <1>3, <1>7 DEF CallersInv, LineStep
<1>9. \A m \in OnLine(S)' : m \in From(overlapped') \/ caller'[m] = "wait"
  <2> SUFFICES ASSUME NEW m \in OnLine(S)', m \notin From(overlapped')
               PROVE  caller'[m] = "wait"
    OBVIOUS
  <2>1. m \in OnLine(S) /\ m # n /\ m \in Requests /\ m \notin From(overlapped)
    BY <1>6, <1>7, <1>8 DEF LineStep
  <2>2. caller[m] = "wait"
    BY <1>1, <2>1 DEF CallersInv
  <2> QED BY <1>3, <2>1, <2>2
<1>10. \A k, m \in Open' : k # m => k \in overlapped'
  BY <1>1, <1>4, <1>5 DEF CallersInv
<1>11. \A k \in Requests : k < n => k \in Called
  <2> SUFFICES ASSUME NEW k \in Requests, k < n PROVE k \in Called
    OBVIOUS
  <2>1. k \in Int /\ n \in Int /\ 1 <= k /\ n - 1 \in Requests
    BY RequestsAreInt, UsesAreNat DEF Requests
  <2>2. n - 1 \in Called
    BY <1>1, <2>1 DEF Called
  <2>3. k = n - 1 \/ k < n - 1
    BY <2>1
  <2> QED BY <2>2, <2>3 DEF CallersInv
<1>12. \A k \in Requests, m \in Called' : k < m => k \in Called'
  BY <1>4, <1>11 DEF CallersInv
<1>13. \A k \in Open', m \in Called' : k < m => k \in overlapped'
  <2> SUFFICES ASSUME NEW k \in Open', NEW m \in Called', k < m PROVE k \in overlapped'
    OBVIOUS
  <2>1. k \in Int /\ m \in Int /\ n \in Int
    BY <1>4, RequestsAreInt
  <2>2. CASE k = n
    <3>1. m \in Called /\ n < m
      BY <1>4, <2>1, <2>2
    <3>2. n \in Called
      BY <3>1 DEF CallersInv
    <3> QED BY <1>4, <3>2
  <2>3. CASE k \in Open
    <3>1. CASE m \in Called
      BY <1>5, <2>3, <3>1 DEF CallersInv
    <3>2. CASE m = n
      BY <1>1, <2>3
    <3> QED BY <1>4, <3>1, <3>2
  <2> QED BY <1>4, <2>2, <2>3
<1>14. Once(up, down, S, From(overlapped))'
  <2>1. up' \in Seq(Frames) /\ down' \in Seq(Frames)
    BY DEF callback, deviceVars, Typed, Lines
  <2>2. Kept(up', up', S) /\ Kept(down', down', S)
    BY <2>1, KeptSame
  <2> QED BY <1>6, <2>2, OnceKept DEF LineStep
<1>15. CallersTrue'
  BY <1>1, <1>5 DEF CallersInv, CallersTrue
<1>16. host' = "python"
  BY DEF LineStep
<1> QED BY <1>1, <1>3, <1>5, <1>8, <1>9, <1>10, <1>12, <1>13, <1>14, <1>15, <1>16 DEF CallersInv

(* A call that has not sent its request has no use for the response.       *)
LEMMA CallersSending ==
  ASSUME CallersInv, NEW n \in Requests, caller[n] \in {"send", "write"}
  PROVE  /\ response = 0 \/ (response \in Requests /\ response \in From(overlapped))
         /\ n \in Open /\ n \in Called /\ n \notin OnLine(S) /\ alive /\ host = "python"
<1>1. n \in Open /\ n \in Called /\ n \notin OnLine(S)
  BY DEF Open, Called, CallersInv
<1>2. alive /\ host = "python"
  BY <1>1 DEF CallersInv
<1> QED BY <1>1, <1>2 DEF CallersInv

LEMMA CallersBegin ==
  ASSUME CallersInv, LineStep, NEW n \in Requests, BeginSend(n)
  PROVE  CallersInv'
<1>1. /\ caller[n] = "send" /\ caller' = [caller EXCEPT ![n] = "write"] /\ alive' = alive
      /\ UNCHANGED <<response, overlapped, results>>
  BY DEF BeginSend, hostVars
<1>2. caller \in [Requests -> {"new", "send", "write", "wait", "done"}]
  BY DEF CallersInv
<1>3. caller' \in [Requests -> {"new", "send", "write", "wait", "done"}]
      /\ caller'[n] = "write" /\ \A m \in Requests : m # n => caller'[m] = caller[m]
  BY <1>1, <1>2
<1>4. Open' = Open /\ Called' = Called
  BY <1>1, <1>3 DEF Open, Called
<1>5. /\ response = 0 \/ (response \in Requests /\ response \in From(overlapped))
      /\ n \notin OnLine(S) /\ alive /\ host = "python"
  BY <1>1, CallersSending
<1>6. \A m \in OnLine(S)' : m \in Requests /\ m # n /\ caller'[m] = caller[m]
  BY <1>3, <1>5 DEF CallersInv, LineStep
<1>7. OnLine(S)' \subseteq {m \in Requests : caller'[m] \in {"wait", "done"}}
  BY <1>6 DEF CallersInv, LineStep
<1>8. \A m \in OnLine(S)' : m \in From(overlapped) \/ caller'[m] = "wait"
  BY <1>5, <1>6 DEF CallersInv, LineStep
<1>9. Once(up, down, S, From(overlapped))'
  BY <1>1 DEF LineStep
<1>10. CallersTrue'
  BY <1>1 DEF CallersInv, CallersTrue
<1>11. host' = "python"
  BY <1>5 DEF LineStep
<1> QED BY <1>1, <1>3, <1>4, <1>5, <1>7, <1>8, <1>9, <1>10, <1>11 DEF CallersInv

(* The request goes to the line, the first frame of its call.              *)
LEMMA CallersSent ==
  ASSUME Typed, CallersInv, host' = host, NEW n \in Requests, EndSend(n)
  PROVE  CallersInv'
<1>1. /\ caller[n] = "write" /\ caller' = [caller EXCEPT ![n] = "wait"] /\ alive' = alive
      /\ up' = up /\ (down' = down \/ down' = Append(down, Request(n)))
      /\ UNCHANGED <<response, overlapped, results>>
  BY DEF EndSend, hostVars
<1>2. caller \in [Requests -> {"new", "send", "write", "wait", "done"}]
  BY DEF CallersInv
<1>3. caller' \in [Requests -> {"new", "send", "write", "wait", "done"}]
      /\ caller'[n] = "wait" /\ \A m \in Requests : m # n => caller'[m] = caller[m]
  BY <1>1, <1>2
<1>4. Open' = Open /\ Called' = Called
  BY <1>1, <1>3 DEF Open, Called
<1>5. /\ response = 0 \/ (response \in Requests /\ response \in From(overlapped))
      /\ n \notin OnLine(S) /\ alive /\ host = "python"
  BY <1>1, CallersSending
<1>6. /\ Once(down', up', S, From(overlapped))
      /\ \A m \in Numbers(down', S) : m \in Numbers(down, S) \/ m = n
  <2>1. up \in Seq(Frames) /\ down \in Seq(Frames) /\ n \in Int
    BY RequestsAreInt DEF Typed, Lines
  <2>2. Once(down, up, S, From(overlapped))
    BY OnceSymmetric DEF CallersInv
  <2> DEFINE x == Request(n)
  <2>3. x \in Frames /\ x.k \in S /\ x.n = n
    BY <2>1, FrameFacts DEF S
  <2>4. x.n \notin From(overlapped) => x.n \notin Numbers(down, S) /\ x.n \notin Numbers(up, S)
    BY <1>5, <2>3 DEF OnLine
  <2>5. /\ Once(Append(down, x), up, S, From(overlapped))
        /\ \A m : m \in Numbers(Append(down, x), S) <=> m \in Numbers(down, S) \/ m = x.n
    BY <2>1, <2>2, <2>3, <2>4, OnceSent
  <2>6. CASE down' = Append(down, x)
    BY <1>1, <2>3, <2>5, <2>6
  <2>7. CASE down' = down
    BY <1>1, <2>2, <2>7
  <2> QED BY <1>1, <2>6, <2>7
<1>7. OnLine(S)' \subseteq OnLine(S) \cup {n}
  BY <1>1, <1>6 DEF OnLine
<1>8. OnLine(S)' \subseteq {m \in Requests : caller'[m] \in {"wait", "done"}}
  BY <1>3, <1>7 DEF CallersInv
<1>9. \A m \in OnLine(S)' : m \in From(overlapped) \/ caller'[m] = "wait"
  <2> SUFFICES ASSUME NEW m \in OnLine(S)', m # n, m \notin From(overlapped)
               PROVE  caller'[m] = "wait"
    BY <1>3
  <2>1. m \in OnLine(S) /\ m \in Requests
    BY <1>7, <1>8
  <2> QED BY <1>3, <1>5, <2>1 DEF CallersInv
<1>10. Once(up, down, S, From(overlapped))'
  BY <1>1, <1>6, OnceSymmetric
<1>11. CallersTrue'
  BY <1>1 DEF CallersInv, CallersTrue
<1> QED BY <1>1, <1>3, <1>4, <1>5, <1>8, <1>9, <1>10, <1>11 DEF CallersInv

(* A call takes the response: it is its own, or of one from an overlapped  *)
(* one on, and then its own is late as well.                               *)
LEMMA CallersReturn ==
  ASSUME CallersInv, LineStep, NEW n \in Requests, Return(n)
  PROVE  CallersInv'
<1>1. /\ alive /\ caller[n] = "wait" /\ response # 0
      /\ caller' = [caller EXCEPT ![n] = "done"] /\ alive' = alive
      /\ results' = results \cup {[call |-> n, got |-> response]}
      /\ UNCHANGED <<response, overlapped>>
  BY DEF Return, hostVars
<1>2. caller \in [Requests -> {"new", "send", "write", "wait", "done"}]
  BY DEF CallersInv
<1>3. caller' \in [Requests -> {"new", "send", "write", "wait", "done"}]
      /\ caller'[n] = "done" /\ \A m \in Requests : m # n => caller'[m] = caller[m]
  BY <1>1, <1>2
<1>4. n \in Open /\ n \in Called /\ Open' = Open \ {n} /\ Called' = Called
  BY <1>1, <1>3 DEF Open, Called
<1>5. host = "python" /\ host' = "python"
  BY <1>4 DEF CallersInv, LineStep
<1>6. response \in Requests
      /\ (response \in From(overlapped) \/ (response = n /\ response \notin OnLine(S)))
  BY <1>1, <1>4 DEF CallersInv
<1>7. n \in From(overlapped) \/ (response = n /\ n \notin OnLine(S))
  <2> SUFFICES ASSUME response \in From(overlapped) PROVE n \in From(overlapped)
    BY <1>6
  <2>1. PICK e \in overlapped : e <= response
    BY DEF From
  <2>2. e \in Called /\ e \in Int /\ n \in Int
    BY RequestsAreInt DEF CallersInv, Called
  <2>3. CASE n < e
    <3>1. n \in overlapped
      BY <1>4, <2>2, <2>3 DEF CallersInv
    <3> QED BY <2>2, <3>1 DEF From
  <2>4. CASE e <= n
    BY <2>2, <2>4 DEF From
  <2> QED BY <2>2, <2>3, <2>4
<1>8. OnLine(S)' \subseteq {m \in Requests : caller'[m] \in {"wait", "done"}}
  BY <1>3 DEF CallersInv, LineStep
<1>9. \A m \in OnLine(S)' : m \in From(overlapped) \/ caller'[m] = "wait"
  <2> SUFFICES ASSUME NEW m \in OnLine(S)', m \notin From(overlapped)
               PROVE  caller'[m] = "wait"
    OBVIOUS
  <2>1. m \in OnLine(S) /\ m \in Requests /\ m # n
    BY <1>7, <1>8 DEF LineStep
  <2> QED BY <1>1, <1>3, <2>1 DEF CallersInv
<1>10. response \in From(overlapped)
         \/ (caller'[response] \in {"wait", "done"} /\ Open' \subseteq {response}
             /\ response \notin OnLine(S)')
  BY <1>1, <1>3, <1>4, <1>6 DEF CallersInv, LineStep
<1>11. Once(up, down, S, From(overlapped))'
  BY <1>1 DEF LineStep
<1>12. CallersTrue'
  <2>1. n = response \/ \E e \in overlapped : e <= response
    BY <1>6 DEF From
  <2> QED BY <1>1, <2>1 DEF CallersInv, CallersTrue
<1>13. \A k, m \in Open' : k # m => k \in overlapped
  BY <1>4 DEF CallersInv
<1>14. \A k \in Open', m \in Called : k < m => k \in overlapped
  BY <1>4 DEF CallersInv
<1> QED BY <1>1, <1>3, <1>4, <1>5, <1>6, <1>8, <1>9, <1>10, <1>11, <1>12, <1>13, <1>14
        DEF CallersInv

(* The node ends, and with it the calls it was serving.                    *)
LEMMA CallersGone ==
  ASSUME CallersInv, LineStep, Gone
  PROVE  CallersInv'
<1>1. /\ ~alive' /\ response' = 0 /\ UNCHANGED <<overlapped, results>>
      /\ caller' = [n \in Requests |-> IF caller[n] = "new" THEN "new" ELSE "done"]
  BY DEF Gone
<1>2. Open' = {} /\ Called' = Called
  BY <1>1 DEF Open, Called
<1>3. caller' \in [Requests -> {"new", "send", "write", "wait", "done"}]
  BY <1>1
<1>4. OnLine(S)' \subseteq {m \in Requests : caller'[m] \in {"wait", "done"}}
  BY <1>1 DEF CallersInv, LineStep
<1>5. Once(up, down, S, From(overlapped))'
  BY <1>1 DEF LineStep
<1>6. CallersTrue'
  BY <1>1 DEF CallersInv, CallersTrue
<1>7. host' # "python" => Called = {}
  BY DEF CallersInv, LineStep
<1> QED BY <1>1, <1>2, <1>3, <1>4, <1>5, <1>6, <1>7 DEF CallersInv

(* It is started on a line with nothing on it.                             *)
LEMMA CallersStart ==
  ASSUME CallersInv, LineStep, Start
  PROVE  CallersInv'
<1>1. /\ ~alive /\ up' = <<>> /\ down' = <<Topics>>
      /\ UNCHANGED <<response, caller, results, overlapped>>
  BY DEF Start
<1>2. Open' = Open /\ Called' = Called
  BY <1>1 DEF Open, Called
<1>3. OnLine(S)' = {}
  <2>1. Numbers(up', S) = {}
    BY <1>1, NumbersEmpty
  <2>2. \A i \in 1..Len(down') : down'[i].k \notin S
    BY <1>1 DEF Topics, S
  <2>3. Numbers(down', S) = {}
    BY <2>2 DEF Numbers
  <2> QED BY <2>1, <2>3 DEF OnLine
<1>4. response = 0
  BY <1>1 DEF CallersInv
<1>5. Once(up, down, S, From(overlapped))'
  BY <1>1 DEF LineStep
<1>6. CallersTrue'
  BY <1>1 DEF CallersInv, CallersTrue
<1>7. ~alive' => Open = {}
  BY <1>1 DEF CallersInv
<1>8. host' # "python" => Called = {}
  BY DEF CallersInv, LineStep
<1> QED BY <1>1, <1>2, <1>3, <1>4, <1>5, <1>6, <1>7, <1>8 DEF CallersInv

LEMMA CallersStep ==
  ASSUME Typed, CallersInv, [Next]_vars
  PROVE  CallersInv'
<1>1. host' = host
  BY CallersElsewhere
<1>2. CASE \E n \in Requests : EndSend(n)
  BY <1>1, <1>2, CallersSent
<1>3. CASE \A n \in Requests : ~EndSend(n)
  <2>1. LineStep
    BY <1>1, <1>3, CallersLine DEF LineStep
  <2>2. CASE handleReply
    BY <2>1, <2>2, CallersReply
  <2>3. CASE Gone
    BY <2>1, <2>3, CallersGone
  <2>4. CASE Start
    BY <2>1, <2>4, CallersStart
  <2>5. ASSUME NEW n \in Requests, callback(n) PROVE CallersInv'
    <3>1. CASE host = "python"
      BY <2>1, <2>5, <3>1, CallersCalled
    <3>2. CASE UNCHANGED calling
      BY <2>1, <2>5, <3>2, CallersQuiet DEF callback, hostVars
    <3> QED BY <2>5, <3>1, <3>2, CallersElsewhere
  <2>6. ASSUME NEW n \in Requests, BeginSend(n) PROVE CallersInv'
    BY <2>1, <2>6, CallersBegin
  <2>7. ASSUME NEW n \in Requests, Return(n) PROVE CallersInv'
    BY <2>1, <2>7, CallersReturn
  <2>8. CASE ~Concerned
    <3>1. UNCHANGED calling /\ (alive' = alive \/ host = "server")
      BY <2>8, CallersElsewhere
    <3> QED BY <2>1, <3>1, CallersQuiet
  <2> QED BY <1>3, <2>2, <2>3, <2>4, <2>5, <2>6, <2>7, <2>8 DEF Concerned
<1> QED BY <1>2, <1>3

(* ServiceServer.callback() of rosserial_python returns the answer to its  *)
(* call, unless this answer's call or an earlier one ran beside another.   *)
THEOREM ResponsesTrue == Spec => []CallersTrue
<1>1. Init => CallersInv
  BY CallersInit
<1>2. Typed /\ Typed' /\ CallersInv /\ [Next]_vars => CallersInv'
  BY CallersStep
<1>3. CallersInv => CallersTrue
  BY DEF CallersInv
<1> QED BY <1>1, <1>2, <1>3, TypeCorrect, PTL DEF Spec
---------------------------------------------------------------------------
(* Endpoints: what is on the line stays there until it is read or lost.    *)
Has(s, x) == \E i \in 1..Len(s) : s[i] = x

LEMMA HasMore ==
  ASSUME NEW s \in Seq(Frames), NEW t \in Seq(Frames), NEW x, Has(s, x) \/ Has(t, x)
  PROVE  Has(s \o t, x)
<1>1. /\ Len(s \o t) = Len(s) + Len(t)
      /\ \A i \in 1..Len(s) + Len(t) :
           (s \o t)[i] = IF i <= Len(s) THEN s[i] ELSE t[i - Len(s)]
  BY ConcatProperties
<1>2. ASSUME NEW i \in 1..Len(s), s[i] = x PROVE Has(s \o t, x)
  <2>1. i \in 1..Len(s) + Len(t) /\ (s \o t)[i] = x
    BY <1>1, <1>2
  <2> QED BY <1>1, <2>1 DEF Has
<1>3. ASSUME NEW i \in 1..Len(t), t[i] = x PROVE Has(s \o t, x)
  <2>1. /\ Len(s) + i \in 1..Len(s) + Len(t) /\ ~(Len(s) + i <= Len(s))
        /\ (Len(s) + i) - Len(s) = i
    OBVIOUS
  <2>2. (s \o t)[Len(s) + i] = x
    BY <1>1, <1>3, <2>1
  <2> QED BY <1>1, <2>1, <2>2 DEF Has
<1> QED BY <1>2, <1>3 DEF Has

LEMMA HasAppended ==
  ASSUME NEW s \in Seq(Frames), NEW y \in Frames
  PROVE  Has(Append(s, y), y) /\ \A x : Has(s, x) => Has(Append(s, y), x)
<1>1. <<y>> \in Seq(Frames) /\ Append(s, y) = s \o <<y>> /\ Has(<<y>>, y)
  BY AppendIsConcat DEF Has
<1> QED BY <1>1, HasMore

(* Whatever is sent after it.                                              *)
LEMMA HasAnother ==
  ASSUME NEW s \in Seq(Frames), NEW y, NEW x, Has(s, x)
  PROVE  Has(Append(s, y), x)
BY DEF Has

LEMMA HasTail ==
  ASSUME NEW s \in Seq(Frames), s # <<>>, NEW x, Has(s, x), Head(s) # x
  PROVE  Has(Tail(s), x)
<1>1. PICK i \in 1..Len(s) : s[i] = x
  BY DEF Has
<1>2. Len(Tail(s)) = Len(s) - 1 /\ \A j \in 1..Len(s) - 1 : Tail(s)[j] = s[j + 1]
  BY HeadTailProperties
<1>3. i # 1
  BY <1>1
<1>4. i - 1 \in 1..Len(s) - 1 /\ (i - 1) + 1 = i
  BY <1>3
<1> QED BY <1>1, <1>2, <1>4 DEF Has

LEMMA HasDrop ==
  ASSUME NEW s \in Seq(Frames), NEW n \in 1..Len(s), NEW x, Has(s, x), s[n] # x
  PROVE  Has(Drop(s, n), x)
<1> DEFINE a == SubSeq(s, 1, n - 1)
           b == SubSeq(s, n + 1, Len(s))
<1>1. a \in Seq(Frames) /\ Len(a) = n - 1 /\ \A i \in 1..n - 1 : a[i] = s[i]
  <2>1. \A i \in 1 .. n - 1 : s[i] \in Frames
    OBVIOUS
  <2> QED BY <2>1, SubSeqProperties
<1>2. b \in Seq(Frames) /\ Len(b) = Len(s) - n /\ \A i \in 1..Len(s) - n : b[i] = s[i + n]
  <2>1. \A i \in n + 1 .. Len(s) : s[i] \in Frames
    OBVIOUS
  <2> QED BY <2>1, SubSeqProperties
<1> HIDE DEF a, b
<1>3. PICK j \in 1..Len(s) : s[j] = x
  BY DEF Has
<1>4. CASE j < n
  <2>1. j \in 1..n - 1
    BY <1>4
  <2> QED BY <1>1, <1>2, <1>3, <2>1, HasMore DEF Has, Drop, a, b
<1>5. CASE j > n
  <2>1. j - n \in 1..Len(s) - n /\ (j - n) + n = j
    BY <1>5
  <2>2. b[j - n] = x
    BY <1>2, <1>3, <2>1
  <2>3. Has(b, x)
    BY <1>2, <2>1, <2>2 DEF Has
  <2> QED BY <1>1, <1>2, <2>3, HasMore DEF Drop, a, b
<1> QED BY <1>3, <1>4, <1>5

(* After the handler of a frame the line from the device has at least what *)
(* it had.                                                                 *)
LEMMA HasSent ==
  ASSUME Lines, NEW fs \in Seq(Frames), SendAndSync(fs)
  PROVE  \A x : Has(up, x) => Has(up', x)
<1> DEFINE more == IF configured_' /\ sync_age > SyncPeriod THEN <<Time>> ELSE <<>>
<1>1. more \in Seq(Frames)
  BY FrameFacts
<1>2. up' = (up \o fs) \o more
  BY DEF SendAndSync
<1>3. up \o fs \in Seq(Frames)
  BY DEF Lines
<1> HIDE DEF more
<1> QED BY <1>1, <1>2, <1>3, HasMore DEF Lines

---------------------------------------------------------------------------
(* The endpoints the host does not know.  The argument: the frames that    *)
(* tell them leave the line in three ways, read by the host, lost, or      *)
(* flushed, and who flushes asks again; the first request of a session is  *)
(* always of the second version.                                           *)

HideInv ==
  /\ host \in {"python", "server"}
  /\ host = "server" /\ ~alive => version_try = 2
  /\ OnlyFaultsHide

Asked == Has(down, Topics)
ToldOf(e) == e \in known \cup missed \/ Has(up, Info(e))

LEMMA HideMeans ==
  OnlyFaultsHide <=>
    (alive /\ configured_ /\ ~require /\ version # 1 => Asked \/ \A e \in Wanted : ToldOf(e))
BY DEF OnlyFaultsHide, Asked, ToldOf, Has

LEMMA InfoFacts ==
  /\ \A e : Info(e).k = "info" /\ Info(e).e = e
  /\ Topics.k = "topics" /\ TopicsVer1.k = "topics1" /\ Time.k = "time" /\ Stop.k = "stop"
BY DEF Info, Topics, TopicsVer1, Time, Stop

(* A step that takes no such frame off the line, nor makes the device      *)
(* configured.                                                             *)
LEMMA HideQuiet ==
  ASSUME OnlyFaultsHide, UNCHANGED <<host, known, missed, require>>,
         alive' /\ configured_' /\ version' # 1 => alive /\ configured_ /\ version # 1,
         Has(down, Topics) => Has(down', Topics),
         \A x : Has(up, x) => Has(up', x) \/ ~(\E e \in Wanted : x = Info(e))
  PROVE  OnlyFaultsHide'
<1>1. Wanted' = Wanted
  BY DEF Wanted, Served
<1>2. \A e \in Wanted : ToldOf(e) => ToldOf(e)'
  BY DEF ToldOf
<1>3. Asked => Asked'
  BY DEF Asked
<1>4. OnlyFaultsHide' <=>
        (alive' /\ configured_' /\ ~require' /\ version' # 1
           => Asked' \/ \A e \in Wanted' : ToldOf(e)')
  BY HideMeans DEF OnlyFaultsHide, Asked, ToldOf, Has
<1> QED BY <1>1, <1>2, <1>3, <1>4, HideMeans

LEMMA HideAsked ==
  ASSUME Lines, down' = Append(down, Topics)
  PROVE  OnlyFaultsHide'
<1>1. Has(down', Topics)
  BY HasAppended, FrameFacts DEF Lines
<1> QED BY <1>1 DEF OnlyFaultsHide, Has

(* requestTopics(): asked again, or spoilt and taken for lost.             *)
LEMMA HideRequested ==
  ASSUME Lines, requestTopics, host = "python", UNCHANGED <<host, known, configured_, require>>
  PROVE  OnlyFaultsHide'
<1>1. CASE Writing
  <2>1. configured_' => missed' = All \ known
    BY <1>1 DEF requestTopics
  <2>2. Wanted' = All
    BY DEF Wanted
  <2> QED BY <2>1, <2>2 DEF OnlyFaultsHide
<1>2. CASE ~Writing
  <2>1. down' = Append(down, Topics)
    BY <1>2 DEF requestTopics, WriteAnyway
  <2> QED BY <2>1, HideAsked
<1> QED BY <1>1, <1>2

(* The host reads a frame that is not about an endpoint it wants.          *)
LEMMA HasRead ==
  ASSUME Lines, up # <<>>, up' = Tail(up), NEW e, Head(up) # Info(e)
  PROVE  Has(up, Info(e)) => Has(up', Info(e))
BY HasTail DEF Lines

(* It reads one and sets it up.                                            *)
LEMMA HideSetUp ==
  ASSUME Lines, OnlyFaultsHide, up # <<>>, up' = Tail(up), Head(up).k = "info",
         known' = known \cup {Head(up).e}, missed' = missed \ {Head(up).e},
         UNCHANGED <<down, host, configured_, alive, require>>, version = 1 => version' = 1
  PROVE  OnlyFaultsHide'
<1>1. Wanted' = Wanted
  BY DEF Wanted, Served
<1>2. ASSUME NEW e \in Wanted, ToldOf(e) PROVE ToldOf(e)'
  <2>1. CASE e = Head(up).e
    BY <2>1 DEF ToldOf
  <2>2. CASE e # Head(up).e
    <3>1. Head(up) # Info(e)
      BY <2>2, InfoFacts
    <3>2. Has(up, Info(e)) => Has(up', Info(e))
      BY <3>1, HasRead
    <3> QED BY <1>2, <2>2, <3>2 DEF ToldOf
  <2> QED BY <2>1, <2>2
<1>3. Asked => Asked'
  BY DEF Asked
<1>4. OnlyFaultsHide' <=>
        (alive' /\ configured_' /\ ~require' /\ version' # 1
           => Asked' \/ \A e \in Wanted' : ToldOf(e)')
  BY DEF OnlyFaultsHide, Asked, ToldOf, Has
<1> QED BY <1>1, <1>2, <1>3, <1>4, HideMeans

(* The device, whichever frame it reads.                                   *)
LEMMA HideDevice ==
  ASSUME Lines, OnlyFaultsHide, Device
  PROVE  OnlyFaultsHide'
<1> USE DEF hostVars, serverVars, session, lineVars
<1>1. UNCHANGED <<host, known, missed, require, alive, version>>
  BY DEF Device
<1>2. CASE negotiateTopics
  <2> DEFINE infos == [i \in 1..Len(Endpoints) |-> Info(Endpoints[i])]
  <2>1. Len(Endpoints) \in Nat /\ \A i \in 1..Len(Endpoints) : Endpoints[i] \in STRING
    BY EndpointsAreNames
  <2>2. infos \in Seq(Frames) /\ Len(infos) = Len(Endpoints)
    <3>1. \A i \in 1..Len(Endpoints) : Info(Endpoints[i]) \in Frames
      BY <2>1, FrameFacts
    <3> QED BY <2>1, <3>1
  <2>3. \A i \in 1..Len(Endpoints) : Has(infos, Info(Endpoints[i]))
    BY <2>2 DEF Has
  <2>4. up' = (up \o <<Time>>) \o infos
    BY <1>2 DEF negotiateTopics
  <2> HIDE DEF infos
  <2>5. up \o <<Time>> \in Seq(Frames)
    BY FrameFacts DEF Lines
  <2>6. \A i \in 1..Len(Endpoints) : Has(up', Info(Endpoints[i]))
    BY <2>2, <2>3, <2>4, <2>5, HasMore
  <2>7. \A e \in Wanted' : \E i \in 1..Len(Endpoints) : e = Endpoints[i]
    BY DEF Wanted, Served, All
  <2> QED BY <2>6, <2>7 DEF OnlyFaultsHide, Has
<1>3. CASE ~negotiateTopics
  <2>1. configured_' => configured_
    BY <1>3 DEF Device, spinOnce, OtherVersion, syncTime, ParamReceived, TxStop, ServiceCallback,
                ClientCallback, NoFrame, Connected
  <2>2. Has(down, Topics) => Has(down', Topics)
    <3>1. CASE NoFrame
      BY <3>1 DEF NoFrame
    <3>2. ASSUME NEW k \in {"topics1", "time", "param", "stop", "request", "answer"}, Frame(k)
          PROVE  Has(down, Topics) => Has(down', Topics)
      <4>1. down # <<>> /\ Head(down) # Topics /\ down' = Tail(down)
        BY <3>2, InfoFacts DEF Frame
      <4> QED BY <4>1, HasTail DEF Lines
    <3>3. NoFrame \/ \E k \in {"topics1", "time", "param", "stop", "request", "answer"} : Frame(k)
      BY <1>3 DEF Device, spinOnce, OtherVersion, syncTime, ParamReceived, TxStop,
                  ServiceCallback, ClientCallback
    <3> QED BY <3>1, <3>2, <3>3
  <2>3. \A x : Has(up, x) => Has(up', x)
    <3>1. \E fs \in Seq(Frames) : SendAndSync(fs)
      <4>1. <<>> \in Seq(Frames) /\ <<Time>> \in Seq(Frames)
        BY FrameFacts
      <4>2. CASE ServiceCallback
        <5>1. /\ down # <<>> /\ Head(down).k = "request" /\ Head(down) \in Frames
          BY <4>2, FrameRead DEF ServiceCallback, Frame
        <5>2. <<Reply(Head(down).n)>> \in Seq(Frames)
          BY <5>1, FrameFacts DEF Numbered
        <5>3. SendAndSync(<<Reply(Head(down).n)>>) \/ SendAndSync(<<>>)
          BY <4>2 DEF ServiceCallback
        <5> QED BY <4>1, <5>2, <5>3
      <4>3. CASE OtherVersion
        <5>1. SendAndSync(<<>>) \/ SendAndSync(<<Time>>)
          BY <4>3 DEF OtherVersion
        <5> QED BY <4>1, <5>1
      <4>4. CASE syncTime \/ ParamReceived \/ TxStop \/ ClientCallback \/ NoFrame
        <5>1. SendAndSync(<<>>)
          BY <4>4 DEF syncTime, ParamReceived, TxStop, ClientCallback, NoFrame
        <5> QED BY <4>1, <5>1
      <4> QED BY <1>3, <4>2, <4>3, <4>4 DEF Device, spinOnce
    <3> QED BY <3>1, HasSent
  <2> QED BY <1>1, <2>1, <2>2, <2>3, HideQuiet
<1> QED BY <1>2, <1>3

(* A fault takes at most the endpoint of the lost frame, or all the host   *)
(* does not know when it takes the request.                                *)
LEMMA HideFault ==
  ASSUME Lines, HideInv, Fault
  PROVE  OnlyFaultsHide'
<1> USE DEF hostVars, serverVars, session, lineVars, deviceRest, deviceVars, sync
<1>1. host' = host /\ OnlyFaultsHide /\ (Wanted' = Wanted)
  BY DEF Fault, HideInv, Wanted, Served
<1>2. CASE LoseUp
  <2>1. PICK i \in 1..Len(up) :
          /\ up' = Drop(up, i)
          /\ missed' = IF up[i].k = "info" /\ alive /\ ~require
                       THEN missed \cup ({up[i].e} \ known) ELSE missed
    BY <1>2 DEF LoseUp
  <2>2. UNCHANGED <<down, configured_, alive, known, version, require>>
    BY <1>2 DEF LoseUp
  <2>3. ASSUME alive, ~require, NEW e \in Wanted, ToldOf(e) PROVE ToldOf(e)'
    <3>1. missed \subseteq missed'
      BY <2>1
    <3>2. CASE up[i] = Info(e)
      BY <2>1, <2>2, <2>3, <3>2, InfoFacts DEF ToldOf
    <3>3. CASE up[i] # Info(e)
      <4>1. Has(up, Info(e)) => Has(up', Info(e))
        BY <2>1, <3>3, HasDrop DEF Lines
      <4> QED BY <2>2, <2>3, <3>1, <4>1 DEF ToldOf
    <3> QED BY <3>2, <3>3
  <2>4. Asked => Asked'
    BY <2>2 DEF Asked
  <2>5. OnlyFaultsHide' <=>
          (alive' /\ configured_' /\ ~require' /\ version' # 1
             => Asked' \/ \A e \in Wanted' : ToldOf(e)')
    BY DEF OnlyFaultsHide, Asked, ToldOf, Has
  <2> QED BY <1>1, <2>2, <2>3, <2>4, <2>5, HideMeans
<1>3. CASE LoseDown
  <2>1. PICK i \in 1..Len(down) :
          /\ down' = Drop(down, i)
          /\ missed' = IF down[i].k = "topics" /\ alive /\ configured_ /\ ~require
                       THEN Wanted \ known ELSE missed
    BY <1>3 DEF LoseDown
  <2>2. UNCHANGED <<up, configured_, alive, known, version, require>>
    BY <1>3 DEF LoseDown
  <2>3. CASE down[i].k = "topics" /\ alive /\ configured_ /\ ~require
    BY <1>1, <2>1, <2>2, <2>3 DEF OnlyFaultsHide
  <2>4. CASE ~(alive /\ configured_ /\ ~require)
    BY <2>2, <2>4 DEF OnlyFaultsHide
  <2>5. CASE down[i].k # "topics"
    <3>1. down[i] # Topics
      BY <2>5, InfoFacts
    <3>2. Has(down, Topics) => Has(down', Topics)
      BY <2>1, <3>1, HasDrop DEF Lines
    <3>3. missed' = missed
      BY <2>1, <2>5
    <3> QED BY <1>1, <2>2, <3>2, <3>3, HideQuiet
  <2> QED BY <2>3, <2>4, <2>5
<1>4. CASE Reset
  BY <1>4 DEF Reset, OnlyFaultsHide
<1>5. CASE host = "python" /\ ReadFails /\ UNCHANGED serverVars
  BY <1>1, <1>5, HideRequested DEF ReadFails
<1>6. CASE txStopRequest \/ Killed
  BY <1>6 DEF txStopRequest, Killed, Gone, OnlyFaultsHide
<1>7. CASE read_failed
  BY <1>7 DEF read_failed, OnlyFaultsHide
<1>8. CASE Misjudged
  BY <1>8 DEF Misjudged, OnlyFaultsHide
<1> QED BY <1>2, <1>3, <1>4, <1>5, <1>6, <1>7, <1>8 DEF Fault

(* run() of rosserial_python.                                              *)
LEMMA HideClient ==
  ASSUME Lines, HideInv, Python(Client)
  PROVE  OnlyFaultsHide'
<1> USE DEF hostVars, serverVars, session, lineVars, deviceVars, sync
<1>1. UNCHANGED <<host, require, version>> /\ OnlyFaultsHide /\ host = "python"
  BY DEF Python, HideInv
<1>2. CASE LostSync
  BY <1>1, <1>2, HideRequested DEF LostSync
<1>3. CASE Setup
  BY <1>1, <1>3, HideSetUp DEF Setup, Received
<1>4. ASSUME up # <<>>, up' = Tail(up), Head(up).k # "info",
             UNCHANGED <<configured_, alive, known, missed>>,
             Has(down, Topics) => Has(down', Topics)
      PROVE  OnlyFaultsHide'
  <2>1. \A e : Head(up) # Info(e)
    BY <1>4, InfoFacts
  <2>2. \A e : Has(up, Info(e)) => Has(up', Info(e))
    BY <1>4, <2>1, HasRead
  <2> QED BY <1>1, <1>4, <2>2, HideQuiet
<1>5. ASSUME NEW y \in Frames, down' = Append(down, y)
      PROVE  Has(down, Topics) => Has(down', Topics)
  BY <1>5, HasAppended DEF Lines
<1>6. CASE handleTimeRequest
  <2>1. Time \in Frames /\ down' = Append(down, Time)
    BY <1>6, FrameFacts DEF handleTimeRequest, send
  <2>2. Has(down, Topics) => Has(down', Topics)
    BY <1>5, <2>1
  <2> QED BY <1>4, <1>6, <2>2 DEF handleTimeRequest, Received
<1>7. CASE handleParameterRequest
  <2>1. up # <<>> /\ Head(up).k = "param" /\ Head(up) \in Frames
    BY <1>7, HeadTailProperties DEF handleParameterRequest, Received, Lines
  <2>2. Param(Head(up).n) \in Frames
    BY <2>1, FrameFacts DEF Numbered
  <2>3. down' = down \/ down' = Append(down, Param(Head(up).n))
    BY <1>7 DEF handleParameterRequest, send
  <2>4. Has(down, Topics) => Has(down', Topics)
    BY <1>5, <2>2, <2>3
  <2> QED BY <1>4, <1>7, <2>4 DEF handleParameterRequest, Received
<1>8. CASE handleReply \/ handleCall
  BY <1>4, <1>8 DEF handleReply, handleCall, Received
<1>9. CASE wait_for_service
  BY <1>1, <1>9, HideQuiet DEF wait_for_service
<1>10. CASE ProxyReturns
  <2>1. CASE alive'
    <3>1. /\ down' = Append(down, Answer(serving))
          /\ UNCHANGED <<up, configured_, alive, known, missed>>
      BY <1>10, <2>1 DEF ProxyReturns, Gone, send
    <3>2. Has(down, Topics) => Has(down', Topics)
      BY <3>1, HasAnother DEF Lines
    <3> QED BY <1>1, <3>1, <3>2, HideQuiet
  <2>2. CASE ~alive'
    BY <2>2 DEF OnlyFaultsHide
  <2> QED BY <2>1, <2>2
<1> QED BY <1>2, <1>3, <1>6, <1>7, <1>8, <1>9, <1>10 DEF Python, Client

(* The threads of rosserial_python that call the device's service.         *)
LEMMA HideCallers ==
  ASSUME Lines, HideInv, NEW n \in Requests,
         Python(Uses < MaxUses /\ More /\ callback(n)) \/ Python(Caller(n))
  PROVE  OnlyFaultsHide'
<1> USE DEF hostVars, serverVars, session, lineVars, deviceVars, sync
<1>1. UNCHANGED <<host, require, version>> /\ OnlyFaultsHide
  BY DEF Python, HideInv
<1>2. CASE callback(n)
  BY <1>1, <1>2, HideQuiet DEF callback
<1>3. CASE BeginSend(n) \/ Return(n)
  BY <1>1, <1>3, HideQuiet DEF BeginSend, Return
<1>4. CASE EndSend(n)
  <2>1. /\ down' = down \/ down' = Append(down, Request(n))
        /\ UNCHANGED <<up, configured_, alive, known, missed>>
    BY <1>4 DEF EndSend
  <2>2. Has(down, Topics) => Has(down', Topics)
    BY <2>1, HasAnother DEF Lines
  <2> QED BY <1>1, <2>1, <2>2, HideQuiet
<1> QED BY <1>2, <1>3, <1>4 DEF Python, Caller

(* request_topics() of rosserial_server asks in one of the two versions.   *)
LEMMA HideRequestedBySession ==
  ASSUME Lines, OnlyFaultsHide, NEW q, NEW a, request_topics(q, a),
         UNCHANGED <<host, up, configured_, known, alive, version, require>>
  PROVE  OnlyFaultsHide'
<1>1. CASE down' = Append(down, Topics)
  BY <1>1, HideAsked
<1>2. CASE down' = Append(down, TopicsVer1) /\ missed' = missed
  <2>1. Has(down, Topics) => Has(down', Topics)
    BY <1>2, HasAppended, FrameFacts DEF Lines
  <2> QED BY <1>2, <2>1, HideQuiet
<1>3. \/ down' = Append(down, Topics)
      \/ down' = Append(down, TopicsVer1) /\ missed' = missed
  BY DEF request_topics
<1> QED BY <1>1, <1>2, <1>3

LEMMA HideSession ==
  ASSUME Lines, HideInv, Session(start) \/ Session(Server)
  PROVE  OnlyFaultsHide'
<1> USE DEF lineVars, deviceRest, sync
<1>1. host' = host /\ OnlyFaultsHide /\ host = "server"
  BY DEF Session, HideInv
<1>2. CASE start
  <2>1. version' = 0 /\ version_try = 2 /\ request_topics(0, FALSE)
    BY <1>1, <1>2 DEF start, HideInv
  <2>2. down' = Append(down, Topics)
    BY <2>1 DEF request_topics
  <2> QED BY <2>2, HideAsked
<1>3. CASE sync_timeout
  BY <1>1, <1>3, HideRequestedBySession DEF sync_timeout
<1>4. CASE required_topics_check
  <2>1. CASE require
    BY <1>4, <2>1 DEF required_topics_check, OnlyFaultsHide
  <2>2. CASE ~require
    <3>1. UNCHANGED <<host, down, up, configured_, known, missed, alive, version, require>>
      BY <1>1, <1>4, <2>2 DEF required_topics_check
    <3> QED BY <1>1, <3>1, HideQuiet
  <2> QED BY <2>1, <2>2
<1>5. CASE setup_endpoint
  <2>1. version = 1 => version' = 1
    BY <1>5 DEF setup_endpoint, ServerReceived
  <2> QED BY <1>1, <1>5, <2>1, HideSetUp DEF setup_endpoint, ServerReceived
<1>6. ASSUME ServerReceived, UNCHANGED <<known, missed>>, Has(down, Topics) => Has(down', Topics),
             \A e \in Wanted : Head(up) # Info(e)
      PROVE  OnlyFaultsHide'
  <2>1. /\ up # <<>> /\ up' = Tail(up) /\ UNCHANGED <<configured_, alive, require>>
        /\ version' # 1 => version # 1
    BY <1>6 DEF ServerReceived
  <2>2. \A e \in Wanted : Has(up, Info(e)) => Has(up', Info(e))
    BY <1>6, <2>1, HasRead
  <2> QED BY <1>1, <1>6, <2>1, <2>2, HideQuiet
<1>7. CASE handle_time
  <2>1. Has(down, Topics) => Has(down', Topics)
    BY <1>7, HasAppended, FrameFacts DEF handle_time, Lines
  <2>2. \A e : Head(up) # Info(e)
    BY <1>7, InfoFacts DEF handle_time
  <2> QED BY <1>6, <1>7, <2>1, <2>2 DEF handle_time
<1>8. CASE Unrecognized
  <2>1. CASE version' = 1
    BY <2>1 DEF OnlyFaultsHide
  <2>2. CASE version' # 1
    <3>1. Wanted = Served
      BY <1>1 DEF Wanted
    <3>2. \A e \in Wanted : Head(up) # Info(e)
      BY <1>8, <2>2, <3>1, InfoFacts DEF Unrecognized
    <3> QED BY <1>6, <1>8, <3>2 DEF Unrecognized
  <2> QED BY <2>1, <2>2
<1> QED BY <1>2, <1>3, <1>4, <1>5, <1>7, <1>8 DEF Session, Server

LEMMA HideInit == ASSUME Init PROVE HideInv
BY DEF Init, ServerInit, HideInv, OnlyFaultsHide

LEMMA HideStep ==
  ASSUME Typed, HideInv, [Next]_vars
  PROVE  HideInv'
<1> USE DEF hostVars, serverVars, session, lineVars
<1>1. Lines
  BY DEF Typed
<1>2. OnlyFaultsHide'
  <2>1. CASE Device
    BY <1>1, <2>1, HideDevice DEF HideInv
  <2>2. CASE Program
    <3>1. /\ UNCHANGED <<host, down, configured_, known, missed, alive, version, require>>
          /\ \E y \in Frames : up' = Append(up, y)
      BY <2>2, FrameFacts DEF Program, call, requestParam, sync, Typed
    <3> QED BY <1>1, <3>1, HasAppended, HideQuiet DEF Lines, HideInv
  <2>3. CASE Unheard
    BY <2>3 DEF Unheard, OnlyFaultsHide
  <2>4. CASE Fault
    BY <1>1, <2>4, HideFault
  <2>5. CASE Tick
    BY <2>5, HideQuiet DEF Tick, DeviceTick, HideInv
  <2>6. CASE Python(Start)
    <3>1. down' = <<Topics>>
      BY <2>6 DEF Python, Start
    <3>2. Has(down', Topics)
      BY <3>1 DEF Has
    <3> QED BY <3>2 DEF OnlyFaultsHide, Has
  <2>7. CASE Python(Client)
    BY <1>1, <2>7, HideClient
  <2>8. ASSUME NEW n \in Requests,
               Python(Uses < MaxUses /\ More /\ callback(n)) \/ Python(Caller(n))
        PROVE  OnlyFaultsHide'
    BY <1>1, <2>8, HideCallers
  <2>9. CASE Session(start) \/ Session(Server)
    BY <1>1, <2>9, HideSession
  <2>10. CASE UNCHANGED vars
    BY <2>10, HideQuiet DEF vars, deviceVars, sync, HideInv
  <2> QED BY <2>1, <2>2, <2>3, <2>4, <2>5, <2>6, <2>7, <2>8, <2>9, <2>10 DEF Next
<1>3. host' = host
  BY DEF Next, Device, Program, Unheard, Fault, Tick, Python, Session, vars
<1>4. host = "server" /\ ~alive' => version_try' = 2
  <2>1. CASE Session(start) \/ Session(Server)
    <3>1. CASE start
      BY <3>1 DEF start
    <3>2. CASE sync_timeout \/ required_topics_check
      BY <3>2 DEF sync_timeout, required_topics_check
    <3>3. CASE setup_endpoint \/ handle_time \/ Unrecognized
      BY <3>3 DEF setup_endpoint, handle_time, Unrecognized, ServerReceived
    <3> QED BY <2>1, <3>1, <3>2, <3>3 DEF Session, Server
  <2>2. CASE Fault
    BY <2>2 DEF Fault, LoseUp, LoseDown, read_failed, Misjudged, HideInv
  <2>3. CASE Tick
    BY <2>3 DEF Tick, HideInv
  <2>4. CASE Device \/ Program \/ Unheard \/ UNCHANGED vars
    BY <2>4 DEF Device, Program, Unheard, vars, HideInv
  <2>5. host = "python" => ~(host = "server")
    OBVIOUS
  <2> QED BY <2>1, <2>2, <2>3, <2>4, <2>5 DEF Next, Python
<1> QED BY <1>2, <1>3, <1>4 DEF HideInv

(* requestTopics(), request_topics() and negotiateTopics(): while a device *)
(* believes it is configured an endpoint is known to the host, on its way, *)
(* or was lost by a fault after the last request, or a request comes.      *)
THEOREM HiddenByFaults == Spec => []OnlyFaultsHide
<1>1. Init => HideInv
  BY HideInit
<1>2. Typed /\ HideInv /\ [Next]_vars => HideInv'
  BY HideStep
<1>3. HideInv => OnlyFaultsHide
  BY DEF HideInv
<1> QED BY <1>1, <1>2, <1>3, TypeCorrect, PTL DEF Spec
===========================================================================
