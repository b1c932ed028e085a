---------------------------- MODULE HokuyoProofs ----------------------------
(***************************************************************************)
(* Proofs about Hokuyo: the main thread and the scan thread take turns on  *)
(* the port, and exceptions are caught, for any number of scan threads,    *)
(* settings, tries, failures and requests.                                 *)
(*                                                                         *)
(* What a thread will do is in its todo list, so an invariant about the    *)
(* threads is one about lists.  The first sections say which items the     *)
(* calls are made of: with S the plain items of a thread, Around(S) adds   *)
(* the tries, handlers and tests of the port around lists of them.  Then a *)
(* list of either thread has a shape that every step keeps (ScanList,      *)
(* MainList), and Turn relates the two lists to the driver's state: while  *)
(* a scan thread is busy the main thread has nothing on its list that uses *)
(* the port before it has waited for the scan thread's end.  Last, Covered *)
(* says which items of a list need no catch after them.                    *)
(*                                                                         *)
(* What is computed from the lines of the scanner comes next: readings and *)
(* stamps are true for any scan, base, length of a line and clock.         *)
(*                                                                         *)
(* Last, who closes the port.  Call(k, l, P, Q, E) says of a list l that,  *)
(* begun in the conditions P, it ends in Q or throws in E, whatever fails  *)
(* and whatever the other thread does; each call of the driver has its     *)
(* lemma, and WorkRight says that what the threads have to do is right.    *)
(***************************************************************************)
EXTENDS Hokuyo, SequenceTheorems, WellFoundedInduction, TLAPS

-----------------------------------------------------------------------------
(* Lists of things to do.                                                  *)

LEMMA One == ASSUME NEW S, NEW a \in S PROVE <<a>> \in Seq(S)
OBVIOUS

LEMMA Two == ASSUME NEW S, NEW a \in S, NEW b \in S PROVE <<a, b>> \in Seq(S)
OBVIOUS

LEMMA EmptyIn == ASSUME NEW S PROVE <<>> \in Seq(S)
OBVIOUS

LEMMA Cat == ASSUME NEW S, NEW a \in Seq(S), NEW b \in Seq(S) PROVE a \o b \in Seq(S)
BY ConcatProperties

LEMMA Three ==
  ASSUME NEW S, NEW s \in Seq(S), Len(s) = 3
  PROVE  s = <<s[1], s[2], s[3]>>
OBVIOUS

LEMMA TwoOf ==
  ASSUME NEW S, NEW s \in Seq(S), Len(s) = 2
  PROVE  s = <<s[1], s[2]>>
OBVIOUS

LEMMA ThreeCat == ASSUME NEW x, NEW y, NEW z PROVE <<x, y>> \o <<z>> = <<x, y, z>>
<1> DEFINE S == {x, y, z}
<1>1. <<x, y>> \in Seq(S) /\ <<z>> \in Seq(S)
  OBVIOUS
<1>2. /\ <<x, y>> \o <<z>> \in Seq(S) /\ Len(<<x, y>> \o <<z>>) = 3
      /\ (<<x, y>> \o <<z>>)[1] = x /\ (<<x, y>> \o <<z>>)[2] = y
      /\ (<<x, y>> \o <<z>>)[3] = z
  BY <1>1, ConcatProperties
<1> HIDE DEF S
<1>3. LET s == <<x, y>> \o <<z>> IN s = <<s[1], s[2], s[3]>>
  BY <1>2, Three
<1> QED
  BY <1>2, <1>3, Zenon

LEMMA Wider == ASSUME NEW S, NEW T, S \subseteq T, NEW l \in Seq(S) PROVE l \in Seq(T)
<1>1. Len(l) \in Nat /\ l = [i \in 1..Len(l) |-> l[i]]
  BY LenProperties
<1>2. \A i \in 1..Len(l) : l[i] \in T
  BY ElementOfSeq
<1> QED
  BY <1>1, <1>2, IsASeq

(* With tries, and what is done only to an open port, around such lists.   *)
Handles(S) ==
  {[do |-> "catch", other |-> h, corrupted |-> h] : h \in Seq(S)}

Attempts(S) == {Try(l[1], l[2]) : l \in Seq(S) \X Seq(S)}

Around(S) == S \cup {IfPort(l) : l \in Seq(S)} \cup Attempts(S) \cup Handles(S)

Nested(S) ==
  \A x \in S :
    /\ x.do \in {"try", "catch"} => x.other \in Seq(S) /\ x.corrupted \in Seq(S)
    /\ x.do = "try" => x.body \in Seq(S) /\ Catch(x) \in S
    /\ x.do = "ifPort" => x.then \in Seq(S)

LEMMA AroundWider == \A S : S \subseteq Around(S)
BY DEF Around

LEMMA Tries ==
  ASSUME NEW S, NEW b \in Seq(S), NEW h \in Seq(S)
  PROVE  /\ Try(b, h) \in Around(S)
         /\ [do |-> "catch", other |-> h, corrupted |-> h] \in Around(S)
         /\ IfPort(b) \in Around(S)
<1>1. <<b, h>> \in Seq(S) \X Seq(S) /\ <<b, h>>[1] = b /\ <<b, h>>[2] = h
  OBVIOUS
<1>2. Try(b, h) \in Attempts(S)
  BY <1>1, Zenon DEF Attempts
<1>3. [do |-> "catch", other |-> h, corrupted |-> h] \in Handles(S)
  BY Zenon DEF Handles
<1> QED
  BY <1>2, <1>3, Zenon DEF Around

LEMMA TryIs ==
  ASSUME NEW b, NEW h
  PROVE  /\ Try(b, h).do = "try" /\ Try(b, h).body = b
         /\ Try(b, h).other = h /\ Try(b, h).corrupted = h
         /\ Catch(Try(b, h)) = [do |-> "catch", other |-> h, corrupted |-> h]
BY DEF Try, Catch

LEMMA CatchIs ==
  ASSUME NEW h, NEW x, x = [do |-> "catch", other |-> h, corrupted |-> h]
  PROVE  x.do = "catch" /\ x.other = h /\ x.corrupted = h
OBVIOUS

LEMMA IfPortIs == \A l : IfPort(l).do = "ifPort" /\ IfPort(l).then = l
BY DEF IfPort

LEMMA NestedAround == ASSUME NEW S, Nested(S) PROVE Nested(Around(S))
<1> DEFINE T == Around(S)
<1>0. \A l \in Seq(S) : l \in Seq(T)
  BY Wider, AroundWider
<1> SUFFICES ASSUME NEW x \in T
    PROVE  /\ x.do \in {"try", "catch"} => x.other \in Seq(T) /\ x.corrupted \in Seq(T)
           /\ x.do = "try" => x.body \in Seq(T) /\ Catch(x) \in T
           /\ x.do = "ifPort" => x.then \in Seq(T)
  BY Zenon DEF Nested
<1>1. CASE x \in S
  BY <1>0, <1>1, AroundWider DEF Nested
<1>2. ASSUME NEW l \in Seq(S), x = IfPort(l)
      PROVE  x.do = "ifPort" /\ x.then \in Seq(T)
  BY <1>0, <1>2, IfPortIs, Zenon
<1>3. ASSUME NEW l \in Seq(S) \X Seq(S), x = Try(l[1], l[2])
      PROVE  /\ x.do = "try" /\ x.body \in Seq(T) /\ x.other \in Seq(T)
             /\ x.corrupted \in Seq(T) /\ Catch(x) \in T
  <2>1. l[1] \in Seq(S) /\ l[2] \in Seq(S)
    OBVIOUS
  <2>2. Catch(x) \in T
    <3>1. Catch(x) = [do |-> "catch", other |-> l[2], corrupted |-> l[2]]
      BY <1>3, TryIs
    <3> QED
      BY <2>1, <3>1, Tries
  <2>3. x.do = "try" /\ x.body = l[1] /\ x.other = l[2] /\ x.corrupted = l[2]
    BY <1>3, TryIs
  <2> QED
    BY <1>0, <2>1, <2>2, <2>3, Zenon
<1>4. ASSUME NEW h \in Seq(S), x = [do |-> "catch", other |-> h, corrupted |-> h]
      PROVE  x.do = "catch" /\ x.other \in Seq(T) /\ x.corrupted \in Seq(T)
  BY <1>0, <1>4, CatchIs, Zenon
<1>5. \/ x \in S
      \/ \E l \in Seq(S) : x = IfPort(l)
      \/ \E l \in Seq(S) \X Seq(S) : x = Try(l[1], l[2])
      \/ \E h \in Seq(S) : x = [do |-> "catch", other |-> h, corrupted |-> h]
  BY Zenon DEF Around, Attempts, Handles
<1>6. "try" # "catch" /\ "try" # "ifPort" /\ "catch" # "ifPort"
  OBVIOUS
<1> QED
  BY <1>1, <1>2, <1>3, <1>4, <1>5, <1>6

(* Four deep.                                                              *)
Deep(S) == Around(Around(Around(Around(S))))
Deeper(S) == Around(Deep(S))

LEMMA DeepNested ==
  ASSUME NEW S, Nested(S)
  PROVE  /\ S \subseteq Deep(S) /\ Deep(S) \subseteq Deeper(S)
         /\ Nested(Deep(S)) /\ Nested(Deeper(S))
BY NestedAround, AroundWider, Zenon DEF Deep, Deeper

-----------------------------------------------------------------------------
(* What the driver does with the port.                                     *)
Words == ScanCommands \cup
  {"TM0", "TM1", "TM2", "RS", "QT", "BM", "GD", "SCIP2.0", "PP", "VV", "II",
   "PP:", "VV:", "II:", "M", "any"}

Core ==
  {Do(n) : n \in {"flush", "openPort", "closePort", "dropPort", "throw", "require"}}
    \cup {Send(c) : c \in Words} \cup {Read(c) : c \in Words} \cup {Wait(c) : c \in Words}

LEMMA CoreIs ==
  /\ \A n \in {"flush", "openPort", "closePort", "dropPort", "throw", "require"} : Do(n) \in Core
  /\ \A c \in Words : Send(c) \in Core /\ Read(c) \in Core /\ Wait(c) \in Core
BY Zenon DEF Core

LEMMA Exchanges ==
  ASSUME NEW S, Core \subseteq S, NEW c \in Words
  PROVE  sendCmd(c) \in Seq(S) /\ sendCmdUnlimited(c) \in Seq(S) /\ requestScans(c) \in Seq(S)
BY CoreIs DEF sendCmd, sendCmdUnlimited, requestScans

LEMMA Requires ==
  ASSUME NEW S, Core \subseteq S, NEW c \in Words
  PROVE  <<Do("require"), Wait(c)>> \in Seq(S) /\ <<Do("require")>> \in Seq(S)
BY CoreIs

LEMMA Queries ==
  ASSUME NEW S, Core \subseteq S
  PROVE  /\ querySensorConfig \in Seq(S) /\ queryVersionInformation \in Seq(S)
         /\ getStatus \in Seq(S) /\ laserOn \in Seq(S) /\ laserOff \in Seq(S)
         /\ pollScan \in Seq(S) /\ setToSCIP2 \in Seq(S)
<1>1. querySensorConfig \in Seq(S) /\ queryVersionInformation \in Seq(S) /\ getStatus \in Seq(S)
  BY Exchanges, Requires, Cat DEF querySensorConfig, queryVersionInformation, getStatus, Words
<1>2. laserOn \in Seq(S) /\ laserOff \in Seq(S) /\ pollScan \in Seq(S)
  BY Exchanges, Requires, Cat DEF laserOn, laserOff, pollScan, Words
<1>3. setToSCIP2 \in Seq(S)
  BY CoreIs DEF setToSCIP2, Words
<1> QED
  BY <1>1, <1>2, <1>3

LEMMA Clocks ==
  ASSUME NEW S, Core \subseteq S
  PROVE  calcLatency \in Seq(S)
<1>1. <<Wait("any")>> \in Seq(S) /\ <<Do("require"), serviceScan>> \in Seq(S)
  BY CoreIs DEF serviceScan, Words
<1>2. getHokuyoClockOffset \in Seq(S)
  BY <1>1, Exchanges, Cat DEF getHokuyoClockOffset, Words
<1>3. getHokuyoScanStampToSystemStampOffset \in Seq(S)
  BY <1>1, Exchanges, Cat DEF getHokuyoScanStampToSystemStampOffset, Words, ScanCommands
<1> QED
  BY <1>2, <1>3, Cat DEF calcLatency

LEMMA Resets ==
  ASSUME NEW S, Core \subseteq S
  PROVE  reset \in Seq(Around(S)) /\ stopScanning \in Seq(Around(S))
<1> DEFINE T == Around(S)
<1>1. Core \subseteq T /\ S \subseteq T
  BY AroundWider
<1>2. Try(sendCmd("TM2"), <<>>) \in T /\ Try(sendCmd("RS"), <<>>) \in T
  BY Exchanges, EmptyIn, Tries DEF Words
<1>3. Do("flush") \in T
  BY <1>1, CoreIs
<1>4. <<Do("flush"), Try(sendCmd("TM2"), <<>>), Try(sendCmd("RS"), <<>>), Do("flush")>> \in Seq(T)
  <2> HIDE DEF T
  <2> QED
    BY <1>2, <1>3
<1>5. sendCmd("RS") \in Seq(T)
  BY <1>1, Exchanges DEF Words
<1>6. <<Do("flush")>> \o laserOff \in Seq(S)
  BY CoreIs, Queries, One, Cat
<1>7. Try(laserOff, <<Do("flush")>> \o laserOff) \in T
  BY <1>6, Queries, Tries
<1> HIDE DEF T
<1>8. <<Try(laserOff, <<Do("flush")>> \o laserOff)>> \in Seq(T)
  BY <1>7, One
<1>9. reset \in Seq(T)
  BY <1>4, <1>5, Cat DEF reset
<1>10. stopScanning \in Seq(T)
  BY <1>8 DEF stopScanning
<1> QED
  BY <1>9, <1>10 DEF T

LEMMA Closes ==
  ASSUME NEW S, Core \subseteq S
  PROVE  /\ close \in Seq(Around(Around(Around(S))))
         /\ Try(close, <<>>) \in Deep(S)
<1> DEFINE T == Around(Around(S))
<1>1. Core \subseteq Around(S) /\ Core \subseteq T
  BY AroundWider
<1>2. Try(reset, <<>>) \in T
  BY Resets, EmptyIn, Tries
<1>3. Do("closePort") \in T
  BY <1>1, CoreIs
<1> HIDE DEF T
<1>4. <<Try(reset, <<>>), Do("closePort")>> \in Seq(T)
  BY <1>2, <1>3, Two
<1>5. IfPort(<<Try(reset, <<>>), Do("closePort")>>) \in Around(T)
  BY <1>4, Tries
<1>6. close \in Seq(Around(T))
  BY <1>5, One DEF close
<1>7. Try(close, <<>>) \in Around(Around(T))
  BY <1>6, EmptyIn, Tries
<1> QED
  BY <1>6, <1>7 DEF T, Deep

LEMMA Opens ==
  ASSUME NEW S, Core \subseteq S
  PROVE  open \in Seq(Around(Around(Around(S))))
<1> DEFINE T == Around(Around(S))
<1>1. Core \subseteq Around(S) /\ Core \subseteq T /\ Around(S) \subseteq T /\ Core \subseteq Around(T)
  BY AroundWider
<1>2. reset \in Seq(Around(S)) /\ setToSCIP2 \in Seq(Around(S))
  BY <1>1, Resets, Queries
<1>3. Try(reset, setToSCIP2 \o reset) \in T
  BY <1>2, Cat, Tries
<1> HIDE DEF T
<1>4. <<Do("flush"), Try(reset, setToSCIP2 \o reset)>> \in Seq(T)
  BY <1>1, <1>3, CoreIs, Two
<1>5. <<Do("dropPort"), Do("throw")>> \in Seq(T)
  BY <1>1, CoreIs, Two
<1>6. <<Do("flush"), Try(reset, setToSCIP2 \o reset)>> \o querySensorConfig
        \o queryVersionInformation \in Seq(T)
  BY <1>1, <1>4, Queries, Cat
<1>7. Try(<<Do("flush"), Try(reset, setToSCIP2 \o reset)>> \o querySensorConfig
            \o queryVersionInformation, <<Do("dropPort"), Do("throw")>>) \in Around(T)
  BY <1>5, <1>6, Tries
<1>8. Do("openPort") \in Around(T)
  BY <1>1, CoreIs
<1>9. close \in Seq(Around(T))
  BY Closes DEF T
<1> QED
  BY <1>7, <1>8, <1>9, Two, Cat DEF open, T

LEMMA Asks ==
  ASSUME NEW S, Core \subseteq S, NEW yes \in Seq(S), NEW no \in Seq(S)
  PROVE  isIntensitySupported(yes, no) \in Seq(Around(S))
<1>1. <<serviceScanLimited>> \in Seq(S)
  BY CoreIs, One DEF serviceScanLimited, Words
<1>2. requestScans("MEp") \in Seq(S) /\ requestScans("MDp") \in Seq(S)
  BY Exchanges DEF Words, ScanCommands
<1>3. /\ requestScans("MEp") \o <<serviceScanLimited>> \o yes \in Seq(S)
      /\ requestScans("MDp") \o <<serviceScanLimited>> \o no \in Seq(S)
  BY <1>1, <1>2, Cat
<1> QED
  BY <1>3, Tries, One DEF isIntensitySupported

-----------------------------------------------------------------------------
(* Where an exception goes on.                                             *)

LEMMA Least ==
  ASSUME NEW T, T \subseteq Nat, T # {}
  PROVE  Min(T) \in T /\ \A y \in T : Min(T) =< y
<1>1. PICK x \in T : \A y \in T : <<y, x>> \notin OpToRel(<, Nat)
  BY NatLessThanWellFounded, WFMin
<1>2. \A y \in T : ~(y < x)
  <2> SUFFICES ASSUME NEW y \in T, y < x PROVE FALSE
    OBVIOUS
  <2>1. <<y, x>> \in Nat \X Nat /\ <<y, x>>[1] = y /\ <<y, x>>[2] = x
    OBVIOUS
  <2>2. <<y, x>> \in OpToRel(<, Nat)
    BY <2>1 DEF OpToRel
  <2> QED
    BY <1>1, <2>2
<1>3. \A y \in T : x =< y
  BY <1>2
<1> QED
  BY <1>3, Zenon DEF Min

LEMMA CatchesAt ==
  ASSUME NEW S, NEW l \in Seq(S)
  PROVE  \/ CatchAt(l) = 0
         \/ CatchAt(l) \in 1..Len(l) /\ l[CatchAt(l)].do = "catch"
<1> DEFINE I == {i \in 1..Len(l) : l[i].do = "catch"}
<1>1. CatchAt(l) = IF I # {} THEN Min(I) ELSE 0
  BY Zenon DEF CatchAt, SelectInSeq
<1>2. I \subseteq Nat
  BY LenProperties
<1>3. I # {} => Min(I) \in I
  BY <1>2, Least
<1> QED
  BY <1>1, <1>3

LEMMA AfterIt ==
  ASSUME NEW S, NEW l \in Seq(S), NEW k \in 0..Len(l)
  PROVE  LET r == SubSeq(l, k + 1, Len(l))
         IN  /\ r \in Seq(S) /\ Len(r) = Len(l) - k
             /\ \A i \in 1..Len(r) : i + k \in 1..Len(l) /\ r[i] = l[i + k]
<1>1. Len(l) \in Nat /\ k + 1 \in Int /\ \A i \in k + 1 .. Len(l) : l[i] \in S
  BY LenProperties, ElementOfSeq
<1>2. /\ SubSeq(l, k + 1, Len(l)) \in Seq(S)
      /\ Len(SubSeq(l, k + 1, Len(l))) = IF k + 1 <= Len(l) THEN Len(l) - (k + 1) + 1 ELSE 0
      /\ \A i \in 1 .. Len(l) - (k + 1) + 1 : SubSeq(l, k + 1, Len(l))[i] = l[k + 1 + i - 1]
  BY <1>1, SubSeqProperties
<1> QED
  BY <1>1, <1>2

LEMMA TailIs ==
  ASSUME NEW S, NEW l \in Seq(S), l # <<>>
  PROVE  /\ Tail(l) \in Seq(S) /\ Len(Tail(l)) = Len(l) - 1 /\ 1 \in 1..Len(l)
         /\ Head(l) = l[1] /\ Head(l) \in S
         /\ \A i \in 1..Len(Tail(l)) : i + 1 \in 1..Len(l) /\ Tail(l)[i] = l[i + 1]
<1>1. Len(l) \in Nat \ {0} /\ Head(l) = l[1]
  BY EmptySeq, LenProperties
<1> QED
  BY <1>1, HeadTailProperties

-----------------------------------------------------------------------------
(* What the scan thread still has to do.                                   *)
ScanBase == Core \cup {Do("useScan")}

ScanTry == Head(scanThread)

ScanItem ==
  Deep(ScanBase) \cup {ScanTry, Catch(ScanTry), Do("while"), Do("return"),
                       Set("CLOSED"), Set("OPENED")}

(* Once it has set the state it does not come to the port again.           *)
ScanList(l) ==
  /\ l \in Seq(ScanItem)
  /\ \A i, j \in 1..Len(l) : j = i + 1 /\ l[i].do = "set" => l[j].do = "return"

Busy(l) == l # <<>> /\ Head(l).do # "return"

CoreNames == {"flush", "openPort", "closePort", "dropPort", "throw", "require", "send", "read"}

LEMMA CoreNamed == \A x \in Core : x.do \in CoreNames
<1>1. /\ \A n : Do(n).do = n
      /\ \A c : Send(c).do = "send" /\ Read(c).do = "read" /\ Wait(c).do = "read"
  BY DEF Do, Send, Read, Wait
<1> QED
  BY <1>1, Zenon DEF Core, CoreNames

LEMMA AroundNamed ==
  ASSUME NEW S
  PROVE  \A x \in Around(S) : x \in S \/ x.do \in {"try", "catch", "ifPort"}
<1> SUFFICES ASSUME NEW x \in Around(S), x \notin S PROVE x.do \in {"try", "catch", "ifPort"}
  OBVIOUS
<1>1. \/ \E l \in Seq(S) : x = IfPort(l)
      \/ \E l \in Seq(S) \X Seq(S) : x = Try(l[1], l[2])
      \/ \E h \in Seq(S) : x = [do |-> "catch", other |-> h, corrupted |-> h]
  BY Zenon DEF Around, Attempts, Handles
<1>2. ASSUME NEW l, x = Try(l[1], l[2]) PROVE x.do = "try"
  BY <1>2, TryIs
<1>3. ASSUME NEW h, x = [do |-> "catch", other |-> h, corrupted |-> h] PROVE x.do = "catch"
  BY <1>3
<1> QED
  BY <1>1, <1>2, <1>3, IfPortIs, Zenon

LEMMA DeepNamed ==
  ASSUME NEW S
  PROVE  \A x \in Deeper(S) : x \in S \/ x.do \in {"try", "catch", "ifPort"}
BY AroundNamed, Zenon DEF Deep, Deeper

LEMMA ScanBaseNamed == \A x \in ScanBase : x.do \in CoreNames \cup {"useScan"}
BY CoreNamed DEF ScanBase, Do

LEMMA ScanBaseNested == Nested(ScanBase)
BY ScanBaseNamed DEF Nested, CoreNames

LEMMA ScanDeep ==
  /\ Nested(Deep(ScanBase)) /\ ScanBase \subseteq Deep(ScanBase) /\ Core \subseteq ScanBase
  /\ \A x \in Deep(ScanBase) : x.do \in CoreNames \cup {"useScan", "try", "catch", "ifPort"}
BY ScanBaseNested, DeepNested, DeepNamed, ScanBaseNamed DEF ScanBase

LEMMA CloseItems ==
  ASSUME NEW S, Core \subseteq S
  PROVE  doClose = <<Try(close, <<>>), Set("CLOSED")>> /\ Try(close, <<>>) \in Deep(S)
BY Closes DEF doClose

LEMMA ScanTryIs ==
  /\ scanThread = <<ScanTry, Do("while")>>
  /\ ScanTry.do = "try" /\ ScanTry.body = <<serviceScan, Do("useScan")>>
  /\ ScanTry.other = <<Try(close, <<>>), Set("CLOSED"), Do("return")>>
  /\ ScanTry.corrupted = <<>>
  /\ Catch(ScanTry).do = "catch"
  /\ Catch(ScanTry).other = <<Try(close, <<>>), Set("CLOSED"), Do("return")>>
  /\ Catch(ScanTry).corrupted = <<>>
<1>1. scanThread = <<ScanTry, Do("while")>>
  BY DEF ScanTry, scanThread
<1>2. ScanTry = [do |-> "try", body |-> <<serviceScan, Do("useScan")>>,
                 other |-> doClose \o <<Do("return")>>, corrupted |-> <<>>]
  BY DEF ScanTry, scanThread
<1>3. doClose \o <<Do("return")>> = <<Try(close, <<>>), Set("CLOSED"), Do("return")>>
  <2>1. \A x, y, z : <<x, y>> \o <<z>> = <<x, y, z>>
    BY ThreeCat
  <2> QED
    BY <2>1, Zenon DEF doClose
<1>4. /\ ScanTry.do = "try" /\ ScanTry.body = <<serviceScan, Do("useScan")>>
      /\ ScanTry.other = doClose \o <<Do("return")>> /\ ScanTry.corrupted = <<>>
  BY <1>2
<1>5. Catch(ScanTry) = [do |-> "catch", other |-> ScanTry.other, corrupted |-> ScanTry.corrupted]
  BY DEF Catch
<1>6. /\ Catch(ScanTry).do = "catch" /\ Catch(ScanTry).other = ScanTry.other
      /\ Catch(ScanTry).corrupted = ScanTry.corrupted
  BY <1>5
<1> QED
  BY <1>1, <1>3, <1>4, <1>6, Zenon

LEMMA ScanNamed ==
  \A x \in ScanItem :
    /\ x.do \in CoreNames \cup {"useScan", "try", "catch", "ifPort", "while", "return", "set"}
    /\ x.do = "while" => x = Do("while")
<1>1. Do("while").do = "while" /\ Do("return").do = "return"
      /\ Set("CLOSED").do = "set" /\ Set("OPENED").do = "set"
  BY DEF Do, Set
<1> QED
  BY <1>1, ScanDeep, ScanTryIs DEF ScanItem, CoreNames

LEMMA ScanTail ==
  ASSUME NEW l, ScanList(l), l # <<>>
  PROVE  ScanList(Tail(l)) /\ (Head(l).do = "set" => ~Busy(Tail(l)))
<1>1. l \in Seq(ScanItem) /\ Len(l) \in Nat
  BY LenProperties DEF ScanList
<1>2. /\ Tail(l) \in Seq(ScanItem) /\ Len(Tail(l)) = Len(l) - 1 /\ 1 \in 1..Len(l)
      /\ Head(l) = l[1]
      /\ \A i \in 1..Len(Tail(l)) : i + 1 \in 1..Len(l) /\ Tail(l)[i] = l[i + 1]
  BY <1>1, TailIs
<1>3. ASSUME NEW i \in 1..Len(Tail(l)), NEW j \in 1..Len(Tail(l)), j = i + 1,
             Tail(l)[i].do = "set"
      PROVE  Tail(l)[j].do = "return"
  BY <1>2, <1>3 DEF ScanList
<1>4. ASSUME Head(l).do = "set", Tail(l) # <<>> PROVE Head(Tail(l)).do = "return"
  <2>1. Len(Tail(l)) # 0 /\ Head(Tail(l)) = Tail(l)[1]
    BY <1>2, <1>4, EmptySeq
  <2>2. 2 \in 1..Len(l) => l[2].do = "return"
    BY <1>2, <1>4 DEF ScanList
  <2> QED
    BY <1>1, <1>2, <2>1, <2>2
<1> QED
  BY <1>2, <1>3, <1>4 DEF ScanList, Busy

LEMMA ScanAfter ==
  ASSUME NEW l, ScanList(l), NEW k \in 1..Len(l)
  PROVE  ScanList(SubSeq(l, k + 1, Len(l)))
<1> DEFINE r == SubSeq(l, k + 1, Len(l))
<1>1. l \in Seq(ScanItem) /\ Len(l) \in Nat
  BY LenProperties DEF ScanList
<1>2. /\ r \in Seq(ScanItem) /\ Len(r) = Len(l) - k
      /\ \A i \in 1..Len(r) : i + k \in 1..Len(l) /\ r[i] = l[i + k]
  BY <1>1, AfterIt
<1> HIDE DEF r
<1>3. ASSUME NEW i \in 1..Len(r), NEW j \in 1..Len(r), j = i + 1, r[i].do = "set"
      PROVE  r[j].do = "return"
  <2>1. i + k \in 1..Len(l) /\ j + k \in 1..Len(l) /\ j + k = i + k + 1
    BY <1>1, <1>2, <1>3
  <2>2. l[i + k].do = "set" => l[j + k].do = "return"
    BY <2>1 DEF ScanList
  <2> QED
    BY <1>2, <1>3, <2>2
<1> QED
  BY <1>2, <1>3 DEF ScanList, r

LEMMA ScanCat ==
  ASSUME NEW a, NEW b, ScanList(a), ScanList(b), a = <<>> \/ a[Len(a)].do # "set"
  PROVE  ScanList(a \o b)
<1>1. a \in Seq(ScanItem) /\ b \in Seq(ScanItem) /\ Len(a) \in Nat /\ Len(b) \in Nat
  BY LenProperties DEF ScanList
<1>2. /\ a \o b \in Seq(ScanItem) /\ Len(a \o b) = Len(a) + Len(b)
      /\ \A i \in 1 .. Len(a) + Len(b) : (a \o b)[i] = IF i <= Len(a) THEN a[i] ELSE b[i - Len(a)]
  BY <1>1, ConcatProperties
<1>3. ASSUME NEW i \in 1..Len(a \o b), NEW j \in 1..Len(a \o b), j = i + 1,
             (a \o b)[i].do = "set"
      PROVE  (a \o b)[j].do = "return"
  <2>1. CASE i <= Len(a)
    <3>1. i \in 1..Len(a) /\ a[i].do = "set"
      BY <1>1, <1>2, <1>3, <2>1
    <3>2. i # Len(a)
      BY <1>1, <3>1, EmptySeq
    <3>3. j \in 1..Len(a) /\ a[j].do = "return"
      BY <1>1, <1>3, <3>1, <3>2 DEF ScanList
    <3> QED
      BY <1>1, <1>2, <3>3
  <2>2. CASE i > Len(a)
    <3>1. /\ i - Len(a) \in 1..Len(b) /\ b[i - Len(a)].do = "set"
          /\ j - Len(a) \in 1..Len(b) /\ j - Len(a) = i - Len(a) + 1
      BY <1>1, <1>2, <1>3, <2>2
    <3>2. b[j - Len(a)].do = "return"
      BY <3>1 DEF ScanList
    <3> QED
      BY <1>1, <1>2, <1>3, <2>2, <3>2
  <2> QED
    BY <1>1, <1>2, <2>1, <2>2
<1> QED
  BY <1>2, <1>3 DEF ScanList

(* The port's lists do not set the state.                                  *)
LEMMA ScanPut ==
  ASSUME NEW a \in Seq(Deep(ScanBase)), NEW b, ScanList(b)
  PROVE  ScanList(a \o b) /\ ScanList(a)
<1>1. \A i \in 1..Len(a) : a[i].do # "set"
  BY ElementOfSeq, ScanDeep DEF CoreNames
<1>2. a \in Seq(ScanItem)
  BY Wider DEF ScanItem
<1>3. ScanList(a)
  BY <1>1, <1>2 DEF ScanList
<1>4. a = <<>> \/ a[Len(a)].do # "set"
  <2>1. Len(a) \in Nat /\ (a # <<>> => Len(a) # 0)
    BY LenProperties, EmptySeq
  <2> QED
    BY <1>1, <2>1
<1> QED
  BY <1>3, <1>4, ScanCat

LEMMA ScanLists ==
  /\ ScanList(<<>>) /\ ScanList(scanThread) /\ ScanList(scanThreadEnds)
  /\ ScanList(<<Do("while")>>)
  /\ ScanList(<<Try(close, <<>>), Set("CLOSED"), Do("return")>>)
<1> DEFINE T == Try(close, <<>>)
<1> DEFINE U == Try(stopScanning, <<>>)
<1>1. T \in ScanItem
  BY ScanDeep, CloseItems DEF ScanItem
<1>2. U \in ScanItem
  <2>1. U \in Around(Around(ScanBase))
    BY ScanDeep, Resets, EmptyIn, Tries
  <2> QED
    BY <2>1, AroundWider DEF Deep, ScanItem
<1>3. T.do = "try" /\ U.do = "try"
  BY TryIs
<1> HIDE DEF T, U
<1>4. /\ ScanTry \in ScanItem /\ Do("while") \in ScanItem /\ Do("return") \in ScanItem
      /\ Set("CLOSED") \in ScanItem /\ Set("OPENED") \in ScanItem
  BY DEF ScanItem
<1>5. Do("while").do = "while" /\ Do("return").do = "return" /\ ScanTry.do = "try"
  BY ScanTryIs DEF Do
<1>6. ScanList(<<>>)
  BY EmptySeq DEF ScanList
<1>7. ScanList(<<ScanTry, Do("while")>>) /\ ScanList(<<Do("while")>>)
  BY <1>4, <1>5 DEF ScanList
<1>8. ScanList(<<U, Set("OPENED")>>)
  BY <1>2, <1>3, <1>4 DEF ScanList
<1>9. ScanList(<<T, Set("CLOSED"), Do("return")>>)
  BY <1>1, <1>3, <1>4, <1>5 DEF ScanList
<1> QED
  BY <1>6, <1>7, <1>8, <1>9, ScanTryIs DEF T, U, scanThreadEnds

LEMMA ScanThrows ==
  ASSUME NEW s, ScanList(todo[s]), NEW kind \in {"other", "corrupted"}, Throw(s, kind)
  PROVE  \E l : Goto(s, l) /\ ScanList(l)
<1> DEFINE k == CatchAt(todo[s])
<1>1. CASE k = 0
  BY <1>1, ScanLists DEF Throw
<1>2. CASE k # 0
  <2> DEFINE x == todo[s][k]
  <2>1. k \in 1..Len(todo[s]) /\ x.do = "catch"
    BY <1>2, CatchesAt DEF ScanList
  <2>2. x \in ScanItem
    BY <2>1, ElementOfSeq DEF ScanList
  <2>3. ScanList(Beyond(todo[s]))
    BY <2>1, ScanAfter DEF Beyond
  <2>4. Goto(s, x[kind] \o Beyond(todo[s]))
    BY <1>2 DEF Throw
  <2>5. CASE x \in Deep(ScanBase)
    <3>1. x.other \in Seq(Deep(ScanBase)) /\ x.corrupted \in Seq(Deep(ScanBase))
      BY <2>1, <2>5, ScanDeep DEF Nested
    <3>2. x[kind] \in Seq(Deep(ScanBase))
      BY <3>1
    <3> QED
      BY <2>3, <2>4, <3>2, ScanPut
  <2>6. CASE x = Catch(ScanTry)
    <3> DEFINE a == <<Try(close, <<>>), Set("CLOSED"), Do("return")>>
    <3>1. x[kind] = a \/ x[kind] = <<>>
      BY <2>6, ScanTryIs
    <3>2. a # <<>> /\ a[Len(a)].do # "set"
      BY DEF Do
    <3>3. ScanList(a) /\ ScanList(<<>>)
      BY ScanLists
    <3> HIDE DEF a
    <3> QED
      BY <2>3, <2>4, <3>1, <3>2, <3>3, ScanCat
  <2>7. x \in Deep(ScanBase) \/ x = Catch(ScanTry)
    BY <2>1, <2>2, ScanTryIs DEF ScanItem, Do, Set
  <2> QED
    BY <2>5, <2>6, <2>7
<1> QED
  BY <1>1, <1>2

-----------------------------------------------------------------------------
(* A step of a scan thread.                                                *)
Advances(s, l) ==
  /\ Goto(s, l) /\ ScanList(l)
  /\ Busy(l) => Busy(todo[s])
  /\ UNCHANGED <<scan_thread_, lost, config_>>
  /\ state_' = state_ \/ (Busy(todo[s]) /\ ~Busy(l))

LEMMA ScanHead ==
  ASSUME NEW s, ScanList(todo[s]), NEW name, At(s, name)
  PROVE  /\ todo[s] # <<>> /\ Head(todo[s]) = todo[s][1] /\ Head(todo[s]) \in ScanItem
         /\ Head(todo[s]).do = name
         /\ name \in CoreNames \cup {"useScan", "try", "catch", "ifPort", "while", "return", "set"}
         /\ ScanList(Rest(s)) /\ (name = "set" => ~Busy(Rest(s)))
         /\ name # "return" => Busy(todo[s])
<1>1. todo[s] # <<>> /\ Head(todo[s]).do = name
  BY DEF At
<1>2. Head(todo[s]) = todo[s][1] /\ Head(todo[s]) \in ScanItem
  BY <1>1, TailIs DEF ScanList
<1>3. ScanList(Rest(s)) /\ (name = "set" => ~Busy(Rest(s)))
  BY <1>1, ScanTail DEF Rest
<1> QED
  BY <1>1, <1>2, <1>3, ScanNamed DEF Busy

LEMMA ScanSteps ==
  ASSUME NEW s, todo = [todo EXCEPT ![s] = todo[s]], ScanList(todo[s]), Step(s)
  PROVE  \E l : Advances(s, l)
<1>1. ASSUME NEW name, At(s, name), name # "return", Continue(s),
             UNCHANGED <<scan_thread_, lost, config_>>,
             state_' = state_ \/ name = "set"
      PROVE  \E l : Advances(s, l)
  BY <1>1, ScanHead DEF Advances, Continue
<1>2. ASSUME NEW name, At(s, name), name # "return",
             NEW kind \in {"other", "corrupted"}, Throw(s, kind), UNCHANGED driverVars
      PROVE  \E l : Advances(s, l)
  <2>1. PICK l : Goto(s, l) /\ ScanList(l)
    BY <1>2, ScanThrows
  <2> QED
    BY <1>2, <2>1, ScanHead DEF Advances, driverVars
<1>3. ASSUME NEW name, At(s, name), name # "return", NEW l, Goto(s, l), ScanList(l),
             UNCHANGED driverVars
      PROVE  \E m : Advances(s, m)
  BY <1>3, ScanHead DEF Advances, driverVars
<1>4. CASE laserFlush(s)
  BY <1>1, <1>2, <1>4 DEF laserFlush, Except, driverVars
<1>5. CASE laserWrite(s)
  BY <1>1, <1>2, <1>5 DEF laserWrite, Except, driverVars
<1>6. CASE laserReadline(s)
  <2>1. \/ UNCHANGED todo
        \/ Throw(s, "corrupted") \/ Throw(s, "other")
        \/ Continue(s)
    BY <1>6 DEF laserReadline, Except
  <2>2. UNCHANGED todo => Goto(s, todo[s])
    BY DEF Goto
  <2>3. At(s, "read") /\ UNCHANGED driverVars
    BY <1>6 DEF laserReadline
  <2> QED
    BY <1>1, <1>2, <1>3, <2>1, <2>2, <2>3 DEF driverVars
<1>7. CASE TooMuchSkipped(s)
  BY <1>2, <1>7 DEF TooMuchSkipped, Except
<1>8. CASE ReadFails(s)
  BY <1>2, <1>8 DEF ReadFails, Except
<1>9. CASE openPort(s)
  BY <1>1, <1>2, <1>9 DEF openPort, Except, driverVars
<1>10. CASE closePort(s)
  BY <1>1, <1>10 DEF closePort, driverVars
<1>11. CASE ifPort(s)
  <2>1. /\ At(s, "ifPort") /\ UNCHANGED driverVars
        /\ Goto(s, (IF fd = "closed" THEN <<>> ELSE Head(todo[s]).then) \o Rest(s))
    BY <1>11 DEF ifPort
  <2>2. Head(todo[s]) \in Deep(ScanBase)
    BY <2>1, ScanHead, ScanTryIs DEF ScanItem, Do, Set
  <2>3. Head(todo[s]).then \in Seq(Deep(ScanBase))
    BY <2>1, <2>2, ScanHead, ScanDeep DEF Nested
  <2>4. (IF fd = "closed" THEN <<>> ELSE Head(todo[s]).then) \in Seq(Deep(ScanBase))
    BY <2>3, EmptyIn
  <2>5. ScanList((IF fd = "closed" THEN <<>> ELSE Head(todo[s]).then) \o Rest(s))
    BY <2>1, <2>4, ScanHead, ScanPut
  <2> QED
    BY <1>3, <2>1, <2>5
<1>12. CASE ControlStep(s)
  <2>0. Control(s) /\ UNCHANGED driverVars
    BY <1>12 DEF ControlStep
  <2>1. ASSUME At(s, "try"), Goto(s, Head(todo[s]).body \o <<Catch(Head(todo[s]))>> \o Rest(s))
        PROVE  \E m : Advances(s, m)
    <3> DEFINE x == Head(todo[s])
    <3>1. x \in ScanItem /\ x.do = "try" /\ ScanList(Rest(s))
      BY <2>1, ScanHead
    <3>2. CASE x \in Deep(ScanBase)
      <4>1. x.body \in Seq(Deep(ScanBase)) /\ Catch(x) \in Deep(ScanBase)
        BY <3>1, <3>2, ScanDeep DEF Nested
      <4>2. x.body \o <<Catch(x)>> \in Seq(Deep(ScanBase))
        BY <4>1, One, Cat
      <4> QED
        BY <1>3, <2>0, <2>1, <3>1, <4>2, ScanPut
    <3>3. CASE x = ScanTry
      <4>1. serviceScan \in ScanItem /\ Do("useScan") \in ScanItem /\ Catch(x) \in ScanItem
        BY <3>3, ScanDeep, CoreIs DEF ScanItem, serviceScan, Words, ScanBase
      <4>2. serviceScan.do = "read" /\ Do("useScan").do = "useScan" /\ Catch(x).do = "catch"
        BY <3>3, ScanTryIs DEF serviceScan, Wait, Do
      <4>3. x.body \o <<Catch(x)>> = <<serviceScan, Do("useScan"), Catch(x)>>
        BY <3>3, ScanTryIs, ThreeCat
      <4> DEFINE c == Catch(x)
                 r == serviceScan
                 u == Do("useScan")
      <4> HIDE DEF c, r, u
      <4>4. ScanList(<<r, u, c>>)
        BY <4>1, <4>2 DEF ScanList, c, r, u
      <4>5. <<r, u, c>> # <<>> /\ <<r, u, c>>[Len(<<r, u, c>>)].do # "set"
        BY <4>2 DEF c
      <4>6. ScanList(<<r, u, c>> \o Rest(s))
        BY <3>1, <4>4, <4>5, ScanCat
      <4> QED
        BY <1>3, <2>0, <2>1, <4>3, <4>6 DEF c, r, u
    <3>4. x \in Deep(ScanBase) \/ x = ScanTry
      BY <3>1, ScanTryIs DEF ScanItem, Do, Set
    <3> QED
      BY <3>2, <3>3, <3>4
  <2>2. ASSUME At(s, "catch"), Continue(s) PROVE \E m : Advances(s, m)
    BY <1>1, <2>0, <2>2 DEF driverVars
  <2>3. ASSUME At(s, "throw"), Except(s) PROVE \E m : Advances(s, m)
    BY <1>2, <2>0, <2>3 DEF Except
  <2>4. ASSUME At(s, "return"), Goto(s, <<>>) PROVE \E m : Advances(s, m)
    BY <2>0, <2>4, ScanLists DEF Advances, Busy, driverVars
  <2>5. ASSUME At(s, "while"), Goto(s, IF state_ = "RUNNING" THEN scanThread ELSE scanThreadEnds)
        PROVE  \E m : Advances(s, m)
    BY <1>3, <2>0, <2>5, ScanLists
  <2>6. ~At(s, "if") /\ ~At(s, "opened") /\ ~At(s, "update") /\ ~At(s, "again") /\ ~At(s, "doStart")
    BY ScanHead DEF CoreNames
  <2> QED
    BY <2>0, <2>1, <2>2, <2>3, <2>4, <2>5, <2>6 DEF Control
<1>13. CASE Checked(s)
  <2>1. ~At(s, "status")
    BY ScanHead DEF CoreNames
  <2> QED
    BY <1>1, <1>2, <1>13, <2>1 DEF Checked, Except, driverVars
<1>14. CASE BeginOpen(s) \/ getID(s) \/ Calibrate(s) \/ SetTheConfig(s)
  BY <1>14, ScanHead DEF BeginOpen, getID, Calibrate, SetTheConfig, CoreNames
<1>15. CASE SetState(s)
  BY <1>1, <1>15 DEF SetState
<1>16. CASE useScan(s)
  <2>1. At(s, "useScan") /\ Goto(s, IF ret[s] = "00" THEN Rest(s) ELSE scanThreadEnds)
        /\ UNCHANGED driverVars
    BY <1>16 DEF useScan
  <2> QED
    BY <1>3, <2>1, ScanHead, ScanLists
<1> QED
  BY <1>4, <1>5, <1>6, <1>7, <1>8, <1>9, <1>10, <1>11, <1>12, <1>13, <1>14, <1>15, <1>16 DEF Step

-----------------------------------------------------------------------------
(* What the main thread still has to do.                                   *)
Config == [intensity : BOOLEAN, min_ang : Int, max_ang : Int, calibrate_time : BOOLEAN]

Opened == If("OPENED", <<Do("opened")>>)

OpenNames == {"doOpen", "getID", "status", "calibrate", "calibrated", "opened"}

MainBase ==
  Core \cup {Do(n) : n \in OpenNames} \cup {Set("OPENED"), Set("CLOSED"), Opened}
    \cup {Again(n) : n \in Nat} \cup {SetConfig(c) : c \in Config}

(* What driver_base asks for.                                              *)
Update(c) == [do |-> "update", config |-> c]

WalkItem ==
  {If("CLOSED", <<Do("doOpen"), Opened>>), If("OPENED", <<Do("doStart")>>),
   If("RUNNING", doStop), If("OPENED", doClose), If("OPENED", OpenedTests), Do("exit")}
    \cup {Update(c) : c \in Config}

StartTry(c) == Head(doStart(c))

StartItem ==
  {Do("doStart"), Do("started"), Do("doStop"), Do("join")} \cup {StartTry(c) : c \in Config}

MainItem == Deeper(MainBase) \cup WalkItem \cup StartItem

(* When the scan thread was started or stopped the call is at its end:     *)
(* nothing follows but other calls of driver_base.                         *)
Settled(x) == x \in WalkItem \/ x.do = "catch"

MainList(l) ==
  /\ l \in Seq(MainItem)
  /\ \A i, j \in 1..Len(l) : i < j /\ l[i] \in WalkItem \cup StartItem => Settled(l[j])

AllSettled(l) == \A i \in 1..Len(l) : Settled(l[i])

(* What the main thread may have to do while the scan thread is at work.   *)
Calm(l) ==
  \A i \in 1..Len(l) :
    \/ Settled(l[i]) \/ l[i].do \in {"config", "doStop", "join"}
    \/ l[i].do = "set" /\ i + 1 \in 1..Len(l) /\ l[i + 1].do = "join"

LEMMA MainBaseNamed ==
  /\ \A x \in MainBase : x.do \in CoreNames \cup OpenNames \cup {"set", "if", "again", "config"}
  /\ \A x \in MainBase : x.do = "if" => x = Opened
  /\ \A x \in MainBase : x.do = "set" => x = Set("OPENED") \/ x = Set("CLOSED")
<1>1. /\ \A n : Do(n).do = n /\ Set(n).do = "set" /\ Again(n).do = "again"
                /\ SetConfig(n).do = "config"
      /\ Opened.do = "if"
  BY DEF Do, Set, Again, SetConfig, Opened, If
<1> SUFFICES ASSUME NEW x \in MainBase
    PROVE  /\ x.do \in CoreNames \cup OpenNames \cup {"set", "if", "again", "config"}
           /\ x.do = "if" => x = Opened
           /\ x.do = "set" => x = Set("OPENED") \/ x = Set("CLOSED")
  OBVIOUS
<1>2. \/ x \in Core \/ \E n \in OpenNames : x = Do(n)
      \/ x = Set("OPENED") \/ x = Set("CLOSED") \/ x = Opened
      \/ \E n \in Nat : x = Again(n)
      \/ \E c \in Config : x = SetConfig(c)
  BY Zenon DEF MainBase
<1>3. x \in Core => x.do \in CoreNames
  BY CoreNamed
<1>4. x.do \in CoreNames \cup OpenNames \cup {"set", "if", "again", "config"}
  BY <1>1, <1>2, <1>3, Zenon
<1>5. ASSUME x.do = "if" PROVE x = Opened
  <2>1. "if" \notin CoreNames \cup OpenNames \cup {"set", "again", "config"}
    BY DEF CoreNames, OpenNames
  <2> QED
    BY <1>1, <1>2, <1>3, <1>5, <2>1
<1>6. ASSUME x.do = "set" PROVE x = Set("OPENED") \/ x = Set("CLOSED")
  <2>1. "set" \notin CoreNames \cup OpenNames \cup {"if", "again", "config"}
    BY DEF CoreNames, OpenNames
  <2> QED
    BY <1>1, <1>2, <1>3, <1>6, <2>1
<1> QED
  BY <1>4, <1>5, <1>6

LEMMA MainBaseNested == Nested(MainBase)
BY MainBaseNamed DEF Nested, CoreNames, OpenNames

LEMMA MainDeep ==
  /\ Nested(Deep(MainBase)) /\ Nested(Deeper(MainBase))
  /\ MainBase \subseteq Deep(MainBase) /\ Deep(MainBase) \subseteq Deeper(MainBase)
  /\ Core \subseteq MainBase
  /\ \A x \in Deeper(MainBase) : x \in MainBase \/ x.do \in {"try", "catch", "ifPort"}
BY MainBaseNested, DeepNested, DeepNamed, Zenon DEF MainBase

LEMMA StartTryIs ==
  ASSUME NEW c
  PROVE  /\ doStart(c) = <<StartTry(c)>>
         /\ StartTry(c) = Try(laserOn \o requestScans(IF c.intensity THEN "ME" ELSE "MD")
                                \o <<Do("started")>>, doClose)
         /\ StartTry(c).do = "try"
         /\ StartTry(c).body = laserOn \o requestScans(IF c.intensity THEN "ME" ELSE "MD")
                                 \o <<Do("started")>>
         /\ Catch(StartTry(c)) = [do |-> "catch", other |-> doClose, corrupted |-> doClose]
<1>1. doStart(c) = <<StartTry(c)>>
      /\ StartTry(c) = Try(laserOn \o requestScans(IF c.intensity THEN "ME" ELSE "MD")
                             \o <<Do("started")>>, doClose)
  BY DEF doStart, StartTry
<1> DEFINE b == laserOn \o requestScans(IF c.intensity THEN "ME" ELSE "MD") \o <<Do("started")>>
<1>2. doStart(c) = <<StartTry(c)>> /\ StartTry(c) = Try(b, doClose)
  BY <1>1
<1> HIDE DEF b
<1>3. /\ StartTry(c).do = "try" /\ StartTry(c).body = b
      /\ Catch(StartTry(c)) = [do |-> "catch", other |-> doClose, corrupted |-> doClose]
  BY <1>2, TryIs
<1> QED
  BY <1>2, <1>3 DEF b

LEMMA StartsScan ==
  ASSUME NEW c
  PROVE  laserOn \o requestScans(IF c.intensity THEN "ME" ELSE "MD") \in Seq(Core)
<1>1. requestScans("ME") \in Seq(Core) /\ requestScans("MD") \in Seq(Core)
  BY Exchanges DEF Words, ScanCommands
<1> QED
  BY <1>1, Queries, Cat

(* The calls of driver_base are none of the things a call does.            *)
LEMMA WalkNamed ==
  \A x \in WalkItem :
    /\ x.do \in {"if", "exit", "update"}
    /\ x.do = "if" => x.then # <<Do("opened")>>
    /\ x.do = "exit" => x = Do("exit")
    /\ x.do = "update" => \E c \in Config : x = Update(c)
    /\ x.do = "if" => x \in {If("CLOSED", <<Do("doOpen"), Opened>>), If("OPENED", <<Do("doStart")>>),
                             If("RUNNING", doStop), If("OPENED", doClose), If("OPENED", OpenedTests)}
<1>1. \A s, l : If(s, l).do = "if" /\ If(s, l).then = l
  BY DEF If
<1>2. /\ <<Do("doOpen"), Opened>> # <<Do("opened")>> /\ doStop # <<Do("opened")>>
      /\ <<Do("doStart")>> # <<Do("opened")>>
      /\ doClose # <<Do("opened")>> /\ OpenedTests # <<Do("opened")>>
  <2>1. Do("doStart") # Do("opened") /\ Do("doStop") # Do("opened")
    BY DEF Do
  <2>2. \A x, y, z : <<x, y>> # <<z>>
    OBVIOUS
  <2>3. \A x, y, z, u, v, w : <<x, y, z, u, v>> # <<w>>
    OBVIOUS
  <2>4. \A x, y : x # y => <<x>> # <<y>>
    OBVIOUS
  <2> QED
    BY <2>1, <2>2, <2>3, <2>4, Zenon DEF doStop, doClose, OpenedTests
<1>3. Do("exit").do = "exit" /\ \A c : Update(c).do = "update"
  BY DEF Do, Update
<1>4. \A x \in WalkItem :
        \/ x = If("CLOSED", <<Do("doOpen"), Opened>>) \/ x = If("OPENED", <<Do("doStart")>>)
        \/ x = If("RUNNING", doStop) \/ x = If("OPENED", doClose)
        \/ x = If("OPENED", OpenedTests) \/ x = Do("exit")
        \/ \E c \in Config : x = Update(c)
  BY Zenon DEF WalkItem
<1> QED
  BY <1>1, <1>2, <1>3, <1>4

LEMMA StartNamed ==
  \A x \in StartItem :
    /\ x.do \in {"doStart", "started", "doStop", "join", "try"}
    /\ x.do = "try" => \E c \in Config : x = StartTry(c)
<1>1. \A n : Do(n).do = n
  BY DEF Do
<1>2. \A x \in StartItem :
        \/ x = Do("doStart") \/ x = Do("started") \/ x = Do("doStop") \/ x = Do("join")
        \/ \E c \in Config : x = StartTry(c)
  BY Zenon DEF StartItem
<1>3. \A c : StartTry(c).do = "try"
  BY StartTryIs
<1> QED
  BY <1>1, <1>2, <1>3

LEMMA Apart == \A x \in Deeper(MainBase) : x \notin WalkItem \cup StartItem
<1> SUFFICES ASSUME NEW x \in Deeper(MainBase), x \in WalkItem \cup StartItem PROVE FALSE
  OBVIOUS
<1>1. CASE x \in MainBase
  <2>1. CASE x \in WalkItem
    <3>1. x.do = "if" /\ x = Opened
      BY <1>1, <2>1, WalkNamed, MainBaseNamed DEF CoreNames, OpenNames
    <3>2. x.then = <<Do("opened")>>
      BY <3>1 DEF Opened, If
    <3> QED
      BY <2>1, <3>1, <3>2, WalkNamed
  <2>2. CASE x \in StartItem
    BY <1>1, <2>2, StartNamed, MainBaseNamed DEF CoreNames, OpenNames
  <2> QED
    BY <2>1, <2>2
<1>2. CASE x.do \in {"try", "catch", "ifPort"}
  <2>1. PICK c \in Config : x = StartTry(c)
    BY <1>2, WalkNamed, StartNamed
  <2> DEFINE b == laserOn \o requestScans(IF c.intensity THEN "ME" ELSE "MD")
  <2>2. x.do = "try" /\ x.body = b \o <<Do("started")>>
    BY <2>1, StartTryIs
  <2>3. b \in Seq(Deeper(MainBase))
    BY StartsScan, MainDeep, Wider
  <2>4. x.body \in Seq(Deeper(MainBase))
    BY <2>2, MainDeep DEF Nested
  <2> HIDE DEF b
  <2>5. Len(x.body) \in 1..Len(x.body) /\ x.body[Len(x.body)] = Do("started")
    <3>1. b \in Seq({b[i] : i \in 1..Len(b)} \cup {Do("started")})
          /\ <<Do("started")>> \in Seq({b[i] : i \in 1..Len(b)} \cup {Do("started")})
      <4>1. b \in [1..Len(b) -> Deeper(MainBase)] /\ Len(b) \in Nat
        BY <2>3, LenProperties
      <4>2. \A i \in 1..Len(b) : b[i] \in {b[j] : j \in 1..Len(b)} \cup {Do("started")}
        OBVIOUS
      <4> QED
        BY <2>3, <4>1, <4>2
    <3>2. Len(b) \in Nat /\ Len(<<Do("started")>>) = 1 /\ <<Do("started")>>[1] = Do("started")
      BY <2>3, LenProperties
    <3>3. /\ Len(x.body) = Len(b) + 1
          /\ \A i \in 1 .. Len(b) + 1 :
               x.body[i] = IF i <= Len(b) THEN b[i] ELSE <<Do("started")>>[i - Len(b)]
      BY <2>2, <3>1, <3>2, ConcatProperties
    <3> QED
      BY <3>2, <3>3
  <2>6. Do("started") \in Deeper(MainBase)
    BY <2>4, <2>5, ElementOfSeq
  <2> QED
    BY <2>6, MainDeep, MainBaseNamed DEF Do, CoreNames, OpenNames
<1> QED
  BY <1>1, <1>2, MainDeep

LEMMA MainTail ==
  ASSUME NEW l, MainList(l), l # <<>>
  PROVE  /\ MainList(Tail(l)) /\ Head(l) = l[1] /\ Head(l) \in MainItem
         /\ Head(l) \in WalkItem \cup StartItem => AllSettled(Tail(l))
         /\ Calm(l) => Calm(Tail(l))
         /\ Calm(l) => \/ Settled(Head(l)) \/ Head(l).do \in {"config", "doStop", "join"}
                       \/ Head(l).do = "set" /\ Tail(l) # <<>> /\ Head(Tail(l)).do = "join"
<1>1. l \in Seq(MainItem) /\ Len(l) \in Nat
  BY LenProperties DEF MainList
<1>2. /\ Tail(l) \in Seq(MainItem) /\ Len(Tail(l)) = Len(l) - 1 /\ 1 \in 1..Len(l)
      /\ Head(l) = l[1] /\ Head(l) \in MainItem
      /\ \A i \in 1..Len(Tail(l)) : i + 1 \in 1..Len(l) /\ Tail(l)[i] = l[i + 1]
  BY <1>1, TailIs
<1>3. ASSUME NEW i \in 1..Len(Tail(l)), NEW j \in 1..Len(Tail(l)), i < j,
             Tail(l)[i] \in WalkItem \cup StartItem
      PROVE  Settled(Tail(l)[j])
  <2>1. i + 1 \in 1..Len(l) /\ j + 1 \in 1..Len(l) /\ i + 1 < j + 1
    BY <1>2, <1>3
  <2>2. l[i + 1] \in WalkItem \cup StartItem
    BY <1>2, <1>3
  <2> QED
    BY <1>2, <2>1, <2>2 DEF MainList
<1>4. ASSUME Head(l) \in WalkItem \cup StartItem PROVE AllSettled(Tail(l))
  <2> SUFFICES ASSUME NEW i \in 1..Len(Tail(l)) PROVE Settled(Tail(l)[i])
    BY DEF AllSettled
  <2>1. 1 \in 1..Len(l) /\ i + 1 \in 1..Len(l) /\ 1 < i + 1
    BY <1>2
  <2> QED
    BY <1>2, <1>4, <2>1 DEF MainList
<1>5. ASSUME Calm(l) PROVE Calm(Tail(l))
  <2> SUFFICES ASSUME NEW i \in 1..Len(Tail(l))
      PROVE  \/ Settled(Tail(l)[i]) \/ Tail(l)[i].do \in {"config", "doStop", "join"}
             \/ Tail(l)[i].do = "set" /\ i + 1 \in 1..Len(Tail(l)) /\ Tail(l)[i + 1].do = "join"
    BY Zenon DEF Calm
  <2>1. i + 1 \in 1..Len(l) /\ Tail(l)[i] = l[i + 1]
    BY <1>2
  <2>2. \/ Settled(l[i + 1]) \/ l[i + 1].do \in {"config", "doStop", "join"}
        \/ l[i + 1].do = "set" /\ (i + 1) + 1 \in 1..Len(l) /\ l[(i + 1) + 1].do = "join"
    BY <1>5, <2>1 DEF Calm
  <2>3. (i + 1) + 1 \in 1..Len(l) =>
          i + 1 \in 1..Len(Tail(l)) /\ Tail(l)[i + 1] = l[(i + 1) + 1]
    BY <1>1, <1>2
  <2> QED
    BY <2>1, <2>2, <2>3
<1>6. ASSUME Calm(l)
      PROVE  \/ Settled(Head(l)) \/ Head(l).do \in {"config", "doStop", "join"}
             \/ Head(l).do = "set" /\ Tail(l) # <<>> /\ Head(Tail(l)).do = "join"
  <2>1. \/ Settled(l[1]) \/ l[1].do \in {"config", "doStop", "join"}
        \/ l[1].do = "set" /\ 1 + 1 \in 1..Len(l) /\ l[1 + 1].do = "join"
    BY <1>2, <1>6 DEF Calm
  <2>2. 1 + 1 \in 1..Len(l) => Tail(l) # <<>> /\ Head(Tail(l)) = l[1 + 1]
    <3> SUFFICES ASSUME 1 + 1 \in 1..Len(l) PROVE Tail(l) # <<>> /\ Head(Tail(l)) = l[1 + 1]
      OBVIOUS
    <3>1. 1 \in 1..Len(Tail(l)) /\ Tail(l)[1] = l[1 + 1]
      BY <1>1, <1>2
    <3>2. Tail(l) # <<>>
      <4>1. Len(Tail(l)) # 0
        BY <3>1
      <4>2. Len(<<>>) = 0
        OBVIOUS
      <4> QED
        BY <4>1, <4>2, Zenon
    <3>3. Head(Tail(l)) = Tail(l)[1]
      BY <1>2, <3>2, TailIs
    <3> QED
      BY <3>1, <3>2, <3>3
  <2> QED
    BY <1>2, <2>1, <2>2
<1>7. MainList(Tail(l))
  BY <1>2, <1>3 DEF MainList
<1> QED
  BY <1>2, <1>4, <1>5, <1>6, <1>7

LEMMA MainAfter ==
  ASSUME NEW l, MainList(l), NEW k \in 0..Len(l)
  PROVE  MainList(SubSeq(l, k + 1, Len(l)))
<1> DEFINE r == SubSeq(l, k + 1, Len(l))
<1>1. l \in Seq(MainItem) /\ Len(l) \in Nat
  BY LenProperties DEF MainList
<1>2. /\ r \in Seq(MainItem) /\ Len(r) = Len(l) - k
      /\ \A i \in 1..Len(r) : i + k \in 1..Len(l) /\ r[i] = l[i + k]
  BY <1>1, AfterIt
<1> HIDE DEF r
<1>3. ASSUME NEW i \in 1..Len(r), NEW j \in 1..Len(r), i < j, r[i] \in WalkItem \cup StartItem
      PROVE  Settled(r[j])
  <2>1. i + k \in 1..Len(l) /\ j + k \in 1..Len(l) /\ i + k < j + k
    BY <1>1, <1>2, <1>3
  <2>2. l[i + k] \in WalkItem \cup StartItem
    BY <1>2, <1>3
  <2> QED
    BY <1>2, <2>1, <2>2 DEF MainList
<1> QED
  BY <1>2, <1>3 DEF MainList, r

(* One thing of the start or the stop may come before what is settled.     *)
LEMMA MainOne ==
  ASSUME NEW x \in MainItem, NEW b, MainList(b),
         x \in WalkItem \cup StartItem => AllSettled(b)
  PROVE  MainList(<<x>> \o b)
<1>1. b \in Seq(MainItem) /\ <<x>> \in Seq(MainItem) /\ Len(b) \in Nat
  BY LenProperties, One DEF MainList
<1>2. Len(<<x>>) = 1 /\ <<x>>[1] = x
  OBVIOUS
<1> DEFINE l == <<x>> \o b
<1>3. /\ l \in Seq(MainItem) /\ Len(l) = 1 + Len(b)
      /\ \A i \in 1 .. 1 + Len(b) : l[i] = IF i <= 1 THEN <<x>>[i] ELSE b[i - 1]
  BY <1>1, <1>2, ConcatProperties
<1> HIDE DEF l
<1>4. ASSUME NEW i \in 1..Len(l), NEW j \in 1..Len(l), i < j, l[i] \in WalkItem \cup StartItem
      PROVE  Settled(l[j])
  <2>1. j - 1 \in 1..Len(b) /\ l[j] = b[j - 1]
    BY <1>1, <1>3, <1>4
  <2>2. CASE i = 1
    <3>1. l[i] = x
      BY <1>2, <1>3, <2>2
    <3> QED
      BY <1>4, <2>1, <3>1 DEF AllSettled
  <2>3. CASE i # 1
    <3>1. i - 1 \in 1..Len(b) /\ l[i] = b[i - 1] /\ i - 1 < j - 1
      BY <1>1, <1>3, <1>4, <2>3
    <3> QED
      BY <1>4, <2>1, <3>1 DEF MainList
  <2> QED
    BY <2>2, <2>3
<1> QED
  BY <1>3, <1>4 DEF MainList, l

(* What a call does, before what is to be done later.                      *)
LEMMA MainPut ==
  ASSUME NEW a \in Seq(Deeper(MainBase)), NEW b, MainList(b)
  PROVE  MainList(a \o b)
<1>1. /\ a \in Seq(MainItem) /\ b \in Seq(MainItem) /\ Len(a) \in Nat /\ Len(b) \in Nat
      /\ \A i \in 1..Len(a) : a[i] \in Deeper(MainBase)
  BY LenProperties, Wider, ElementOfSeq DEF MainList, MainItem
<1> DEFINE l == a \o b
<1>2. /\ l \in Seq(MainItem) /\ Len(l) = Len(a) + Len(b)
      /\ \A i \in 1 .. Len(a) + Len(b) : l[i] = IF i <= Len(a) THEN a[i] ELSE b[i - Len(a)]
  BY <1>1, ConcatProperties
<1> HIDE DEF l
<1>3. ASSUME NEW i \in 1..Len(l), NEW j \in 1..Len(l), i < j, l[i] \in WalkItem \cup StartItem
      PROVE  Settled(l[j])
  <2>1. ~(i <= Len(a))
    BY <1>1, <1>2, <1>3, Apart
  <2>2. /\ i - Len(a) \in 1..Len(b) /\ j - Len(a) \in 1..Len(b) /\ i - Len(a) < j - Len(a)
        /\ l[i] = b[i - Len(a)] /\ l[j] = b[j - Len(a)]
    BY <1>1, <1>2, <1>3, <2>1
  <2> QED
    BY <1>3, <2>2 DEF MainList
<1> QED
  BY <1>2, <1>3 DEF MainList, l

LEMMA Walks ==
  ASSUME NEW l \in Seq(WalkItem)
  PROVE  MainList(l) /\ AllSettled(l) /\ Calm(l)
<1>1. \A i \in 1..Len(l) : l[i] \in WalkItem
  BY ElementOfSeq
<1>2. l \in Seq(MainItem)
  BY Wider DEF MainItem
<1> QED
  BY <1>1, <1>2 DEF MainList, AllSettled, Calm, Settled

LEMMA TwoCat ==
  ASSUME NEW S, NEW x \in S, NEW y \in S, NEW b \in Seq(S)
  PROVE  <<x, y>> \o b = <<x>> \o (<<y>> \o b)
<1>1. <<x>> \in Seq(S) /\ <<y>> \in Seq(S)
  OBVIOUS
<1> DEFINE s == <<x>> \o <<y>>
<1>2. s \in Seq(S) /\ Len(s) = 2 /\ s[1] = x /\ s[2] = y
  BY <1>1, ConcatProperties
<1>3. (<<x>> \o <<y>>) \o b = <<x>> \o (<<y>> \o b)
  BY <1>1, ConcatAssociative
<1> HIDE DEF s
<1>4. s = <<s[1], s[2]>>
  BY <1>2, TwoOf
<1>5. s = <<x, y>>
  BY <1>2, <1>4, Zenon
<1> QED
  BY <1>3, <1>5, Zenon DEF s

LEMMA CalmOne ==
  ASSUME NEW x \in MainItem, NEW b, MainList(b), Calm(b),
         \/ Settled(x) \/ x.do \in {"config", "doStop", "join"}
         \/ x.do = "set" /\ b # <<>> /\ Head(b).do = "join"
  PROVE  Calm(<<x>> \o b)
<1>1. b \in Seq(MainItem) /\ <<x>> \in Seq(MainItem) /\ Len(b) \in Nat
  BY LenProperties, One DEF MainList
<1>2. Len(<<x>>) = 1 /\ <<x>>[1] = x
  OBVIOUS
<1> DEFINE l == <<x>> \o b
<1>3. /\ Len(l) = 1 + Len(b)
      /\ \A i \in 1 .. 1 + Len(b) : l[i] = IF i <= 1 THEN <<x>>[i] ELSE b[i - 1]
  BY <1>1, <1>2, ConcatProperties
<1> HIDE DEF l
<1> SUFFICES ASSUME NEW i \in 1..Len(l)
    PROVE  \/ Settled(l[i]) \/ l[i].do \in {"config", "doStop", "join"}
           \/ l[i].do = "set" /\ i + 1 \in 1..Len(l) /\ l[i + 1].do = "join"
  BY Zenon DEF Calm, l
<1>4. CASE i = 1
  <2>1. l[i] = x
    BY <1>2, <1>3, <1>4
  <2>2. CASE b # <<>> /\ Head(b).do = "join" /\ x.do = "set"
    <3>1. Len(b) # 0 /\ Head(b) = b[1]
      BY <1>1, <2>2, TailIs
    <3>2. i + 1 \in 1..Len(l) /\ l[i + 1] = b[1]
      BY <1>1, <1>3, <1>4, <3>1
    <3> QED
      BY <2>1, <2>2, <3>1, <3>2
  <2> QED
    BY <2>1, <2>2
<1>5. CASE i # 1
  <2>1. i - 1 \in 1..Len(b) /\ l[i] = b[i - 1]
    BY <1>1, <1>3, <1>5
  <2>2. \/ Settled(b[i - 1]) \/ b[i - 1].do \in {"config", "doStop", "join"}
        \/ b[i - 1].do = "set" /\ (i - 1) + 1 \in 1..Len(b) /\ b[(i - 1) + 1].do = "join"
    BY <2>1 DEF Calm
  <2>3. (i - 1) + 1 \in 1..Len(b) => i + 1 \in 1..Len(l) /\ l[i + 1] = b[(i - 1) + 1]
    BY <1>1, <1>3, <1>5
  <2> QED
    BY <2>1, <2>2, <2>3
<1> QED
  BY <1>4, <1>5

LEMMA SettledCalm == \A l : AllSettled(l) => Calm(l)
BY Zenon DEF AllSettled, Calm

(* What the calls of driver_base do.                                       *)
LEMMA CloseIn == doClose \in Seq(Deeper(MainBase)) /\ doClose \in Seq(Deep(MainBase))
<1>1. Try(close, <<>>) \in Deep(MainBase) /\ Set("CLOSED") \in Deep(MainBase)
  BY MainDeep, CloseItems DEF MainBase
<1>2. doClose \in Seq(Deep(MainBase))
  BY <1>1, Two DEF doClose
<1> QED
  BY <1>2, MainDeep, Wider

LEMMA InBase ==
  /\ \A n \in OpenNames : Do(n) \in MainBase
  /\ Set("OPENED") \in MainBase /\ Set("CLOSED") \in MainBase /\ Opened \in MainBase
  /\ \A n \in Nat : Again(n) \in MainBase
  /\ \A c \in Config : SetConfig(c) \in MainBase
  /\ Core \subseteq MainBase
BY Zenon DEF MainBase

LEMMA FromBase ==
  ASSUME NEW l
  PROVE  /\ l \in Seq(MainBase) => l \in Seq(Deeper(MainBase))
         /\ l \in Seq(Around(MainBase)) => l \in Seq(Deeper(MainBase))
         /\ l \in Seq(Around(Around(Around(MainBase)))) => l \in Seq(Deeper(MainBase))
         /\ l \in Seq(MainBase) => l \in Seq(Deep(MainBase))
         /\ l \in Seq(Around(MainBase)) => l \in Seq(Deep(MainBase))
         /\ l \in Seq(Around(Around(Around(MainBase)))) => l \in Seq(Deep(MainBase))
<1>1. /\ MainBase \subseteq Deep(MainBase) /\ Around(MainBase) \subseteq Deep(MainBase)
      /\ Around(Around(Around(MainBase))) \subseteq Deep(MainBase)
      /\ Deep(MainBase) \subseteq Deeper(MainBase)
  BY AroundWider, Zenon DEF Deep, Deeper
<1> QED
  BY <1>1, Wider

LEMMA PluggedIns ==
  ASSUME NEW n \in Nat
  PROVE  PluggedIn(n) \in Seq(Around(MainBase))
<1>1. laserOn \in Seq(MainBase) /\ laserOn \in Seq(Around(MainBase))
  BY InBase, Queries, AroundWider, Wider
<1>2. CASE n = 0
  BY <1>1, <1>2 DEF PluggedIn
<1>3. CASE n # 0
  <2>1. Again(n - 1) \in MainBase
    BY <1>3, InBase
  <2>2. Try(laserOn, <<Again(n - 1)>>) \in Around(MainBase)
    BY <1>1, <2>1, One, Tries
  <2> QED
    BY <1>3, <2>2, One DEF PluggedIn
<1> QED
  BY <1>2, <1>3

LEMMA OpenIn ==
  ASSUME NEW known
  PROVE  doOpen(known) \in Seq(Deeper(MainBase))
<1>1. open \in Seq(Deep(MainBase))
  BY InBase, Opens, FromBase
<1>2. /\ Do("getID") \in MainBase /\ Do("status") \in MainBase
      /\ Do("calibrate") \in MainBase /\ Set("OPENED") \in MainBase
  BY InBase DEF OpenNames
<1>3. /\ <<Do("getID")>> \in Seq(Deep(MainBase)) /\ <<Do("status")>> \in Seq(Deep(MainBase))
      /\ <<Do("calibrate"), Set("OPENED")>> \in Seq(Deep(MainBase))
  BY <1>2, One, Two, FromBase
<1>4. getStatus \in Seq(Deep(MainBase)) /\ laserOn \in Seq(Deep(MainBase))
  BY InBase, Queries, FromBase
<1>5. PluggedIn(Retries) \in Seq(Deep(MainBase))
  BY PluggedIns, FromBase, HokuyoAssumption
<1> DEFINE l == IF known THEN laserOn ELSE PluggedIn(Retries)
<1>6. l \in Seq(Deep(MainBase))
  BY <1>4, <1>5
<1> HIDE DEF l
<1>7. open \o <<Do("getID")>> \o getStatus \o <<Do("status")>> \o l
        \o <<Do("calibrate"), Set("OPENED")>> \in Seq(Deep(MainBase))
  BY <1>1, <1>3, <1>4, <1>6, Cat
<1>8. Try(open \o <<Do("getID")>> \o getStatus \o <<Do("status")>> \o l
            \o <<Do("calibrate"), Set("OPENED")>>, doClose) \in Deeper(MainBase)
  BY <1>7, CloseIn, Tries DEF Deeper
<1> QED
  BY <1>8, One DEF doOpen, l

LEMMA TestsIn == OpenedTests \in Seq(Deeper(MainBase))
<1>1. /\ getStatus \in Seq(MainBase) /\ laserOn \in Seq(MainBase) /\ pollScan \in Seq(MainBase)
      /\ laserOff \in Seq(MainBase)
  BY InBase, Queries
<1>2. requestScans("MDp") \o <<serviceScanLimited>> \in Seq(MainBase)
  <2>1. requestScans("MDp") \in Seq(MainBase) /\ serviceScanLimited \in MainBase
    BY InBase, Exchanges, CoreIs DEF Words, ScanCommands, serviceScanLimited
  <2> QED
    BY <2>1, One, Cat
<1>3. /\ Try(getStatus, <<>>) \in Around(MainBase) /\ Try(laserOn, <<>>) \in Around(MainBase)
      /\ Try(pollScan, <<>>) \in Around(MainBase) /\ Try(laserOff, <<>>) \in Around(MainBase)
      /\ Try(requestScans("MDp") \o <<serviceScanLimited>>, <<>>) \in Around(MainBase)
  BY <1>1, <1>2, EmptyIn, Tries
<1> DEFINE T == Around(MainBase)
<1>4. ASSUME NEW a \in T, NEW b \in T, NEW c \in T, NEW d \in T, NEW e \in T
      PROVE  <<a, b, c, d, e>> \in Seq(T)
  <2> HIDE DEF T
  <2> QED OBVIOUS
<1>5. OpenedTests \in Seq(T)
  BY <1>3, <1>4, Zenon DEF OpenedTests
<1> QED
  BY <1>5, FromBase

LEMMA Angles ==
  ASSUME NEW c \in Config
  PROVE  CheckAngleRange(c) \in Config /\ NoIntensity(c) \in Config
         /\ CheckAngleRange(NoIntensity(c)) \in Config
<1>1. ASSUME NEW d \in Config PROVE CheckAngleRange(d) \in Config
  <2>1. ASSUME NEW a \in Int, NEW b \in Int
        PROVE  [d EXCEPT !.min_ang = a, !.max_ang = b] \in Config
    BY DEF Config
  <2> DEFINE min == IF d.min_ang < MinAngle THEN MinAngle ELSE d.min_ang
             safe == IF d.intensity /\ IsUTM /\ d.max_ang - min > SafeSpan
                     THEN min + SafeSpan ELSE d.max_ang
             max == IF safe > MaxAngle THEN MaxAngle ELSE safe
             top == IF min > max /\ max < MinAngle THEN MinAngle ELSE max
             low == IF min > top THEN top ELSE min
  <2>2. min \in Int
    BY HokuyoAssumption DEF Config
  <2>3. safe \in Int
    BY <2>2, HokuyoAssumption DEF Config
  <2>4. top \in Int
    BY <2>3, HokuyoAssumption
  <2>5. low \in Int
    BY <2>2, <2>4
  <2>6. CheckAngleRange(d) = [d EXCEPT !.min_ang = low, !.max_ang = top]
    BY DEF CheckAngleRange
  <2> HIDE DEF min, safe, max, top, low
  <2> QED
    BY <2>1, <2>4, <2>5, <2>6
<1>2. NoIntensity(c) \in Config
  BY DEF NoIntensity, Config
<1> QED
  BY <1>1, <1>2

LEMMA ConfigsIn ==
  ASSUME NEW c \in Config
  PROVE  /\ config_update(c) \in Seq(Deeper(MainBase)) /\ postOpenHook(c) \in Seq(Deeper(MainBase))
         /\ state_ # "OPENED" => config_update(c) = <<SetConfig(c)>>
<1> DEFINE a == SetConfig(CheckAngleRange(c))
           b == SetConfig(CheckAngleRange(NoIntensity(c)))
           d == SetConfig(NoIntensity(c))
<1>1. <<a>> \in Seq(MainBase) /\ <<b>> \in Seq(MainBase) /\ <<d>> \in Seq(MainBase)
      /\ <<SetConfig(c)>> \in Seq(MainBase)
  BY Angles, InBase, One
<1> HIDE DEF a, b, d
<1>2. /\ isIntensitySupported(<<a>>, <<b>>) \in Seq(Around(MainBase))
      /\ isIntensitySupported(<<a>>, <<d>>) \in Seq(Around(MainBase))
  BY <1>1, Asks, InBase
<1>3. /\ <<a>> \in Seq(Deeper(MainBase)) /\ <<SetConfig(c)>> \in Seq(Deeper(MainBase))
      /\ isIntensitySupported(<<a>>, <<b>>) \in Seq(Deeper(MainBase))
      /\ isIntensitySupported(<<a>>, <<d>>) \in Seq(Deeper(MainBase))
  BY <1>1, <1>2, FromBase
<1>4. config_update(c) \in {<<a>>, <<SetConfig(c)>>, isIntensitySupported(<<a>>, <<b>>)}
  BY DEF config_update, a, b
<1>5. postOpenHook(c) \in {<<a>>, isIntensitySupported(<<a>>, <<d>>)}
  BY DEF postOpenHook, a, d
<1> QED
  BY <1>3, <1>4, <1>5 DEF config_update

LEMMA Calibrates ==
  calcLatency \o <<Do("calibrated")>> \in Seq(Deeper(MainBase))
<1>1. calcLatency \in Seq(MainBase) /\ Do("calibrated") \in MainBase
  BY InBase, Clocks DEF OpenNames
<1> QED
  BY <1>1, One, Cat, FromBase

(* What driver_base asks for.                                              *)
LEMMA Goes ==
  /\ goOpened \in Seq(WalkItem) /\ goRunning \in Seq(WalkItem) /\ goClosed \in Seq(WalkItem)
  /\ \A s \in {"CLOSED", "OPENED", "RUNNING"} : goTo(s) \in Seq(WalkItem)
  /\ <<If("OPENED", OpenedTests)>> \in Seq(WalkItem) /\ <<Do("exit")>> \in Seq(WalkItem)
  /\ \A c \in Config : <<Update(c)>> \in Seq(WalkItem)
<1>1. /\ If("CLOSED", <<Do("doOpen"), Opened>>) \in WalkItem /\ If("OPENED", <<Do("doStart")>>) \in WalkItem
      /\ If("RUNNING", doStop) \in WalkItem /\ If("OPENED", doClose) \in WalkItem
      /\ If("OPENED", OpenedTests) \in WalkItem /\ Do("exit") \in WalkItem
      /\ \A c \in Config : Update(c) \in WalkItem
  BY Zenon DEF WalkItem
<1>2. goOpened \in Seq(WalkItem)
  BY <1>1, One DEF goOpened, Opened
<1>3. goRunning \in Seq(WalkItem)
  BY <1>1, <1>2, One, Cat DEF goRunning
<1>4. goClosed \in Seq(WalkItem)
  BY <1>1, Two DEF goClosed
<1>5. goOpened \o <<If("RUNNING", doStop)>> \in Seq(WalkItem)
  BY <1>1, <1>2, One, Cat
<1>6. ASSUME NEW s \in {"CLOSED", "OPENED", "RUNNING"} PROVE goTo(s) \in Seq(WalkItem)
  <2>1. s = "CLOSED" => goTo(s) = goClosed
    BY DEF goTo
  <2>2. s = "OPENED" => goTo(s) = goOpened \o <<If("RUNNING", doStop)>>
    BY DEF goTo
  <2>3. s = "RUNNING" => goTo(s) = goRunning
    BY DEF goTo
  <2> QED
    BY <1>3, <1>4, <1>5, <2>1, <2>2, <2>3
<1> QED
  BY <1>1, <1>2, <1>3, <1>4, <1>6, One

-----------------------------------------------------------------------------
(* A step of the main thread.                                              *)
Work ==
  /\ state_ = "RUNNING" \/ (todo[main] # <<>> /\ Head(todo[main]).do = "join")
  /\ Calm(todo[main])

Moves(l) ==
  /\ Goto(main, l) /\ MainList(l) /\ config_' \in Config
  /\ UNCHANGED <<scan_thread_, lost>>
  /\ Work => /\ state_' = "RUNNING" \/ (l # <<>> /\ Head(l).do = "join")
             /\ Calm(l)

LEMMA MainNamed ==
  \A x \in MainItem :
    /\ x.do = "catch" => x \in Deeper(MainBase)
    /\ x.do = "ifPort" => x \in Deeper(MainBase)
    /\ x.do \notin {"while", "return", "useScan"}
    /\ x.do = "try" => x \in Deeper(MainBase) \/ \E c \in Config : x = StartTry(c)
    /\ x.do = "if" => x = Opened \/ x \in WalkItem
    /\ x.do = "set" => x = Set("OPENED") \/ x = Set("CLOSED")
    /\ x.do \in {"doStart", "doStop", "join", "started"} => x \in StartItem
<1> SUFFICES ASSUME NEW x \in MainItem
    PROVE  /\ x.do = "catch" => x \in Deeper(MainBase)
           /\ x.do = "ifPort" => x \in Deeper(MainBase)
           /\ x.do \notin {"while", "return", "useScan"}
           /\ x.do = "try" => x \in Deeper(MainBase) \/ \E c \in Config : x = StartTry(c)
           /\ x.do = "if" => x = Opened \/ x \in WalkItem
           /\ x.do = "set" => x = Set("OPENED") \/ x = Set("CLOSED")
           /\ x.do \in {"doStart", "doStop", "join", "started"} => x \in StartItem
  OBVIOUS
<1>1. CASE x \in Deeper(MainBase)
  <2>1. CASE x \in MainBase
    BY <1>1, <2>1, MainBaseNamed DEF CoreNames, OpenNames
  <2>2. CASE x.do \in {"try", "catch", "ifPort"}
    BY <1>1, <2>2
  <2> QED
    BY <1>1, <2>1, <2>2, MainDeep
<1>2. CASE x \in WalkItem
  BY <1>2, WalkNamed
<1>3. CASE x \in StartItem
  BY <1>3, StartNamed
<1> QED
  BY <1>1, <1>2, <1>3 DEF MainItem

LEMMA MainHead ==
  ASSUME MainList(todo[main]), NEW name, At(main, name)
  PROVE  /\ todo[main] # <<>> /\ Head(todo[main]) \in MainItem
         /\ Head(todo[main]).do = name /\ MainList(Rest(main))
         /\ Head(todo[main]) \in WalkItem \cup StartItem => AllSettled(Rest(main))
         /\ Work => /\ name \in {"if", "exit", "update", "catch", "config", "doStop", "join", "set"}
                    /\ name # "join" => state_ = "RUNNING"
                    /\ Calm(Rest(main))
                    /\ name = "set" => Rest(main) # <<>> /\ Head(Rest(main)).do = "join"
                    /\ name = "if" => Head(todo[main]) \in WalkItem
<1>1. todo[main] # <<>> /\ Head(todo[main]).do = name
  BY DEF At
<1>2. /\ MainList(Rest(main)) /\ Head(todo[main]) \in MainItem
      /\ Head(todo[main]) \in WalkItem \cup StartItem => AllSettled(Rest(main))
      /\ Work => /\ Calm(Rest(main))
                 /\ \/ Settled(Head(todo[main])) \/ Head(todo[main]).do \in {"config", "doStop", "join"}
                    \/ Head(todo[main]).do = "set" /\ Rest(main) # <<>> /\ Head(Rest(main)).do = "join"
  BY <1>1, MainTail DEF Rest, Work
<1>3. Settled(Head(todo[main])) =>
        \/ Head(todo[main]) \in WalkItem /\ name \in {"if", "exit", "update"}
        \/ name = "catch"
  BY <1>1, WalkNamed DEF Settled
<1> QED
  BY <1>1, <1>2, <1>3 DEF Work

LEMMA EmptyList == MainList(<<>>) /\ Calm(<<>>)
BY EmptySeq DEF MainList, Calm

LEMMA MainBeyond ==
  ASSUME MainList(todo[main])
  PROVE  MainList(Beyond(todo[main]))
<1>1. CatchAt(todo[main]) \in 0..Len(todo[main])
  <2>1. todo[main] \in Seq(MainItem) /\ Len(todo[main]) \in Nat
    BY LenProperties DEF MainList
  <2> QED
    BY <2>1, CatchesAt
<1> QED
  BY <1>1, MainAfter DEF Beyond

LEMMA MainThrows ==
  ASSUME MainList(todo[main]), NEW kind \in {"other", "corrupted"}, Throw(main, kind)
  PROVE  \E l : Goto(main, l) /\ MainList(l)
<1> DEFINE k == CatchAt(todo[main])
<1>1. CASE k = 0
  BY <1>1, EmptyList DEF Throw
<1>2. CASE k # 0
  <2> DEFINE x == todo[main][k]
  <2>1. k \in 1..Len(todo[main]) /\ x.do = "catch"
    BY <1>2, CatchesAt DEF MainList
  <2>2. x \in Deeper(MainBase)
    BY <2>1, ElementOfSeq, MainNamed DEF MainList
  <2>3. x.other \in Seq(Deeper(MainBase)) /\ x.corrupted \in Seq(Deeper(MainBase))
    BY <2>1, <2>2, MainDeep DEF Nested
  <2>4. x[kind] \in Seq(Deeper(MainBase))
    BY <2>3
  <2>5. Goto(main, x[kind] \o Beyond(todo[main]))
    BY <1>2 DEF Throw
  <2> QED
    BY <2>4, <2>5, MainPut, MainBeyond
<1> QED
  BY <1>1, <1>2

LEMMA MainTries ==
  ASSUME MainList(todo[main]), At(main, "try")
  PROVE  MainList(Head(todo[main]).body \o <<Catch(Head(todo[main]))>> \o Rest(main))
<1> DEFINE x == Head(todo[main])
           r == Rest(main)
<1>1. x \in MainItem /\ x.do = "try" /\ MainList(r)
      /\ (x \in WalkItem \cup StartItem => AllSettled(r))
  BY MainHead
<1>2. x \in Deeper(MainBase) \/ \E c \in Config : x = StartTry(c)
  BY <1>1, MainNamed
<1> HIDE DEF x, r
<1>3. CASE x \in Deeper(MainBase)
  <2>1. x.body \in Seq(Deeper(MainBase)) /\ Catch(x) \in Deeper(MainBase)
    BY <1>1, <1>3, MainDeep DEF Nested
  <2>2. x.body \o <<Catch(x)>> \in Seq(Deeper(MainBase))
    BY <2>1, One, Cat
  <2>3. MainList((x.body \o <<Catch(x)>>) \o r)
    BY <1>1, <2>2, MainPut
  <2> QED
    BY <2>3 DEF x, r
<1>4. ASSUME NEW c \in Config, x = StartTry(c)
      PROVE  MainList((x.body \o <<Catch(x)>>) \o r)
  <2> DEFINE b == laserOn \o requestScans(IF c.intensity THEN "ME" ELSE "MD")
             z == Do("started")
             y == Catch(x)
  <2>1. x.body = b \o <<z>> /\ y = [do |-> "catch", other |-> doClose, corrupted |-> doClose]
    BY <1>4, StartTryIs
  <2>2. x \in StartItem /\ z \in StartItem
    BY <1>4, Zenon DEF StartItem
  <2>3. b \in Seq(Deeper(MainBase))
    BY StartsScan, MainDeep, Wider
  <2>4. y \in Deeper(MainBase) /\ y.do = "catch"
    BY <2>1, CloseIn, Tries, CatchIs DEF Deeper
  <2>5. y \in MainItem /\ z \in MainItem /\ b \in Seq(MainItem) /\ r \in Seq(MainItem)
    BY <1>1, <2>2, <2>3, <2>4, Wider DEF MainItem, MainList
  <2> HIDE DEF b, y, z
  <2>6. MainList(<<y>> \o r) /\ AllSettled(<<y>> \o r)
    <3>1. MainList(<<y>> \o r)
      BY <1>1, <2>4, <2>5, Apart, MainOne
    <3>2. AllSettled(r)
      BY <1>1, <2>2
    <3>3. <<y>> \in Seq(MainItem) /\ Len(<<y>>) = 1 /\ <<y>>[1] = y /\ Len(r) \in Nat
      BY <2>5, LenProperties
    <3>4. /\ Len(<<y>> \o r) = 1 + Len(r)
          /\ \A i \in 1 .. 1 + Len(r) : (<<y>> \o r)[i] = IF i <= 1 THEN <<y>>[i] ELSE r[i - 1]
      BY <2>5, <3>3, ConcatProperties
    <3>5. ASSUME NEW i \in 1..Len(<<y>> \o r) PROVE Settled((<<y>> \o r)[i])
      <4>1. CASE i = 1
        BY <2>4, <3>3, <3>4, <4>1 DEF Settled
      <4>2. CASE i # 1
        <5>1. i - 1 \in 1..Len(r) /\ (<<y>> \o r)[i] = r[i - 1]
          BY <3>3, <3>4, <4>2
        <5> QED
          BY <3>2, <5>1 DEF AllSettled
      <4> QED
        BY <4>1, <4>2
    <3> QED
      BY <3>1, <3>5 DEF AllSettled
  <2>7. MainList(<<z>> \o (<<y>> \o r))
    BY <2>5, <2>6, MainOne
  <2>8. MainList(b \o (<<z>> \o (<<y>> \o r)))
    BY <2>3, <2>7, MainPut
  <2>9. (b \o <<z>>) \o <<y>> \o r = b \o (<<z>> \o (<<y>> \o r))
    <3>1. /\ <<z>> \in Seq(MainItem) /\ <<y>> \in Seq(MainItem)
          /\ b \o <<z>> \in Seq(MainItem) /\ <<y>> \o r \in Seq(MainItem)
      BY <2>5, One, Cat
    <3>2. ((b \o <<z>>) \o <<y>>) \o r = (b \o <<z>>) \o (<<y>> \o r)
      BY <2>5, <3>1, ConcatAssociative
    <3>3. (b \o <<z>>) \o (<<y>> \o r) = b \o (<<z>> \o (<<y>> \o r))
      BY <2>5, <3>1, ConcatAssociative
    <3> QED
      BY <3>2, <3>3
  <2> QED
    BY <2>1, <2>8, <2>9 DEF y
<1> QED
  BY <1>2, <1>3, <1>4 DEF x, r

(* driver_base acts on the state it finds; the scan thread can only have   *)
(* left RUNNING since.                                                     *)
LEMMA MainIfs ==
  ASSUME MainList(todo[main]), At(main, "if"),
         NEW l, l = (IF state_ = Head(todo[main]).state THEN Head(todo[main]).then ELSE <<>>)
                      \o Rest(main)
  PROVE  MainList(l) /\ (Work => Calm(l))
<1> DEFINE x == Head(todo[main])
           r == Rest(main)
<1>1. /\ x \in MainItem /\ x.do = "if" /\ MainList(r) /\ r \in Seq(MainItem)
      /\ x \in WalkItem => AllSettled(r)
      /\ Work => Calm(r) /\ state_ = "RUNNING" /\ x \in WalkItem
  BY MainHead DEF MainList
<1>2. <<>> \o r = r
  BY <1>1, ConcatEmptySeq
<1>3. /\ \A s, m : If(s, m).state = s /\ If(s, m).then = m
      /\ Opened = If("OPENED", <<Do("opened")>>)
  BY DEF If, Opened
<1> HIDE DEF x, r
<1>4. CASE state_ # x.state
  BY <1>1, <1>2, <1>4 DEF x, r
<1>5. CASE state_ = x.state
  <2>1. l = x.then \o r
    BY <1>5 DEF x, r
  <2>2. CASE x = If("RUNNING", doStop) /\ x \in WalkItem
    <3>1. Do("doStop") \in StartItem /\ Do("doStop") \in MainItem /\ Do("doStop").do = "doStop"
      BY DEF StartItem, MainItem, Do
    <3>2. x.then = <<Do("doStop")>>
      BY <1>3, <2>2 DEF doStop
    <3> QED
      BY <1>1, <2>1, <2>2, <3>1, <3>2, MainOne, CalmOne
  <2>3. ASSUME x.state # "RUNNING" \/ x \notin WalkItem PROVE ~Work
    BY <1>1, <1>5, <2>3
  <2>4. CASE x = If("OPENED", <<Do("doStart")>>) /\ x \in WalkItem
    <3>1. Do("doStart") \in StartItem /\ Do("doStart") \in MainItem
      BY DEF StartItem, MainItem
    <3>2. x.then = <<Do("doStart")>> /\ x.state = "OPENED"
      BY <1>3, <2>4
    <3> QED
      BY <1>1, <2>1, <2>3, <2>4, <3>1, <3>2, MainOne
  <2>5. ASSUME NEW m \in Seq(Deeper(MainBase)), NEW s \in {"CLOSED", "OPENED"}, x = If(s, m)
        PROVE  MainList(l) /\ ~Work
    <3>1. x.then = m /\ x.state = s
      BY <1>3, <2>5, Zenon
    <3>2. MainList(m \o r)
      BY <1>1, <2>5, MainPut
    <3>3. x.state # "RUNNING"
      BY <2>5, <3>1
    <3> QED
      BY <2>1, <2>3, <3>1, <3>2, <3>3
  <2>6. /\ <<Do("opened")>> \in Seq(Deeper(MainBase))
        /\ <<Do("doOpen"), Opened>> \in Seq(Deeper(MainBase))
    BY InBase, One, Two, FromBase DEF OpenNames
  <2>7. \/ x = Opened
        \/ /\ x \in WalkItem
           /\ x \in {If("CLOSED", <<Do("doOpen"), Opened>>), If("OPENED", <<Do("doStart")>>),
                     If("RUNNING", doStop), If("OPENED", doClose), If("OPENED", OpenedTests)}
    BY <1>1, MainNamed, WalkNamed
  <2> QED
    BY <1>3, <2>2, <2>4, <2>5, <2>6, <2>7, CloseIn, TestsIn
<1> QED
  BY <1>4, <1>5

(* The tries left, and the settings that are set.                          *)
LEMMA Carried ==
  \A x \in MainItem :
    /\ x.do = "again" => x.retries \in Nat
    /\ x.do \in {"config", "update"} => x.config \in Config
    /\ x.do = "config" => x \in Deeper(MainBase)
    /\ x.do = "update" => x \in WalkItem
<1> SUFFICES ASSUME NEW x \in MainItem, x.do \in {"again", "config", "update"}
    PROVE  /\ x.do = "again" => x.retries \in Nat
           /\ x.do \in {"config", "update"} => x.config \in Config
           /\ x.do = "config" => x \in Deeper(MainBase)
           /\ x.do = "update" => x \in WalkItem
  OBVIOUS
<1>1. /\ \A n : Do(n).do = n /\ Set(n).do = "set"
      /\ \A n : Again(n).do = "again" /\ Again(n).retries = n
      /\ \A c : SetConfig(c).do = "config" /\ SetConfig(c).config = c
      /\ \A c : Update(c).do = "update" /\ Update(c).config = c
      /\ Opened.do = "if"
  BY DEF Do, Set, Again, SetConfig, Update, Opened, If
<1>2. CASE x \in Deeper(MainBase)
  <2>1. x \in MainBase
    BY <1>2, MainDeep
  <2>2. \/ x \in Core \/ \E n \in OpenNames : x = Do(n)
        \/ x = Set("OPENED") \/ x = Set("CLOSED") \/ x = Opened
        \/ \E n \in Nat : x = Again(n)
        \/ \E c \in Config : x = SetConfig(c)
    BY <2>1, Zenon DEF MainBase
  <2>3. x.do \notin CoreNames \cup OpenNames
    BY DEF CoreNames, OpenNames
  <2>4. x \notin Core /\ ~\E n \in OpenNames : x = Do(n)
    <3>1. x \notin Core
      BY <2>3, CoreNamed
    <3>2. ASSUME NEW n \in OpenNames, x = Do(n) PROVE FALSE
      BY <1>1, <2>3, <3>2
    <3> QED
      BY <3>1, <3>2
  <2>5. \/ \E n \in Nat : x = Again(n)
        \/ \E c \in Config : x = SetConfig(c)
    BY <1>1, <2>2, <2>4
  <2> QED
    BY <1>1, <1>2, <2>5
<1>3. CASE x \in WalkItem
  BY <1>1, <1>3, WalkNamed
<1>4. CASE x \in StartItem
  BY <1>4, StartNamed
<1> QED
  BY <1>2, <1>3, <1>4 DEF MainItem

LEMMA UpdateStep ==
  ASSUME todo = [todo EXCEPT ![main] = todo[main]], MainList(todo[main]), config_ \in Config,
         At(main, "update"), UNCHANGED driverVars,
         Goto(main, config_update(Head(todo[main]).config) \o Rest(main))
  PROVE  \E l : Moves(l)
<1> DEFINE c == Head(todo[main]).config
           r == Rest(main)
           l == config_update(c) \o r
<1>1. c \in Config /\ MainList(r)
  BY MainHead, Carried
<1>2. MainList(l)
  BY <1>1, ConfigsIn, MainPut
<1>3. ASSUME Work PROVE state_ = "RUNNING" /\ Calm(l)
  <2>1. state_ = "RUNNING" /\ Calm(r)
    BY <1>3, MainHead
  <2>2. config_update(c) = <<SetConfig(c)>>
    BY <1>1, <2>1, ConfigsIn
  <2>3. SetConfig(c) \in MainItem /\ SetConfig(c).do = "config"
    BY <1>1, InBase, MainDeep DEF MainItem, SetConfig
  <2> HIDE DEF c, r
  <2> QED
    BY <1>1, <2>1, <2>2, <2>3, CalmOne
<1>4. Goto(main, l)
  OBVIOUS
<1> HIDE DEF c, r, l
<1> QED
  BY <1>2, <1>3, <1>4 DEF Moves, driverVars

LEMMA MainSteps ==
  ASSUME todo = [todo EXCEPT ![main] = todo[main]], MainList(todo[main]),
         config_ \in Config, Step(main)
  PROVE  \E l : Moves(l)
<1>1. ASSUME NEW name, At(main, name), Continue(main),
             UNCHANGED <<scan_thread_, lost>>, config_' \in Config,
             name # "join", state_' = state_ \/ name = "set"
      PROVE  \E l : Moves(l)
  BY <1>1, MainHead DEF Moves, Continue
<1>2. ASSUME NEW name, At(main, name),
             name \notin {"if", "exit", "update", "catch", "config", "doStop", "join", "set"},
             NEW l, Goto(main, l), MainList(l), UNCHANGED <<scan_thread_, lost, config_>>
      PROVE  \E m : Moves(m)
  BY <1>2, MainHead DEF Moves
<1>3. ASSUME NEW name, At(main, name),
             name \notin {"if", "exit", "update", "catch", "config", "doStop", "join", "set"},
             NEW kind \in {"other", "corrupted"}, Throw(main, kind), UNCHANGED driverVars
      PROVE  \E l : Moves(l)
  <2>1. PICK l : Goto(main, l) /\ MainList(l)
    BY <1>3, MainThrows
  <2> QED
    BY <1>2, <1>3, <2>1 DEF driverVars
<1>4. CASE laserFlush(main)
  BY <1>1, <1>3, <1>4 DEF laserFlush, Except, driverVars
<1>5. CASE laserWrite(main)
  BY <1>1, <1>3, <1>5 DEF laserWrite, Except, driverVars
<1>6. CASE laserReadline(main)
  <2>1. \/ UNCHANGED todo
        \/ Throw(main, "corrupted") \/ Throw(main, "other")
        \/ Continue(main)
    BY <1>6 DEF laserReadline, Except
  <2>2. UNCHANGED todo => Goto(main, todo[main])
    BY DEF Goto
  <2>3. At(main, "read") /\ UNCHANGED driverVars
    BY <1>6 DEF laserReadline
  <2> QED
    BY <1>1, <1>2, <1>3, <2>1, <2>2, <2>3 DEF driverVars
<1>7. CASE TooMuchSkipped(main)
  BY <1>3, <1>7 DEF TooMuchSkipped, Except
<1>8. CASE ReadFails(main)
  BY <1>3, <1>8 DEF ReadFails, Except
<1>9. CASE openPort(main)
  BY <1>1, <1>3, <1>9 DEF openPort, Except, driverVars
<1>10. CASE closePort(main)
  BY <1>1, <1>10 DEF closePort, driverVars
<1>11. CASE ifPort(main)
  <2>1. /\ At(main, "ifPort") /\ UNCHANGED driverVars
        /\ Goto(main, (IF fd = "closed" THEN <<>> ELSE Head(todo[main]).then) \o Rest(main))
    BY <1>11 DEF ifPort
  <2>2. Head(todo[main]) \in Deeper(MainBase) /\ Head(todo[main]).do = "ifPort"
    BY <2>1, MainHead, MainNamed
  <2>3. Head(todo[main]).then \in Seq(Deeper(MainBase))
    BY <2>2, MainDeep DEF Nested
  <2>4. (IF fd = "closed" THEN <<>> ELSE Head(todo[main]).then) \in Seq(Deeper(MainBase))
    BY <2>3, EmptyIn
  <2>5. MainList((IF fd = "closed" THEN <<>> ELSE Head(todo[main]).then) \o Rest(main))
    BY <2>1, <2>4, MainHead, MainPut
  <2> QED
    BY <1>2, <2>1, <2>5 DEF driverVars
<1>12. CASE ControlStep(main)
  <2>0. Control(main) /\ UNCHANGED driverVars
    BY <1>12 DEF ControlStep
  <2>1. ASSUME At(main, "try"),
               Goto(main, Head(todo[main]).body \o <<Catch(Head(todo[main]))>> \o Rest(main))
        PROVE  \E m : Moves(m)
    BY <1>2, <2>0, <2>1, MainTries DEF driverVars
  <2>2. ASSUME At(main, "catch"), Continue(main) PROVE \E m : Moves(m)
    BY <1>1, <2>0, <2>2 DEF driverVars
  <2>3. ASSUME At(main, "throw"), Except(main) PROVE \E m : Moves(m)
    BY <1>3, <2>0, <2>3 DEF Except
  <2>4. ~At(main, "return") /\ ~At(main, "while")
    BY MainHead, MainNamed
  <2>5. ASSUME At(main, "if"),
               Goto(main, (IF state_ = Head(todo[main]).state THEN Head(todo[main]).then ELSE <<>>)
                            \o Rest(main))
        PROVE  \E m : Moves(m)
    <3> DEFINE l == (IF state_ = Head(todo[main]).state THEN Head(todo[main]).then ELSE <<>>)
                      \o Rest(main)
    <3>1. MainList(l) /\ (Work => Calm(l))
      BY <2>5, MainIfs
    <3>2. Work => state_ = "RUNNING"
      BY <2>5, MainHead
    <3> HIDE DEF l
    <3>3. Goto(main, l)
      BY <2>5 DEF l
    <3> QED
      BY <2>0, <3>1, <3>2, <3>3 DEF Moves, driverVars
  <2>6. ASSUME At(main, "opened"), Goto(main, postOpenHook(config_) \o Rest(main))
        PROVE  \E m : Moves(m)
    <3>1. MainList(postOpenHook(config_) \o Rest(main))
      BY <2>6, ConfigsIn, MainPut, MainHead
    <3> QED
      BY <1>2, <2>0, <2>6, <3>1 DEF driverVars
  <2>7. ASSUME At(main, "update"),
               Goto(main, config_update(Head(todo[main]).config) \o Rest(main))
        PROVE  \E m : Moves(m)
    BY <2>0, <2>7, UpdateStep
  <2>8. ASSUME At(main, "again"), Goto(main, PluggedIn(Head(todo[main]).retries) \o Rest(main))
        PROVE  \E m : Moves(m)
    <3>1. Head(todo[main]).retries \in Nat
      BY <2>8, MainHead, Carried
    <3>2. PluggedIn(Head(todo[main]).retries) \in Seq(Deeper(MainBase))
      BY <3>1, PluggedIns, FromBase
    <3>3. MainList(PluggedIn(Head(todo[main]).retries) \o Rest(main))
      BY <2>8, <3>2, MainPut, MainHead
    <3> QED
      BY <1>2, <2>0, <2>8, <3>3 DEF driverVars
  <2>9. ASSUME At(main, "doStart"), Goto(main, doStart(config_) \o Rest(main))
        PROVE  \E m : Moves(m)
    <3>1. StartTry(config_) \in StartItem /\ StartTry(config_) \in MainItem
      BY Zenon DEF StartItem, MainItem
    <3>2. MainList(Rest(main)) /\ AllSettled(Rest(main))
      BY <2>9, MainHead, MainNamed
    <3>3. MainList(<<StartTry(config_)>> \o Rest(main))
      BY <3>1, <3>2, MainOne
    <3>4. doStart(config_) = <<StartTry(config_)>>
      BY StartTryIs
    <3> QED
      BY <1>2, <2>0, <2>9, <3>3, <3>4 DEF driverVars
  <2> QED
    BY <2>0, <2>1, <2>2, <2>3, <2>4, <2>5, <2>6, <2>7, <2>8, <2>9 DEF Control
<1>13. CASE Checked(main)
  <2>1. ASSUME At(main, "status"), Goto(main, doClose \o Beyond(todo[main]))
        PROVE  \E m : Moves(m)
    <3>1. MainList(doClose \o Beyond(todo[main]))
      BY CloseIn, MainPut, MainBeyond
    <3> QED
      BY <1>2, <1>13, <2>1, <3>1 DEF Checked, driverVars
  <2> QED
    BY <1>1, <1>3, <1>13, <2>1 DEF Checked, Except, driverVars
<1>14. CASE BeginOpen(main)
  <2>1. MainList(doOpen(device_id_) \o Rest(main))
    BY <1>14, OpenIn, MainPut, MainHead DEF BeginOpen
  <2> QED
    BY <1>2, <1>14, <2>1 DEF BeginOpen
<1>15. CASE getID(main)
  BY <1>1, <1>15 DEF getID
<1>16. CASE Calibrate(main)
  <2>1. ASSUME At(main, "calibrate"),
               Goto(main, calcLatency \o <<Do("calibrated")>> \o Rest(main))
        PROVE  \E m : Moves(m)
    <3>1. MainList((calcLatency \o <<Do("calibrated")>>) \o Rest(main))
      BY <2>1, Calibrates, MainPut, MainHead
    <3> QED
      BY <1>2, <1>16, <2>1, <3>1 DEF Calibrate
  <2>2. ASSUME At(main, "calibrate"), Goto(main, Rest(main))
        PROVE  \E m : Moves(m)
    BY <1>2, <1>16, <2>2, MainHead DEF Calibrate
  <2>3. ASSUME At(main, "calibrated"), Continue(main) PROVE \E m : Moves(m)
    BY <1>1, <1>16, <2>3 DEF Calibrate
  <2> QED
    BY <1>16, <2>1, <2>2, <2>3 DEF Calibrate
<1>17. CASE SetState(main)
  BY <1>1, <1>17 DEF SetState
<1>18. CASE SetTheConfig(main)
  <2>1. Head(todo[main]).config \in Config
    BY <1>18, MainHead, Carried DEF SetTheConfig
  <2> QED
    BY <1>1, <1>18, <2>1 DEF SetTheConfig
<1>19. ~useScan(main)
  BY MainHead, MainNamed DEF useScan
<1> QED
  BY <1>4, <1>5, <1>6, <1>7, <1>8, <1>9, <1>10, <1>11, <1>12, <1>13, <1>14, <1>15, <1>16,
     <1>17, <1>18, <1>19 DEF Step

-----------------------------------------------------------------------------
(* Whose turn it is: while a scan thread is at work the driver runs, or    *)
(* waits for it, and has nothing to do that needs the port.                *)
Turn == lost = 0 => \A s \in Threads : Busy(todo[s]) => s = scan_thread_ /\ Work

Lists ==
  /\ todo \in [Thread -> Seq(MainItem \cup ScanItem)]
  /\ MainList(todo[main]) /\ \A s \in Threads : ScanList(todo[s])

States == {"CLOSED", "OPENED", "RUNNING"}

TurnInv ==
  /\ Lists /\ Turn
  /\ lost \in Nat /\ config_ \in Config /\ state_ \in States

LEMMA Idles == ~Busy(<<>>)
BY DEF Busy

LEMMA TurnInit == Init => TurnInv
<1> SUFFICES ASSUME Init PROVE TurnInv
  OBVIOUS
<1>1. goRunning \in Seq(WalkItem) /\ MainList(goRunning)
  BY Goes, Walks
<1>2. todo = [t \in Thread |-> IF t = main THEN goRunning ELSE <<>>]
  BY DEF Init
<1>3. \A s \in Threads : s \in Thread /\ s # main
  BY HokuyoAssumption DEF Thread
<1>4. todo[main] = goRunning /\ \A s \in Threads : todo[s] = <<>>
  BY <1>2, <1>3 DEF Thread
<1>5. goRunning \in Seq(MainItem \cup ScanItem) /\ <<>> \in Seq(MainItem \cup ScanItem)
  BY <1>1, EmptyIn, Wider DEF MainItem
<1>6. todo \in [Thread -> Seq(MainItem \cup ScanItem)]
  BY <1>2, <1>5
<1>7. Lists
  BY <1>1, <1>4, <1>6, ScanLists DEF Lists
<1>8. Turn
  BY <1>4, Idles DEF Turn
<1>9. lost \in Nat /\ config_ \in Config /\ state_ \in States
  BY HokuyoAssumption DEF Init, Config, States
<1> QED
  BY <1>7, <1>8, <1>9 DEF TurnInv

(* The main thread goes on with another list, and only it.                 *)
LEMMA MainGoes ==
  ASSUME TurnInv, NEW l, Goto(main, l), MainList(l)
  PROVE  Lists' /\ todo'[main] = l /\ \A s \in Threads : todo'[s] = todo[s]
<1>1. /\ todo' = [todo EXCEPT ![main] = l] /\ todo \in [Thread -> Seq(MainItem \cup ScanItem)]
      /\ \A s \in Threads : s \in Thread /\ s # main /\ ScanList(todo[s])
      /\ main \in Thread
  BY HokuyoAssumption DEF Goto, TurnInv, Lists, Thread
<1>2. l \in Seq(MainItem \cup ScanItem)
  BY Wider DEF MainList
<1>3. todo'[main] = l /\ \A s \in Threads : todo'[s] = todo[s]
  BY <1>1
<1>4. todo' \in [Thread -> Seq(MainItem \cup ScanItem)]
  BY <1>1, <1>2
<1>5. \A s \in Threads : ScanList(todo'[s])
  BY <1>1, <1>3, Zenon
<1> QED
  BY <1>3, <1>4, <1>5 DEF Lists

LEMMA TurnMain ==
  ASSUME TurnInv, NEW l, Moves(l), state_' \in States
  PROVE  TurnInv'
<1>1. /\ Lists' /\ todo'[main] = l /\ \A s \in Threads : todo'[s] = todo[s]
  BY MainGoes DEF Moves
<1>2. Work => Work'
  BY <1>1 DEF Moves, Work
<1>3. Turn'
  BY <1>1, <1>2 DEF Turn, Moves, TurnInv
<1> QED
  BY <1>1, <1>3 DEF TurnInv, Moves

(* The state is one of the three. *)
LEMMA StateStays ==
  ASSUME NEW t, Step(t), state_ \in States,
         At(t, "set") => Head(todo[t]).state \in States
  PROVE  state_' \in States
BY DEF Step, laserFlush, laserWrite, laserReadline, TooMuchSkipped, ReadFails, openPort,
       closePort, ifPort, ControlStep, Checked, BeginOpen, getID, Calibrate, SetState,
       SetTheConfig, useScan, driverVars

LEMMA TurnMainStep ==
  ASSUME TurnInv, Step(main)
  PROVE  TurnInv'
<1>1. /\ todo = [todo EXCEPT ![main] = todo[main]] /\ MainList(todo[main])
      /\ config_ \in Config /\ state_ \in States
  BY DEF TurnInv, Lists
<1>2. PICK l : Moves(l)
  BY <1>1, MainSteps
<1>3. ASSUME At(main, "set") PROVE Head(todo[main]).state \in States
  <2>1. Head(todo[main]) = Set("OPENED") \/ Head(todo[main]) = Set("CLOSED")
    BY <1>1, <1>3, MainHead, MainNamed
  <2> QED
    BY <2>1 DEF Set, States
<1>4. state_' \in States
  BY <1>1, <1>3, StateStays
<1> QED
  BY <1>2, <1>4, TurnMain

LEMMA TurnScanStep ==
  ASSUME TurnInv, NEW s \in Threads, Step(s)
  PROVE  TurnInv'
<1>1. /\ todo = [todo EXCEPT ![s] = todo[s]] /\ todo \in [Thread -> Seq(MainItem \cup ScanItem)]
      /\ ScanList(todo[s]) /\ state_ \in States
      /\ s \in Thread /\ s # main
  BY HokuyoAssumption DEF TurnInv, Lists, Thread
<1>2. PICK l : Advances(s, l)
  BY <1>1, ScanSteps
<1>3. todo' = [todo EXCEPT ![s] = l] /\ ScanList(l)
  BY <1>2 DEF Advances, Goto
<1>4. l \in Seq(MainItem \cup ScanItem)
  BY <1>3, Wider DEF ScanList
<1>5. /\ todo' \in [Thread -> Seq(MainItem \cup ScanItem)]
      /\ todo'[s] = l /\ \A t \in Thread : t # s => todo'[t] = todo[t]
  BY <1>1, <1>3, <1>4
<1>6. todo'[main] = todo[main]
  BY <1>1, <1>5 DEF Thread
<1>7. ASSUME NEW t \in Threads PROVE ScanList(todo'[t])
  <2>1. t \in Thread
    BY DEF Thread
  <2>2. CASE t = s
    BY <1>3, <1>5, <2>2
  <2>3. CASE t # s
    BY <1>5, <2>1, <2>3 DEF TurnInv, Lists
  <2> QED
    BY <2>2, <2>3
<1>8. Lists'
  BY <1>5, <1>6, <1>7 DEF TurnInv, Lists
<1>9. ASSUME lost' = 0, NEW t \in Threads, Busy(todo'[t])
      PROVE  t = scan_thread_' /\ Work'
  <2>1. lost = 0 /\ scan_thread_' = scan_thread_ /\ t \in Thread
    BY <1>2, <1>9 DEF Advances, Thread
  <2>2. Busy(todo[t])
    BY <1>2, <1>5, <1>9, <2>1 DEF Advances
  <2>3. t = scan_thread_ /\ Work
    BY <2>1, <2>2 DEF TurnInv, Turn
  <2>4. state_' = state_
    <3> SUFFICES ASSUME state_' # state_ PROVE FALSE
      OBVIOUS
    <3>1. Busy(todo[s]) /\ ~Busy(l)
      BY <1>2 DEF Advances
    <3>2. s = scan_thread_
      BY <2>1, <3>1 DEF TurnInv, Turn
    <3> QED
      BY <1>5, <1>9, <2>3, <3>1, <3>2
  <2> QED
    BY <1>6, <2>1, <2>3, <2>4 DEF Work
<1>10. ASSUME At(s, "set") PROVE Head(todo[s]).state \in States
  <2>1. Head(todo[s]) \in ScanItem /\ Head(todo[s]).do = "set"
    BY <1>1, <1>10, ScanHead
  <2>2. Head(todo[s]) = Set("CLOSED") \/ Head(todo[s]) = Set("OPENED")
    BY <2>1, ScanDeep, ScanTryIs DEF ScanItem, CoreNames, Do
  <2> QED
    BY <2>2 DEF Set, States
<1>11. state_' \in States
  BY <1>1, <1>10, StateStays
<1>12. lost' \in Nat /\ config_' \in Config
  BY <1>2 DEF Advances, TurnInv
<1> QED
  BY <1>8, <1>9, <1>11, <1>12 DEF TurnInv, Turn

LEMMA TurnStarted == ASSUME TurnInv, Started PROVE TurnInv'
<1>1. /\ At(main, "started") /\ lost' = lost /\ config_' = config_
      /\ MainList(todo[main]) /\ todo \in [Thread -> Seq(MainItem \cup ScanItem)]
      /\ \A s \in Threads : s \in Thread /\ s # main /\ ScanList(todo[s])
      /\ main \in Thread
  BY HokuyoAssumption DEF Started, TurnInv, Lists, Thread
<1>2. MainList(Rest(main)) /\ Calm(Rest(main)) /\ ~Work
  <2>1. Head(todo[main]) \in StartItem
    BY <1>1, MainHead, MainNamed
  <2> QED
    BY <1>1, <2>1, MainHead, SettledCalm
<1>3. lost = 0 => \A s \in Threads : ~Busy(todo[s])
  BY <1>2 DEF TurnInv, Turn
<1>4. CASE Continue(main) /\ UNCHANGED <<state_, scan_thread_>>
  <2>1. Lists' /\ \A s \in Threads : todo'[s] = todo[s]
    BY <1>2, <1>4, MainGoes DEF Continue
  <2>2. Turn'
    BY <1>1, <1>3, <2>1 DEF Turn
  <2> QED
    BY <1>1, <1>4, <2>1, <2>2 DEF TurnInv
<1>5. ASSUME NEW s \in Threads, state_' = "RUNNING", scan_thread_' = s,
             todo' = [todo EXCEPT ![main] = Rest(main), ![s] = <<Do("while")>>]
      PROVE  TurnInv'
  <2>1. ScanList(<<Do("while")>>)
    BY ScanLists
  <2>2. /\ <<Do("while")>> \in Seq(MainItem \cup ScanItem)
        /\ Rest(main) \in Seq(MainItem \cup ScanItem)
    BY <1>2, <2>1, Wider DEF MainList, ScanList
  <2> DEFINE l == <<Do("while")>>
             r == Rest(main)
  <2> HIDE DEF l, r
  <2>3. /\ todo' = [todo EXCEPT ![main] = r, ![s] = l]
        /\ l \in Seq(MainItem \cup ScanItem) /\ r \in Seq(MainItem \cup ScanItem)
    BY <1>5, <2>2 DEF l, r
  <2>4. /\ todo' \in [Thread -> Seq(MainItem \cup ScanItem)]
        /\ todo'[main] = r /\ todo'[s] = l
        /\ \A t \in Threads : t # s => todo'[t] = todo[t]
    BY <1>1, <2>3
  <2>5. Lists'
    BY <1>1, <1>2, <2>1, <2>4 DEF Lists, l, r
  <2>6. Work'
    BY <1>2, <1>5, <2>4 DEF Work, r
  <2>7. Turn'
    BY <1>1, <1>3, <1>5, <2>4, <2>6 DEF Turn
  <2> QED
    BY <1>1, <1>5, <2>5, <2>7 DEF TurnInv, States
<1> QED
  BY <1>4, <1>5 DEF Started

LEMMA TurnStopping == ASSUME TurnInv, Stopping PROVE TurnInv'
<1> DEFINE r == Rest(main)
           l == (IF state_ = "RUNNING" THEN <<Set("OPENED"), Do("join")>> ELSE <<>>) \o r
<1>1. At(main, "doStop") /\ Goto(main, l) /\ UNCHANGED driverVars
      /\ MainList(todo[main]) /\ config_ \in Config /\ state_ \in States
  BY DEF Stopping, TurnInv, Lists
<1>2. MainList(r) /\ AllSettled(r) /\ r \in Seq(MainItem)
  <2>1. Head(todo[main]) \in StartItem
    BY <1>1, MainHead, MainNamed
  <2> QED
    BY <1>1, <2>1, MainHead DEF MainList
<1>3. Work => state_ = "RUNNING"
  BY <1>1, MainHead
<1> DEFINE a == Set("OPENED")
           b == Do("join")
<1>4. /\ a \in MainItem /\ a \in Deeper(MainBase) /\ a.do = "set"
      /\ b \in StartItem /\ b \in MainItem /\ b.do = "join"
  BY InBase, MainDeep DEF MainItem, StartItem, Set, Do
<1>5. <<a, b>> \o r = <<a>> \o (<<b>> \o r)
  <2> HIDE DEF a, b, r
  <2> QED
    BY <1>2, <1>4, TwoCat
<1>6. <<>> \o r = r
  BY <1>2, ConcatEmptySeq
<1>7. l = IF state_ = "RUNNING" THEN <<a>> \o (<<b>> \o r) ELSE r
  BY <1>5, <1>6
<1> HIDE DEF a, b, r, l
<1>8. MainList(<<b>> \o r) /\ Calm(<<b>> \o r)
  BY <1>2, <1>4, MainOne, CalmOne, SettledCalm
<1>9. <<b>> \o r # <<>> /\ Head(<<b>> \o r) = b
  <2>1. <<b>> \in Seq(MainItem) /\ <<b>> # <<>> /\ Len(<<b>>) = 1 /\ <<b>>[1] = b
        /\ Len(r) \in Nat
    BY <1>2, <1>4, One, LenProperties
  <2>2. /\ <<b>> \o r \in Seq(MainItem) /\ Len(<<b>> \o r) = 1 + Len(r)
        /\ (<<b>> \o r)[1] = b
    BY <1>2, <2>1, ConcatProperties
  <2>3. <<b>> \o r # <<>>
    BY <2>1, <2>2, EmptySeq
  <2> QED
    BY <2>2, <2>3, TailIs
<1>10. MainList(l) /\ Calm(l)
  BY <1>2, <1>4, <1>7, <1>8, <1>9, MainOne, CalmOne, SettledCalm, Apart
<1>11. Moves(l)
  BY <1>1, <1>3, <1>10 DEF Moves, driverVars
<1>12. state_' \in States
  BY <1>1 DEF driverVars
<1> QED
  BY <1>11, <1>12, TurnMain

LEMMA TurnJoin == ASSUME TurnInv, Join PROVE TurnInv'
<1>1. /\ At(main, "join") /\ Continue(main) /\ UNCHANGED <<state_, config_>>
      /\ MainList(todo[main])
  BY DEF Join, TurnInv, Lists
<1>2. MainList(Rest(main))
  BY <1>1, MainHead
<1>3. Lists' /\ \A s \in Threads : todo'[s] = todo[s]
  BY <1>1, <1>2, MainGoes DEF Continue
<1>4. lost' \in Nat
  BY DEF Join, TurnInv
<1>5. ASSUME lost' = 0, NEW s \in Threads, Busy(todo'[s]) PROVE FALSE
  <2>1. lost = 0 /\ (scan_thread_ = None \/ Idle(scan_thread_))
    BY <1>5 DEF Join, TurnInv
  <2>2. s = scan_thread_
    BY <1>3, <1>5, <2>1 DEF TurnInv, Turn
  <2>3. scan_thread_ # None
    BY <2>2, HokuyoAssumption
  <2> QED
    BY <1>3, <1>5, <2>1, <2>2, <2>3 DEF Idle, Busy
<1> QED
  BY <1>1, <1>3, <1>4, <1>5 DEF TurnInv, Turn

LEMMA TurnGiven ==
  ASSUME TurnInv, MainIdle, NEW l \in Seq(WalkItem), Give(l), UNCHANGED driverVars
  PROVE  TurnInv'
<1>1. MainList(l) /\ Calm(l)
  BY Walks
<1>2. Work => state_ = "RUNNING"
  BY DEF Work, MainIdle, Idle
<1>3. Moves(l)
  BY <1>1, <1>2 DEF Moves, Give, Goto, driverVars, TurnInv
<1>4. state_' \in States
  BY DEF driverVars, TurnInv
<1> QED
  BY <1>3, <1>4, TurnMain

LEMMA TurnExit == ASSUME TurnInv, Exit PROVE TurnInv'
<1>1. /\ At(main, "exit") /\ Goto(main, <<>>) /\ UNCHANGED driverVars
      /\ MainList(todo[main])
  BY DEF Exit, TurnInv, Lists
<1>2. Work => state_ = "RUNNING"
  BY <1>1, MainHead
<1>3. Moves(<<>>)
  BY <1>1, <1>2, EmptyList DEF Moves, driverVars, TurnInv
<1>4. state_' \in States
  BY <1>1 DEF driverVars, TurnInv
<1> QED
  BY <1>3, <1>4, TurnMain

LEMMA TurnRequest ==
  ASSUME TurnInv, (\E new \in Configs : Reconfigure(new)) \/ SelfTest \/ Shutdown
  PROVE  TurnInv'
<1>1. ASSUME NEW l \in Seq(WalkItem), Request(l) PROVE TurnInv'
  BY <1>1, TurnGiven DEF Request
<1>2. goTo(state_) \in Seq(WalkItem) /\ goTo("OPENED") \in Seq(WalkItem)
  BY Goes DEF TurnInv, States
<1>3. ASSUME NEW new \in Configs, Reconfigure(new) PROVE TurnInv'
  <2> DEFINE a == IF state_ = "CLOSED" THEN <<>> ELSE goTo(Level(new))
  <2>1. goTo(Level(new)) \in Seq(WalkItem)
    BY Goes DEF Level
  <2>2. a \in Seq(WalkItem)
    BY <2>1, EmptyIn
  <2>3. new \in Config
    BY HokuyoAssumption DEF Config
  <2>4. <<Update(new)>> \in Seq(WalkItem)
    BY <2>3, Goes
  <2>5. Request(a \o <<Update(new)>> \o goTo(state_))
    BY <1>3 DEF Reconfigure, Update
  <2> HIDE DEF a
  <2>6. a \o <<Update(new)>> \o goTo(state_) \in Seq(WalkItem)
    BY <1>2, <2>2, <2>4, Cat
  <2> QED
    BY <1>1, <2>5, <2>6
<1>4. CASE SelfTest
  <2>1. goTo("OPENED") \o <<If("OPENED", OpenedTests)>> \o goTo(state_) \in Seq(WalkItem)
    BY <1>2, Goes, Cat
  <2> QED
    BY <1>1, <1>4, <2>1 DEF SelfTest
<1>5. CASE Shutdown
  <2>1. goClosed \o <<Do("exit")>> \in Seq(WalkItem)
    BY Goes, Cat
  <2> QED
    BY <1>1, <1>5, <2>1 DEF Shutdown
<1> QED
  BY <1>3, <1>4, <1>5

LEMMA TurnStep == TurnInv /\ [Next]_vars => TurnInv'
<1> SUFFICES ASSUME TurnInv, [Next]_vars PROVE TurnInv'
  OBVIOUS
<1>1. CASE UNCHANGED <<driverVars, todo>>
  BY <1>1 DEF driverVars, TurnInv, Lists, Turn, Work
<1>2. CASE MainStep
  <2>1. CASE Spin
    BY <2>1, TurnGiven, Goes DEF Spin
  <2> QED
    BY <1>2, <2>1, TurnMainStep, TurnStarted, TurnStopping, TurnJoin, TurnExit DEF MainStep
<1>3. CASE \E s \in Threads : Step(s)
  BY <1>3, TurnScanStep
<1>4. CASE Scan \/ Fault \/ Plug \/ UNCHANGED vars
  BY <1>1, <1>4 DEF Scan, Fault, Plug, vars, driverVars
<1> QED
  BY <1>2, <1>3, <1>4, TurnRequest DEF Next

LEMMA TurnTalker == TurnInv => OneTalker
<1> SUFFICES ASSUME TurnInv, lost = 0, NEW s \in Thread, NEW t \in Thread,
                    OnThePort(s), OnThePort(t)
             PROVE  s = t
  BY DEF OneTalker
<1> DEFINE Calls == {"send", "read", "flush", "openPort", "closePort", "dropPort"}
<1>1. ASSUME NEW u \in Threads, OnThePort(u) PROVE u = scan_thread_ /\ Work
  <2>1. PICK name \in Calls : At(u, name)
    BY <1>1 DEF OnThePort
  <2>2. Busy(todo[u])
    BY <2>1 DEF At, Busy
  <2> QED
    BY <2>2 DEF TurnInv, Turn
<1>2. ASSUME OnThePort(main) PROVE ~Work
  <2>1. PICK name \in Calls : At(main, name)
    BY <1>2 DEF OnThePort
  <2> QED
    BY <2>1, MainHead DEF TurnInv, Lists
<1> QED
  BY <1>1, <1>2 DEF Thread

(* Whatever the scanner, its cable and the requests do, in whatever order  *)
(* the two threads run: as long as doStop() has given up on no scan thread,*)
(* the two never use the port at once, although no lock guards it          *)
(* (scanThread, doStop, doStart, doClose and driver_base's changes of      *)
(* state).                                                                 *)
THEOREM TakeTurns == Spec => []OneTalker
<1>1. Spec => []TurnInv
  BY TurnInit, TurnStep, PTL DEF Spec
<1> QED
  BY <1>1, TurnTalker, PTL

-----------------------------------------------------------------------------
(* Which exceptions a thread does not catch.  Bare items may stand on a    *)
(* list with no catch after them: they do not throw, save the second probe *)
(* for intensities, and their handlers, if they have some, do as little.   *)
Quiet ==
  {"set", "config", "update", "doOpen", "opened", "doStart", "started", "doStop", "join",
   "exit", "return", "while", "if"}

Probes == {Send("MDp"), Wait("MDp"), Read("M")}

Plain(t, x) ==
  \/ x.do \in Quiet
  \/ x.do \in {"try", "catch"} /\ x.other = <<>> /\ x.corrupted = <<>>
  \/ t = main /\ x \in Probes

AllPlain(t, l) == \A i \in 1..Len(l) : Plain(t, l[i])

Bare(t, x) ==
  \/ Plain(t, x)
  \/ x.do \in {"try", "catch"} /\ AllPlain(t, x.other) /\ AllPlain(t, x.corrupted)

AllBare(t, l) == \A i \in 1..Len(l) : Bare(t, l[i])

Catches(l) == \E j \in 1..Len(l) : l[j].do = "catch"

Covered(t, l) ==
  \A i \in 1..Len(l) : Bare(t, l[i]) \/ \E j \in 1..Len(l) : i < j /\ l[j].do = "catch"

LEMMA BareAll == \A t, l : AllPlain(t, l) => AllBare(t, l)
BY Zenon DEF AllPlain, AllBare, Bare

LEMMA NothingPlain == \A t : AllPlain(t, <<>>) /\ Covered(t, <<>>)
<1>1. Len(<<>>) = 0 /\ 1..0 = {}
  OBVIOUS
<1> QED
  BY <1>1, Zenon DEF AllPlain, Covered

LEMMA OnePlain == \A t, x : Plain(t, x) => AllPlain(t, <<x>>)
<1>1. \A x : Len(<<x>>) = 1 /\ \A i \in 1..1 : <<x>>[i] = x
  OBVIOUS
<1> QED
  BY <1>1, Zenon DEF AllPlain

LEMMA TwoPlain == \A t, x, y : Plain(t, x) /\ Plain(t, y) => AllPlain(t, <<x, y>>)
<1>1. \A x, y : Len(<<x, y>>) = 2 /\ \A i \in 1..2 : <<x, y>>[i] = x \/ <<x, y>>[i] = y
  OBVIOUS
<1> QED
  BY <1>1 DEF AllPlain

LEMMA PlainCat ==
  ASSUME NEW t, NEW S, NEW a \in Seq(S), NEW b \in Seq(S), AllPlain(t, a), AllPlain(t, b)
  PROVE  AllPlain(t, a \o b)
<1>1. /\ Len(a) \in Nat /\ Len(b) \in Nat /\ Len(a \o b) = Len(a) + Len(b)
      /\ \A i \in 1 .. Len(a) + Len(b) : (a \o b)[i] = IF i <= Len(a) THEN a[i] ELSE b[i - Len(a)]
  BY LenProperties, ConcatProperties
<1> SUFFICES ASSUME NEW i \in 1..Len(a \o b) PROVE Plain(t, (a \o b)[i])
  BY DEF AllPlain
<1>2. CASE i <= Len(a)
  <2>1. i \in 1..Len(a) /\ (a \o b)[i] = a[i]
    BY <1>1, <1>2
  <2> QED
    BY <2>1 DEF AllPlain
<1>3. CASE ~(i <= Len(a))
  <2>1. i - Len(a) \in 1..Len(b) /\ (a \o b)[i] = b[i - Len(a)]
    BY <1>1, <1>3
  <2> QED
    BY <2>1 DEF AllPlain
<1> QED
  BY <1>2, <1>3

LEMMA CoveredAfter ==
  ASSUME NEW t, NEW S, NEW l \in Seq(S), Covered(t, l), NEW k \in 0..Len(l)
  PROVE  /\ Covered(t, SubSeq(l, k + 1, Len(l)))
         /\ k # 0 => Bare(t, l[k]) \/ Catches(SubSeq(l, k + 1, Len(l)))
<1> DEFINE r == SubSeq(l, k + 1, Len(l))
<1>1. /\ Len(l) \in Nat /\ Len(r) = Len(l) - k
      /\ \A i \in 1..Len(r) : i + k \in 1..Len(l) /\ r[i] = l[i + k]
  BY LenProperties, AfterIt
<1> HIDE DEF r
<1>2. ASSUME NEW j \in 1..Len(l), k < j, l[j].do = "catch"
      PROVE  j - k \in 1..Len(r) /\ r[j - k].do = "catch"
  BY <1>1, <1>2
<1>3. ASSUME NEW i \in 1..Len(r)
      PROVE  Bare(t, r[i]) \/ \E j \in 1..Len(r) : i < j /\ r[j].do = "catch"
  <2>1. i + k \in 1..Len(l) /\ r[i] = l[i + k]
    BY <1>1
  <2>2. CASE Bare(t, l[i + k])
    BY <2>1, <2>2
  <2>3. ASSUME NEW j \in 1..Len(l), i + k < j, l[j].do = "catch"
        PROVE  \E m \in 1..Len(r) : i < m /\ r[m].do = "catch"
    <3>1. j - k \in 1..Len(r) /\ r[j - k].do = "catch" /\ i < j - k
      BY <1>1, <1>2, <2>3
    <3> QED
      BY <3>1
  <2> QED
    BY <2>1, <2>2, <2>3 DEF Covered
<1>4. ASSUME k # 0 PROVE Bare(t, l[k]) \/ Catches(r)
  <2>1. k \in 1..Len(l)
    BY <1>1, <1>4
  <2> QED
    BY <1>2, <2>1 DEF Covered, Catches
<1> QED
  BY <1>3, <1>4 DEF Covered, r

LEMMA CoveredTail ==
  ASSUME NEW t, NEW S, NEW l \in Seq(S), Covered(t, l), l # <<>>
  PROVE  Covered(t, Tail(l)) /\ (Bare(t, Head(l)) \/ Catches(Tail(l)))
<1>1. /\ Len(l) \in Nat /\ Len(Tail(l)) = Len(l) - 1 /\ 1 \in 1..Len(l)
      /\ Head(l) = l[1]
      /\ \A i \in 1..Len(Tail(l)) : i + 1 \in 1..Len(l) /\ Tail(l)[i] = l[i + 1]
  BY TailIs, LenProperties
<1>2. ASSUME NEW j \in 1..Len(l), 1 < j, l[j].do = "catch"
      PROVE  j - 1 \in 1..Len(Tail(l)) /\ Tail(l)[j - 1].do = "catch"
  BY <1>1, <1>2
<1>3. ASSUME NEW i \in 1..Len(Tail(l))
      PROVE  Bare(t, Tail(l)[i]) \/ \E j \in 1..Len(Tail(l)) : i < j /\ Tail(l)[j].do = "catch"
  <2>1. i + 1 \in 1..Len(l) /\ Tail(l)[i] = l[i + 1]
    BY <1>1
  <2>2. ASSUME NEW j \in 1..Len(l), i + 1 < j, l[j].do = "catch"
        PROVE  \E m \in 1..Len(Tail(l)) : i < m /\ Tail(l)[m].do = "catch"
    <3>1. j - 1 \in 1..Len(Tail(l)) /\ Tail(l)[j - 1].do = "catch" /\ i < j - 1
      BY <1>1, <1>2, <2>2
    <3> QED
      BY <3>1
  <2> QED
    BY <2>1, <2>2 DEF Covered
<1>4. Bare(t, Head(l)) \/ Catches(Tail(l))
  BY <1>1, <1>2 DEF Covered, Catches
<1> QED
  BY <1>3, <1>4 DEF Covered

LEMMA CoveredCat ==
  ASSUME NEW t, NEW S, NEW a \in Seq(S), NEW b \in Seq(S), Covered(t, b),
         AllBare(t, a) \/ Catches(b)
  PROVE  Covered(t, a \o b) /\ (Catches(b) => Catches(a \o b))
<1> DEFINE l == a \o b
<1>1. /\ Len(a) \in Nat /\ Len(b) \in Nat /\ Len(l) = Len(a) + Len(b)
      /\ \A i \in 1 .. Len(a) + Len(b) : l[i] = IF i <= Len(a) THEN a[i] ELSE b[i - Len(a)]
  BY LenProperties, ConcatProperties
<1> HIDE DEF l
<1>2. ASSUME NEW j \in 1..Len(b), b[j].do = "catch"
      PROVE  j + Len(a) \in 1..Len(l) /\ l[j + Len(a)].do = "catch"
  BY <1>1, <1>2
<1>3. ASSUME NEW i \in 1..Len(l)
      PROVE  Bare(t, l[i]) \/ \E j \in 1..Len(l) : i < j /\ l[j].do = "catch"
  <2>1. CASE i <= Len(a)
    <3>1. i \in 1..Len(a) /\ l[i] = a[i]
      BY <1>1, <2>1
    <3>2. ASSUME NEW j \in 1..Len(b), b[j].do = "catch"
          PROVE  \E m \in 1..Len(l) : i < m /\ l[m].do = "catch"
      <4>1. j + Len(a) \in 1..Len(l) /\ l[j + Len(a)].do = "catch" /\ i < j + Len(a)
        BY <1>1, <1>2, <2>1, <3>2
      <4> QED
        BY <4>1
    <3> QED
      BY <3>1, <3>2 DEF AllBare, Catches
  <2>2. CASE ~(i <= Len(a))
    <3>1. i - Len(a) \in 1..Len(b) /\ l[i] = b[i - Len(a)]
      BY <1>1, <2>2
    <3>2. ASSUME NEW j \in 1..Len(b), i - Len(a) < j, b[j].do = "catch"
          PROVE  \E m \in 1..Len(l) : i < m /\ l[m].do = "catch"
      <4>1. j + Len(a) \in 1..Len(l) /\ l[j + Len(a)].do = "catch" /\ i < j + Len(a)
        BY <1>1, <1>2, <3>2
      <4> QED
        BY <4>1
    <3> QED
      BY <3>1, <3>2 DEF Covered
  <2> QED
    BY <2>1, <2>2
<1> QED
  BY <1>2, <1>3 DEF Covered, Catches, l

LEMMA CatchAtFirst == ASSUME NEW S, NEW l \in Seq(S), Catches(l) PROVE CatchAt(l) # 0
<1> DEFINE I == {i \in 1..Len(l) : l[i].do = "catch"}
<1>1. CatchAt(l) = IF I # {} THEN Min(I) ELSE 0
  BY Zenon DEF CatchAt, SelectInSeq
<1>2. I \subseteq Nat /\ I # {}
  BY LenProperties DEF Catches
<1>3. Min(I) \in I
  BY <1>2, Least
<1> QED
  BY <1>1, <1>2, <1>3

(* The calls, but for the probe, need no catch around them.                *)
Item == MainItem \cup ScanItem

LEMMA TryBare ==
  ASSUME NEW t, NEW b, NEW h, AllPlain(t, h)
  PROVE  /\ Bare(t, Try(b, h)) /\ AllBare(t, <<Try(b, h)>>)
         /\ h = <<>> => Plain(t, Try(b, h))
<1> DEFINE x == Try(b, h)
<1>1. x.do = "try" /\ x.other = h /\ x.corrupted = h
  BY TryIs
<1> HIDE DEF x
<1>2. Bare(t, x) /\ (h = <<>> => Plain(t, x))
  BY <1>1 DEF Bare, Plain
<1>3. AllBare(t, <<x>>)
  <2>1. Len(<<x>>) = 1 /\ \A i \in 1..1 : <<x>>[i] = x
    OBVIOUS
  <2> QED
    BY <1>2, <2>1, Zenon DEF AllBare
<1> QED
  BY <1>2, <1>3 DEF x

LEMMA QuietPlain ==
  ASSUME NEW t
  PROVE  /\ \A s : Plain(t, Set(s))
         /\ \A n \in Quiet : Plain(t, Do(n))
         /\ \A c : Plain(t, SetConfig(c)) /\ Plain(t, Update(c))
         /\ \A s, l : Plain(t, If(s, l))
         /\ t = main => Plain(t, Send("MDp")) /\ Plain(t, Wait("MDp")) /\ Plain(t, Read("M"))
<1>1. /\ \A s : Set(s).do = "set"
      /\ \A n : Do(n).do = n
      /\ \A c : SetConfig(c).do = "config" /\ Update(c).do = "update"
      /\ \A s, l : If(s, l).do = "if"
  BY DEF Set, Do, SetConfig, Update, If
<1>2. {"set", "config", "update", "if"} \subseteq Quiet
  BY DEF Quiet
<1>3. \A x : x.do \in Quiet => Plain(t, x)
  BY DEF Plain
<1>4. \A x \in Probes : t = main => Plain(t, x)
  BY DEF Plain
<1>5. Send("MDp") \in Probes /\ Wait("MDp") \in Probes /\ Read("M") \in Probes
  BY DEF Probes
<1> QED
  BY <1>1, <1>2, <1>3, <1>4, <1>5

LEMMA CloseBare == ASSUME NEW t PROVE AllPlain(t, doClose)
<1>1. Plain(t, Try(close, <<>>)) /\ Plain(t, Set("CLOSED"))
  BY NothingPlain, TryBare, QuietPlain
<1> QED
  BY <1>1, TwoPlain, Zenon DEF doClose

LEMMA AskBare ==
  ASSUME NEW yes, NEW c
  PROVE  AllBare(main, isIntensitySupported(yes, <<SetConfig(c)>>))
<1> DEFINE h == requestScans("MDp") \o <<serviceScanLimited>> \o <<SetConfig(c)>>
           T == {Send("MDp"), Wait("MDp"), Read("M"), SetConfig(c)}
<1>1. /\ requestScans("MDp") \in Seq(T) /\ <<serviceScanLimited>> \in Seq(T)
      /\ <<SetConfig(c)>> \in Seq(T)
  BY DEF requestScans, sendCmdUnlimited, serviceScanLimited
<1>2. /\ AllPlain(main, requestScans("MDp")) /\ AllPlain(main, <<serviceScanLimited>>)
      /\ AllPlain(main, <<SetConfig(c)>>)
  <2>1. requestScans("MDp") = <<Send("MDp"), Wait("MDp")>> /\ serviceScanLimited = Read("M")
    BY DEF requestScans, sendCmdUnlimited, serviceScanLimited
  <2>2. /\ Plain(main, Send("MDp")) /\ Plain(main, Wait("MDp")) /\ Plain(main, Read("M"))
        /\ Plain(main, SetConfig(c))
    BY QuietPlain
  <2> QED
    BY <2>1, <2>2, OnePlain, TwoPlain, Zenon
<1> HIDE DEF T
<1>3. AllPlain(main, h)
  <2>1. requestScans("MDp") \o <<serviceScanLimited>> \in Seq(T)
    BY <1>1, Cat
  <2>2. AllPlain(main, requestScans("MDp") \o <<serviceScanLimited>>)
    BY <1>1, <1>2, PlainCat
  <2> QED
    BY <1>1, <1>2, <2>1, <2>2, PlainCat
<1> HIDE DEF h
<1>4. isIntensitySupported(yes, <<SetConfig(c)>>)
        = <<Try(requestScans("MEp") \o <<serviceScanLimited>> \o yes, h)>>
  BY DEF isIntensitySupported, h
<1> QED
  BY <1>3, <1>4, TryBare

LEMMA CallsBare ==
  /\ \A c \in Config : AllBare(main, postOpenHook(c)) /\ AllBare(main, config_update(c))
  /\ \A known : AllBare(main, doOpen(known))
  /\ \A c : AllBare(main, doStart(c))
  /\ AllBare(main, OpenedTests) /\ AllBare(main, doStop)
<1>1. \A c : AllBare(main, <<SetConfig(c)>>)
  BY QuietPlain, OnePlain, BareAll
<1>2. ASSUME NEW c \in Config PROVE AllBare(main, postOpenHook(c)) /\ AllBare(main, config_update(c))
  <2>1. /\ \/ postOpenHook(c) = <<SetConfig(CheckAngleRange(c))>>
           \/ \E y, d : postOpenHook(c) = isIntensitySupported(y, <<SetConfig(d)>>)
        /\ \/ config_update(c) = <<SetConfig(c)>>
           \/ config_update(c) = <<SetConfig(CheckAngleRange(c))>>
           \/ \E y, d : config_update(c) = isIntensitySupported(y, <<SetConfig(d)>>)
    BY DEF postOpenHook, config_update
  <2> QED
    BY <1>1, <2>1, AskBare, Zenon
<1>3. ASSUME NEW known PROVE AllBare(main, doOpen(known))
  BY CloseBare, TryBare DEF doOpen
<1>4. ASSUME NEW c PROVE AllBare(main, doStart(c))
  BY CloseBare, TryBare DEF doStart
<1>5. AllBare(main, OpenedTests)
  <2> DEFINE a == Try(getStatus, <<>>)
             b == Try(laserOn, <<>>)
             c == Try(pollScan, <<>>)
             d == Try(requestScans("MDp") \o <<serviceScanLimited>>, <<>>)
             e == Try(laserOff, <<>>)
  <2>1. Bare(main, a) /\ Bare(main, b) /\ Bare(main, c) /\ Bare(main, d) /\ Bare(main, e)
    BY NothingPlain, TryBare
  <2>2. OpenedTests = <<a, b, c, d, e>>
    BY DEF OpenedTests
  <2> HIDE DEF a, b, c, d, e
  <2>3. Len(<<a, b, c, d, e>>) = 5
        /\ \A i \in 1..5 : <<a, b, c, d, e>>[i] \in {a, b, c, d, e}
    OBVIOUS
  <2> QED
    BY <2>1, <2>2, <2>3 DEF AllBare
<1>6. AllBare(main, doStop)
  BY QuietPlain, OnePlain, BareAll DEF doStop, Quiet
<1> QED
  BY <1>2, <1>3, <1>4, <1>5, <1>6

LEMMA ScansBare ==
  ASSUME NEW t
  PROVE  /\ AllBare(t, scanThread) /\ AllBare(t, scanThreadEnds)
         /\ AllBare(t, <<Do("while")>>)
<1>1. AllBare(t, <<Do("while")>>)
  BY QuietPlain, OnePlain, BareAll DEF Quiet
<1>2. AllBare(t, scanThreadEnds)
  <2>1. Plain(t, Try(stopScanning, <<>>)) /\ Plain(t, Set("OPENED"))
    BY NothingPlain, TryBare, QuietPlain
  <2> QED
    BY <2>1, TwoPlain, BareAll, Zenon DEF scanThreadEnds
<1>3. AllBare(t, scanThread)
  <2> DEFINE a == Try(close, <<>>)
             b == Set("CLOSED")
             c == Do("return")
             w == Do("while")
  <2>1. Plain(t, a) /\ Plain(t, b) /\ Plain(t, c) /\ Plain(t, w)
    BY NothingPlain, TryBare, QuietPlain DEF Quiet
  <2>2. ScanTry.other = <<a, b, c>> /\ ScanTry.do = "try" /\ ScanTry.corrupted = <<>>
        /\ scanThread = <<ScanTry, w>>
    BY ScanTryIs
  <2> HIDE DEF a, b, c, w
  <2>3. AllPlain(t, <<a, b, c>>)
    <3>1. Len(<<a, b, c>>) = 3 /\ \A i \in 1..3 : <<a, b, c>>[i] \in {a, b, c}
      OBVIOUS
    <3> QED
      BY <2>1, <3>1 DEF AllPlain
  <2>4. Bare(t, ScanTry) /\ Bare(t, w)
    BY <2>1, <2>2, <2>3, NothingPlain DEF Bare
  <2>5. Len(<<ScanTry, w>>) = 2 /\ \A i \in 1..2 : <<ScanTry, w>>[i] \in {ScanTry, w}
    OBVIOUS
  <2> QED
    BY <2>2, <2>4, <2>5 DEF AllBare
<1> QED
  BY <1>1, <1>2, <1>3

LEMMA WalksBare == \A l \in Seq(WalkItem) : AllBare(main, l) /\ Covered(main, l)
<1> SUFFICES ASSUME NEW l \in Seq(WalkItem), NEW i \in 1..Len(l) PROVE Bare(main, l[i])
  BY DEF AllBare, Covered
<1>1. l[i] \in WalkItem
  BY ElementOfSeq
<1> QED
  BY <1>1, WalkNamed DEF Bare, Plain, Quiet

LEMMA ItemNested == Nested(Item)
<1> SUFFICES ASSUME NEW x \in Item
    PROVE  /\ x.do \in {"try", "catch"} => x.other \in Seq(Item) /\ x.corrupted \in Seq(Item)
           /\ x.do = "try" => x.body \in Seq(Item) /\ Catch(x) \in Item
           /\ x.do = "ifPort" => x.then \in Seq(Item)
  BY Zenon DEF Nested
<1>1. Deeper(MainBase) \subseteq Item /\ Deep(ScanBase) \subseteq Item
  BY DEF Item, MainItem, ScanItem
<1>2. CASE x \in Deeper(MainBase)
  BY <1>1, <1>2, MainDeep, Wider DEF Nested
<1>3. CASE x \in Deep(ScanBase)
  BY <1>1, <1>3, ScanDeep, Wider DEF Nested
<1>4. CASE x = ScanTry
  <2>1. serviceScan \in Item /\ Do("useScan") \in Item /\ Catch(ScanTry) \in Item
    BY ScanDeep, CoreIs DEF Item, ScanItem, serviceScan, Words, ScanBase
  <2>2. <<serviceScan, Do("useScan")>> \in Seq(Item)
    BY <2>1, Two
  <2>3. <<Try(close, <<>>), Set("CLOSED"), Do("return")>> \in Seq(Item)
    BY ScanLists, Wider DEF ScanList, Item
  <2> QED
    BY <1>4, <2>1, <2>2, <2>3, EmptyIn, ScanTryIs
<1>5. CASE x = Catch(ScanTry)
  <2>1. <<Try(close, <<>>), Set("CLOSED"), Do("return")>> \in Seq(Item)
    BY ScanLists, Wider DEF ScanList, Item
  <2> QED
    BY <1>5, <2>1, EmptyIn, ScanTryIs
<1>6. ASSUME NEW c \in Config, x = StartTry(c)
      PROVE  /\ x.do = "try" /\ x.body \in Seq(Item) /\ Catch(x) \in Item
             /\ x.other \in Seq(Item) /\ x.corrupted \in Seq(Item)
  <2> DEFINE b == laserOn \o requestScans(IF c.intensity THEN "ME" ELSE "MD")
  <2>1. b \in Seq(Deeper(MainBase))
    BY StartsScan, MainDeep, Wider
  <2>2. b \in Seq(Item) /\ doClose \in Seq(Item)
    BY <1>1, <2>1, CloseIn, Wider
  <2>3. Do("started") \in Item
    BY DEF Item, MainItem, StartItem
  <2>4. b \o <<Do("started")>> \in Seq(Item)
    BY <2>2, <2>3, One, Cat
  <2>5. [do |-> "catch", other |-> doClose, corrupted |-> doClose] \in Item
    BY <1>1, CloseIn, Tries DEF Deeper
  <2>6. x = Try(b \o <<Do("started")>>, doClose)
    BY <1>6, StartTryIs
  <2> HIDE DEF b
  <2>7. /\ x.do = "try" /\ x.body = b \o <<Do("started")>> /\ x.other = doClose
        /\ x.corrupted = doClose
        /\ Catch(x) = [do |-> "catch", other |-> doClose, corrupted |-> doClose]
    BY <2>6, TryIs
  <2> QED
    BY <2>2, <2>4, <2>5, <2>7
<1>7. ASSUME x.do \in {"try", "catch", "ifPort"}
      PROVE  \/ x \in Deeper(MainBase) \/ x \in Deep(ScanBase) \/ x = ScanTry
             \/ x = Catch(ScanTry) \/ \E c \in Config : x = StartTry(c)
  <2>1. CASE x \in MainItem
    BY <1>7, <2>1, MainNamed
  <2>2. CASE x \in ScanItem
    BY <1>7, <2>2 DEF ScanItem, Do, Set
  <2> QED
    BY <2>1, <2>2 DEF Item
<1>8. "try" # "ifPort" /\ "try" # "catch" /\ "catch" # "ifPort"
  OBVIOUS
<1> QED
  BY <1>2, <1>3, <1>4, <1>5, <1>6, <1>7, <1>8

LEMMA ThenBare ==
  ASSUME NEW x \in MainItem, x.do = "if"
  PROVE  x.then \in Seq(Item) /\ AllBare(main, x.then)
<1>1. \A s, l : If(s, l).then = l
  BY DEF If
<1>2. x \in {Opened, If("CLOSED", <<Do("doOpen"), Opened>>), If("OPENED", <<Do("doStart")>>),
            If("RUNNING", doStop), If("OPENED", doClose), If("OPENED", OpenedTests)}
  BY MainNamed, WalkNamed
<1>3. x.then \in {<<Do("opened")>>, <<Do("doOpen"), Opened>>, <<Do("doStart")>>, doStop, doClose,
                 OpenedTests}
  <2>1. Opened.then = <<Do("opened")>>
    BY <1>1 DEF Opened
  <2>2. \/ x = Opened \/ x = If("CLOSED", <<Do("doOpen"), Opened>>)
        \/ x = If("OPENED", <<Do("doStart")>>) \/ x = If("RUNNING", doStop)
        \/ x = If("OPENED", doClose) \/ x = If("OPENED", OpenedTests)
    BY <1>2, Zenon
  <2>3. \A s, l : x = If(s, l) => x.then = l
    BY <1>1
  <2>4. /\ x = Opened => x.then = <<Do("opened")>>
        /\ x = If("CLOSED", <<Do("doOpen"), Opened>>) => x.then = <<Do("doOpen"), Opened>>
    BY <2>1, <2>3, Zenon
  <2>5. /\ x = If("OPENED", <<Do("doStart")>>) => x.then = <<Do("doStart")>>
        /\ x = If("RUNNING", doStop) => x.then = doStop
        /\ x = If("OPENED", doClose) => x.then = doClose
        /\ x = If("OPENED", OpenedTests) => x.then = OpenedTests
    BY <2>3, Zenon
  <2> QED
    BY <2>2, <2>4, <2>5, Zenon
<1>4. /\ AllBare(main, <<Do("opened")>>) /\ AllBare(main, <<Do("doStart")>>)
      /\ AllBare(main, <<Do("doOpen"), Opened>>)
  <2>1. /\ Plain(main, Do("opened")) /\ Plain(main, Do("doStart")) /\ Plain(main, Do("doOpen"))
        /\ Plain(main, Opened)
    BY QuietPlain DEF Quiet, Opened
  <2> QED
    BY <2>1, OnePlain, TwoPlain, BareAll
<1>5. /\ <<Do("opened")>> \in Seq(Item) /\ <<Do("doStart")>> \in Seq(Item)
      /\ <<Do("doOpen"), Opened>> \in Seq(Item) /\ doStop \in Seq(Item)
  <2>1. /\ Do("opened") \in Item /\ Do("doStart") \in Item /\ Do("doOpen") \in Item
        /\ Opened \in Item /\ Do("doStop") \in Item
    BY InBase, MainDeep DEF OpenNames, Item, MainItem, StartItem
  <2> QED
    BY <2>1, One, Two DEF doStop
<1>6. doClose \in Seq(Item) /\ OpenedTests \in Seq(Item)
  BY CloseIn, TestsIn, Wider DEF Item, MainItem
<1> QED
  BY <1>3, <1>4, <1>5, <1>6, CallsBare, CloseBare, BareAll

LEMMA HeadIs ==
  ASSUME TurnInv, NEW t \in Thread, Covered(t, todo[t]), NEW name, At(t, name)
  PROVE  /\ todo[t] \in Seq(Item) /\ Head(todo[t]) \in Item /\ Head(todo[t]).do = name
         /\ Rest(t) \in Seq(Item) /\ Covered(t, Rest(t))
         /\ Bare(t, Head(todo[t])) \/ Catches(Rest(t))
         /\ t = main \/ name \in CoreNames \cup {"useScan", "try", "catch", "ifPort", "while", "return", "set"}
<1>1. /\ todo[t] \in Seq(Item) /\ todo[t] # <<>> /\ Head(todo[t]).do = name
      /\ t # main => ScanList(todo[t])
  BY DEF TurnInv, Lists, Item, At, Thread
<1>2. Head(todo[t]) \in Item /\ Rest(t) \in Seq(Item)
  BY <1>1, TailIs DEF Rest
<1>3. Covered(t, Rest(t)) /\ (Bare(t, Head(todo[t])) \/ Catches(Rest(t)))
  BY <1>1, CoveredTail DEF Rest
<1>4. t # main => name \in CoreNames \cup {"useScan", "try", "catch", "ifPort", "while", "return", "set"}
  BY <1>1, ScanHead
<1> QED
  BY <1>1, <1>2, <1>3, <1>4

(* A thread goes on with a list whose exceptions are caught, and the node  *)
(* does too, unless it was a probe that failed.                            *)
Caught(t) ==
  \E l : /\ Goto(t, l) /\ Covered(t, l)
         /\ node' = node \/ (t = main /\ Head(todo[main]) \in Probes)

(* An exception goes on at a catch, or it was that of the probe.           *)
LEMMA Escapes ==
  ASSUME TurnInv, NEW t \in Thread, Covered(t, todo[t]), NEW name \in CoreNames, At(t, name),
         NEW kind \in {"other", "corrupted"}, Throw(t, kind)
  PROVE  Caught(t)
<1> DEFINE k == CatchAt(todo[t])
           x == todo[t][k]
           r == Beyond(todo[t])
<1>1. todo[t] \in Seq(Item) /\ Len(todo[t]) \in Nat /\ todo[t] # <<>>
      /\ Head(todo[t]).do = name
      /\ (Bare(t, Head(todo[t])) \/ Catches(Rest(t)))
  BY HeadIs, LenProperties DEF At
<1>2. CASE k = 0
  <2>1. ~Catches(todo[t])
    BY <1>1, <1>2, CatchAtFirst
  <2>2. ~Catches(Rest(t))
    <3>1. \A i \in 1..Len(Rest(t)) : i + 1 \in 1..Len(todo[t]) /\ Rest(t)[i] = todo[t][i + 1]
      BY <1>1, TailIs DEF Rest
    <3> QED
      BY <2>1, <3>1 DEF Catches
  <2>3. Bare(t, Head(todo[t]))
    BY <1>1, <2>2
  <2>4. t = main /\ Head(todo[t]) \in Probes
    BY <1>1, <2>3 DEF Bare, Plain, Quiet, CoreNames
  <2>5. Goto(t, <<>>)
    BY <1>2 DEF Throw
  <2> QED
    BY <2>4, <2>5, NothingPlain DEF Caught
<1>3. CASE k # 0
  <2>1. k \in 1..Len(todo[t]) /\ x.do = "catch"
    BY <1>1, <1>3, CatchesAt
  <2>2. x \in Item
    BY <1>1, <2>1, ElementOfSeq
  <2>3. x.other \in Seq(Item) /\ x.corrupted \in Seq(Item)
    BY <2>1, <2>2, ItemNested DEF Nested
  <2>4. k \in 0..Len(todo[t])
    BY <1>1, <2>1
  <2>5. Covered(t, r) /\ r \in Seq(Item) /\ (Bare(t, x) \/ Catches(r))
    BY <1>1, <1>3, <2>4, CoveredAfter, AfterIt DEF Beyond
  <2>6. Goto(t, x[kind] \o r) /\ node' = node
    BY <1>3 DEF Throw
  <2> HIDE DEF x, r
  <2>7. Bare(t, x) => AllBare(t, x.other) /\ AllBare(t, x.corrupted)
    <3>1. Bare(t, x) => AllPlain(t, x.other) /\ AllPlain(t, x.corrupted)
      <4>1. "catch" \notin Quiet /\ \A p \in Probes : p.do # "catch"
        BY DEF Quiet, Probes, Send, Wait, Read
      <4>2. AllPlain(t, <<>>)
        BY NothingPlain
      <4> QED
        BY <2>1, <4>1, <4>2 DEF Bare, Plain
    <3> QED
      BY <3>1, BareAll
  <2>8. x[kind] \in Seq(Item) /\ (Bare(t, x) => AllBare(t, x[kind]))
    <3>1. kind = "other" \/ kind = "corrupted"
      OBVIOUS
    <3> QED
      BY <2>3, <2>7, <3>1
  <2>9. Covered(t, x[kind] \o r)
    BY <2>5, <2>8, CoveredCat
  <2> QED
    BY <2>6, <2>9 DEF Caught
<1> QED
  BY <1>2, <1>3

LEMMA CaughtSteps ==
  ASSUME TurnInv, NEW t \in Thread, Covered(t, todo[t]), Step(t)
  PROVE  Caught(t)
<1>1. ASSUME NEW name, At(t, name), Continue(t) PROVE Caught(t)
  BY <1>1, HeadIs DEF Continue, Caught
<1>2. ASSUME NEW name \in CoreNames, At(t, name), NEW kind \in {"other", "corrupted"}, Throw(t, kind)
      PROVE  Caught(t)
  BY <1>2, Escapes
<1>3. ASSUME NEW name, At(t, name), NEW a \in Seq(Item), Goto(t, a \o Rest(t)), node' = node,
             AllBare(t, a) \/ ~Bare(t, Head(todo[t]))
      PROVE  Caught(t)
  <2>1. Covered(t, a \o Rest(t))
    BY <1>3, HeadIs, CoveredCat
  <2> QED
    BY <1>3, <2>1 DEF Caught
<1>4. ASSUME NEW a, AllBare(t, a), Goto(t, a), node' = node PROVE Caught(t)
  <2>1. Covered(t, a)
    BY <1>4 DEF Covered, AllBare
  <2> QED
    BY <1>4, <2>1 DEF Caught
<1>5. ASSUME NEW name \in {"again", "calibrate", "calibrated", "status", "ifPort"}, At(t, name)
      PROVE  ~Bare(t, Head(todo[t]))
  <2>1. Head(todo[t]).do = name
    BY <1>5 DEF At
  <2>2. name \notin Quiet /\ name \notin {"try", "catch"} /\ \A p \in Probes : p.do # name
    BY <1>5 DEF Quiet, Probes, Send, Wait, Read
  <2> QED
    BY <2>1, <2>2 DEF Bare, Plain
<1>6. /\ "flush" \in CoreNames /\ "send" \in CoreNames /\ "read" \in CoreNames
      /\ "openPort" \in CoreNames /\ "throw" \in CoreNames /\ "require" \in CoreNames
  BY DEF CoreNames
<1>7. CASE laserFlush(t)
  BY <1>1, <1>2, <1>6, <1>7 DEF laserFlush, Except
<1>8. CASE laserWrite(t)
  BY <1>1, <1>2, <1>6, <1>8 DEF laserWrite, Except
<1>9. CASE laserReadline(t)
  <2>1. \/ UNCHANGED <<todo, node>>
        \/ Throw(t, "corrupted") \/ Throw(t, "other")
        \/ Continue(t)
    BY <1>9 DEF laserReadline, Except
  <2>2. ASSUME UNCHANGED <<todo, node>> PROVE Caught(t)
    <3>1. Goto(t, todo[t])
      BY <2>2 DEF Goto, TurnInv, Lists
    <3> QED
      BY <2>2, <3>1 DEF Caught
  <2>3. At(t, "read")
    BY <1>9 DEF laserReadline
  <2> QED
    BY <1>1, <1>2, <1>6, <2>1, <2>2, <2>3
<1>10. CASE TooMuchSkipped(t) \/ ReadFails(t)
  BY <1>2, <1>6, <1>10 DEF TooMuchSkipped, ReadFails, Except
<1>11. CASE openPort(t)
  BY <1>1, <1>2, <1>6, <1>11 DEF openPort, Except
<1>12. CASE closePort(t) \/ getID(t) \/ SetState(t) \/ SetTheConfig(t)
  BY <1>1, <1>12 DEF closePort, getID, SetState, SetTheConfig
<1>13. CASE ifPort(t)
  <2> DEFINE a == IF fd = "closed" THEN <<>> ELSE Head(todo[t]).then
  <2>1. At(t, "ifPort") /\ Goto(t, a \o Rest(t)) /\ node' = node
    BY <1>13 DEF ifPort
  <2>2. Head(todo[t]).then \in Seq(Item)
    BY <2>1, HeadIs, ItemNested DEF Nested
  <2>3. a \in Seq(Item)
    BY <2>2, EmptyIn
  <2> HIDE DEF a
  <2> QED
    BY <1>3, <1>5, <2>1, <2>3
<1>14. CASE ControlStep(t)
  <2>0. Control(t)
    BY <1>14 DEF ControlStep
  <2> DEFINE x == Head(todo[t])
  <2>1. ASSUME At(t, "try"), Goto(t, x.body \o <<Catch(x)>> \o Rest(t)), node' = node
        PROVE  Caught(t)
    <3> DEFINE r == Rest(t)
               c == Catch(x)
    <3>1. /\ x.do = "try" /\ r \in Seq(Item) /\ Covered(t, r) /\ (Bare(t, x) \/ Catches(r))
          /\ x.body \in Seq(Item) /\ c \in Item
      BY <2>1, HeadIs, ItemNested DEF Nested
    <3>2. c = [do |-> "catch", other |-> x.other, corrupted |-> x.corrupted]
      BY DEF Catch
    <3>3. c.do = "catch" /\ c.other = x.other /\ c.corrupted = x.corrupted
      BY <3>2
    <3> DEFINE b == x.body
    <3> HIDE DEF c, r, x
    <3>4. Bare(t, x) => Bare(t, c)
      <4>1. "try" \notin Quiet /\ \A p \in Probes : p.do # "try"
        BY DEF Quiet, Probes, Send, Wait, Read
      <4> QED
        BY <3>1, <3>3, <4>1 DEF Bare, Plain
    <3>5. Len(<<c>>) = 1 /\ <<c>>[1] = c /\ <<c>> \in Seq(Item)
      BY <3>1, One
    <3>6. Bare(t, x) => AllBare(t, <<c>>)
      BY <3>4, <3>5 DEF AllBare
    <3>7. Covered(t, <<c>> \o r) /\ <<c>> \o r \in Seq(Item)
      BY <3>1, <3>5, <3>6, CoveredCat, Cat
    <3>8. Catches(<<c>> \o r)
      <4>1. Len(<<c>> \o r) = 1 + Len(r) /\ Len(r) \in Nat /\ (<<c>> \o r)[1] = c
        BY <3>1, <3>5, LenProperties, ConcatProperties
      <4>2. 1 \in 1..Len(<<c>> \o r)
        BY <4>1
      <4> QED
        BY <3>3, <4>1, <4>2 DEF Catches
    <3>9. b \in Seq(Item) /\ <<c>> \in Seq(Item) /\ r \in Seq(Item)
      BY <3>1, <3>5
    <3>10. Goto(t, (b \o <<c>>) \o r)
      BY <2>1 DEF c, r, x
    <3> HIDE DEF b
    <3>11. (b \o <<c>>) \o r = b \o (<<c>> \o r)
      BY <3>9, ConcatAssociative
    <3>12. Covered(t, b \o (<<c>> \o r))
      BY <3>7, <3>8, <3>9, CoveredCat
    <3> QED
      BY <2>1, <3>10, <3>11, <3>12 DEF Caught
  <2>2. ASSUME At(t, "catch"), Continue(t) PROVE Caught(t)
    BY <1>1, <2>2
  <2>3. ASSUME At(t, "throw"), Except(t) PROVE Caught(t)
    BY <1>2, <1>6, <2>3 DEF Except
  <2>4. ASSUME At(t, "return"), Goto(t, <<>>), node' = node PROVE Caught(t)
    BY <2>4, NothingPlain DEF Caught
  <2>5. ASSUME At(t, "if"), node' = node,
               Goto(t, (IF state_ = x.state THEN x.then ELSE <<>>) \o Rest(t))
        PROVE  Caught(t)
    <3>0. t = main
      BY <2>5, HeadIs DEF CoreNames
    <3>1. t = main /\ x \in MainItem /\ x.do = "if"
      BY <2>5, <3>0, MainHead DEF TurnInv, Lists
    <3>2. x.then \in Seq(Item) /\ AllBare(main, x.then)
      BY <3>1, ThenBare
    <3> DEFINE a == IF state_ = x.state THEN x.then ELSE <<>>
    <3>3. a \in Seq(Item) /\ AllBare(main, a)
      BY <3>2, EmptyIn, NothingPlain, BareAll
    <3> QED
      BY <1>3, <2>5, <3>1, <3>3
  <2>6. ASSUME At(t, "while"), Goto(t, IF state_ = "RUNNING" THEN scanThread ELSE scanThreadEnds),
               node' = node
        PROVE  Caught(t)
    BY <1>4, <2>6, ScansBare
  <2>7. ASSUME At(t, "opened"), Goto(t, postOpenHook(config_) \o Rest(t)), node' = node
        PROVE  Caught(t)
    <3>1. t = main
      BY <2>7, HeadIs DEF CoreNames
    <3>2. postOpenHook(config_) \in Seq(Item)
      BY ConfigsIn, Wider DEF TurnInv, Item, MainItem
    <3> QED
      BY <1>3, <2>7, <3>1, <3>2, CallsBare DEF TurnInv
  <2>8. ASSUME At(t, "update"), Goto(t, config_update(x.config) \o Rest(t)), node' = node
        PROVE  Caught(t)
    <3>1. t = main
      BY <2>8, HeadIs DEF CoreNames
    <3>2. x.config \in Config
      BY <2>8, <3>1, MainHead, Carried DEF TurnInv, Lists
    <3>3. config_update(x.config) \in Seq(Item)
      BY <3>2, ConfigsIn, Wider DEF Item, MainItem
    <3> QED
      BY <1>3, <2>8, <3>1, <3>2, <3>3, CallsBare
  <2>9. ASSUME At(t, "again"), Goto(t, PluggedIn(x.retries) \o Rest(t)), node' = node
        PROVE  Caught(t)
    <3>1. t = main
      BY <2>9, HeadIs DEF CoreNames
    <3>2. x.retries \in Nat
      BY <2>9, <3>1, MainHead, Carried DEF TurnInv, Lists
    <3>3. PluggedIn(x.retries) \in Seq(Item)
      <4>1. PluggedIn(x.retries) \in Seq(Deeper(MainBase))
        BY <3>2, PluggedIns, FromBase
      <4> HIDE DEF x
      <4> QED
        BY <4>1, Wider DEF Item, MainItem
    <3> QED
      BY <1>3, <1>5, <2>9, <3>3
  <2>10. ASSUME At(t, "doStart"), Goto(t, doStart(config_) \o Rest(t)), node' = node
        PROVE  Caught(t)
    <3>1. t = main
      BY <2>10, HeadIs DEF CoreNames
    <3>2. StartTry(config_) \in Item
      BY Zenon DEF TurnInv, StartItem, MainItem, Item
    <3>3. doStart(config_) \in Seq(Item)
      BY <3>2, One, StartTryIs
    <3> QED
      BY <1>3, <2>10, <3>1, <3>3, CallsBare
  <2> QED
    BY <2>0, <2>1, <2>2, <2>3, <2>4, <2>5, <2>6, <2>7, <2>8, <2>9, <2>10 DEF Control
<1>15. CASE Checked(t)
  <2>1. ASSUME At(t, "status"), Goto(t, doClose \o Beyond(todo[t])), node' = node
        PROVE  Caught(t)
    <3>1. /\ Covered(t, Beyond(todo[t])) /\ Beyond(todo[t]) \in Seq(Item)
      <4>1. todo[t] \in Seq(Item) /\ Len(todo[t]) \in Nat
        BY <2>1, HeadIs, LenProperties
      <4>2. CatchAt(todo[t]) \in 0..Len(todo[t])
        BY <4>1, CatchesAt
      <4> QED
        BY <4>1, <4>2, CoveredAfter, AfterIt DEF Beyond
    <3>2. doClose \in Seq(Item) /\ AllBare(t, doClose)
      BY CloseIn, CloseBare, BareAll, Wider DEF Item, MainItem
    <3>3. Covered(t, doClose \o Beyond(todo[t]))
      BY <3>1, <3>2, CoveredCat
    <3> QED
      BY <2>1, <3>3 DEF Caught
  <2> QED
    BY <1>1, <1>2, <1>6, <1>15, <2>1 DEF Checked, Except
<1>16. CASE BeginOpen(t)
  <2>1. t = main
    BY <1>16, HeadIs DEF BeginOpen, CoreNames
  <2>2. doOpen(device_id_) \in Seq(Item)
    BY OpenIn, Wider DEF Item, MainItem
  <2> QED
    BY <1>3, <1>16, <2>1, <2>2, CallsBare DEF BeginOpen
<1>17. CASE Calibrate(t)
  <2>1. ASSUME At(t, "calibrate"), node' = node,
               Goto(t, calcLatency \o <<Do("calibrated")>> \o Rest(t))
        PROVE  Caught(t)
    <3>1. calcLatency \o <<Do("calibrated")>> \in Seq(Item)
      BY Calibrates, Wider DEF Item, MainItem
    <3> QED
      BY <1>3, <1>5, <2>1, <3>1
  <2>2. ASSUME At(t, "calibrate"), Goto(t, Rest(t)), node' = node PROVE Caught(t)
    BY <1>1, <2>2 DEF Continue
  <2>3. ASSUME At(t, "calibrated"), Continue(t) PROVE Caught(t)
    BY <1>1, <2>3
  <2> QED
    BY <1>17, <2>1, <2>2, <2>3 DEF Calibrate
<1>18. CASE useScan(t)
  <2>1. /\ At(t, "useScan") /\ node' = node
        /\ Goto(t, IF ret[t] = "00" THEN Rest(t) ELSE scanThreadEnds)
    BY <1>18 DEF useScan
  <2> QED
    BY <1>1, <1>4, <2>1, ScansBare DEF Continue
<1> QED
  BY <1>7, <1>8, <1>9, <1>10, <1>11, <1>12, <1>13, <1>14, <1>15, <1>16, <1>17, <1>18 DEF Step

(* Of any list of either thread, every item that may throw has a catch     *)
(* after it, but the probe.                                                *)
CaughtInv == TurnInv /\ \A t \in Thread : Covered(t, todo[t])

LEMMA CaughtInit == Init => CaughtInv
<1> SUFFICES ASSUME Init PROVE \A t \in Thread : Covered(t, todo[t])
  BY TurnInit DEF CaughtInv
<1>1. goRunning \in Seq(WalkItem)
  BY Goes
<1>2. \A t \in Thread : todo[t] = IF t = main THEN goRunning ELSE <<>>
  BY DEF Init
<1> QED
  BY <1>1, <1>2, WalksBare, NothingPlain

(* A step that gives one thread another list. *)
LEMMA OneGoes ==
  ASSUME CaughtInv, NEW t \in Thread, NEW l, Goto(t, l), Covered(t, l)
  PROVE  \A u \in Thread : Covered(u, todo'[u])
<1>1. todo \in [Thread -> Seq(Item)] /\ todo' = [todo EXCEPT ![t] = l]
  BY DEF CaughtInv, TurnInv, Lists, Goto, Item
<1> QED
  BY <1>1 DEF CaughtInv

LEMMA CaughtStarted ==
  ASSUME CaughtInv, Started
  PROVE  (\A u \in Thread : Covered(u, todo'[u])) /\ node' = node
<1>1. /\ At(main, "started") /\ main \in Thread /\ todo \in [Thread -> Seq(Item)]
      /\ Covered(main, todo[main]) /\ TurnInv
  BY DEF Started, CaughtInv, TurnInv, Lists, Item, Thread
<1>2. Covered(main, Rest(main))
  BY <1>1, HeadIs
<1>3. CASE Continue(main)
  BY <1>1, <1>2, <1>3, OneGoes DEF Continue
<1>4. ASSUME NEW s \in Threads, node' = node,
             todo' = [todo EXCEPT ![main] = Rest(main), ![s] = <<Do("while")>>]
      PROVE  (\A u \in Thread : Covered(u, todo'[u])) /\ node' = node
  <2> DEFINE l == <<Do("while")>>
             r == Rest(main)
  <2>1. Covered(s, l)
    <3>1. Plain(s, Do("while"))
      BY QuietPlain DEF Quiet
    <3>2. AllBare(s, l)
      BY <3>1, OnePlain, BareAll
    <3> QED
      BY <3>2 DEF AllBare, Covered
  <2>2. s \in Thread /\ s # main
    BY HokuyoAssumption DEF Thread
  <2>3. todo' = [todo EXCEPT ![main] = r, ![s] = l]
    BY <1>4
  <2>4. Covered(main, r)
    BY <1>2
  <2> HIDE DEF l, r
  <2> QED
    BY <1>1, <1>4, <2>1, <2>2, <2>3, <2>4 DEF CaughtInv
<1> QED
  BY <1>3, <1>4 DEF Started, Continue

LEMMA CaughtStopping ==
  ASSUME CaughtInv, Stopping
  PROVE  (\A u \in Thread : Covered(u, todo'[u])) /\ node' = node
<1> DEFINE a == IF state_ = "RUNNING" THEN <<Set("OPENED"), Do("join")>> ELSE <<>>
<1>1. /\ At(main, "doStop") /\ main \in Thread /\ Covered(main, todo[main]) /\ TurnInv
      /\ Goto(main, a \o Rest(main)) /\ node' = node
  BY DEF Stopping, CaughtInv, Thread
<1>2. Rest(main) \in Seq(Item) /\ Covered(main, Rest(main))
  BY <1>1, HeadIs
<1>3. a \in Seq(Item)
  <2>1. Set("OPENED") \in Item /\ Do("join") \in Item
    BY InBase, MainDeep DEF Item, MainItem, StartItem
  <2> QED
    BY <2>1, Two, EmptyIn
<1>4. AllBare(main, a)
  <2>1. Plain(main, Set("OPENED")) /\ Plain(main, Do("join"))
    BY QuietPlain DEF Quiet
  <2> QED
    BY <2>1, TwoPlain, NothingPlain, BareAll
<1> HIDE DEF a
<1>5. Covered(main, a \o Rest(main))
  BY <1>2, <1>3, <1>4, CoveredCat
<1> QED
  BY <1>1, <1>5, OneGoes

LEMMA CaughtGiven ==
  ASSUME CaughtInv, NEW l \in Seq(WalkItem), Give(l)
  PROVE  \A u \in Thread : Covered(u, todo'[u])
<1>1. Goto(main, l) /\ Covered(main, l) /\ main \in Thread
  BY WalksBare DEF Give, Goto, Thread
<1> QED
  BY <1>1, OneGoes

LEMMA CaughtRequest ==
  ASSUME CaughtInv, (\E new \in Configs : Reconfigure(new)) \/ SelfTest \/ Shutdown
  PROVE  (\A u \in Thread : Covered(u, todo'[u])) /\ node' = node
<1>1. ASSUME NEW l \in Seq(WalkItem), Request(l)
      PROVE  (\A u \in Thread : Covered(u, todo'[u])) /\ node' = node
  BY <1>1, CaughtGiven DEF Request
<1>2. goTo(state_) \in Seq(WalkItem) /\ goTo("OPENED") \in Seq(WalkItem)
  BY Goes DEF CaughtInv, TurnInv, States
<1>3. ASSUME NEW new \in Configs, Reconfigure(new)
      PROVE  (\A u \in Thread : Covered(u, todo'[u])) /\ node' = node
  <2> DEFINE a == IF state_ = "CLOSED" THEN <<>> ELSE goTo(Level(new))
  <2>1. a \in Seq(WalkItem)
    BY Goes, EmptyIn DEF Level
  <2>2. <<Update(new)>> \in Seq(WalkItem)
    BY HokuyoAssumption, Goes DEF Config
  <2>3. Request(a \o <<Update(new)>> \o goTo(state_))
    BY <1>3 DEF Reconfigure, Update
  <2> HIDE DEF a
  <2>4. a \o <<Update(new)>> \o goTo(state_) \in Seq(WalkItem)
    BY <1>2, <2>1, <2>2, Cat
  <2> QED
    BY <1>1, <2>3, <2>4
<1>4. CASE SelfTest
  <2>1. goTo("OPENED") \o <<If("OPENED", OpenedTests)>> \o goTo(state_) \in Seq(WalkItem)
    BY <1>2, Goes, Cat
  <2> QED
    BY <1>1, <1>4, <2>1 DEF SelfTest
<1>5. CASE Shutdown
  <2>1. goClosed \o <<Do("exit")>> \in Seq(WalkItem)
    BY Goes, Cat
  <2> QED
    BY <1>1, <1>5, <2>1 DEF Shutdown
<1> QED
  BY <1>3, <1>4, <1>5

(* What ends the node but its shutdown is a probe. *)
ProbeEnds == node' = node \/ node' = "ended" \/ Head(todo[main]) \in Probes

LEMMA CaughtNext ==
  ASSUME CaughtInv, [Next]_vars
  PROVE  (\A u \in Thread : Covered(u, todo'[u])) /\ ProbeEnds
<1>1. ASSUME NEW t \in Thread, Step(t)
      PROVE  (\A u \in Thread : Covered(u, todo'[u])) /\ ProbeEnds
  <2>1. Caught(t)
    BY <1>1, CaughtSteps DEF CaughtInv
  <2>2. PICK l : /\ Goto(t, l) /\ Covered(t, l)
                 /\ node' = node \/ (t = main /\ Head(todo[main]) \in Probes)
    BY <2>1 DEF Caught
  <2> QED
    BY <2>2, OneGoes DEF ProbeEnds
<1>2. CASE Join
  <2>1. /\ At(main, "join") /\ Goto(main, Rest(main)) /\ node' = node /\ main \in Thread
        /\ Covered(main, todo[main]) /\ TurnInv
    BY <1>2 DEF Join, Continue, CaughtInv, Thread
  <2>2. Covered(main, Rest(main))
    BY <2>1, HeadIs
  <2> QED
    BY <2>1, <2>2, OneGoes DEF ProbeEnds
<1>3. CASE Spin
  <2>1. Give(goRunning) /\ node' = node /\ goRunning \in Seq(WalkItem)
    BY <1>3, Goes DEF Spin
  <2> QED
    BY <2>1, CaughtGiven DEF ProbeEnds
<1>4. CASE Exit
  BY <1>4, OneGoes, NothingPlain DEF Exit, Thread, ProbeEnds
<1>5. CASE MainStep
  BY <1>1, <1>2, <1>3, <1>4, <1>5, CaughtStarted, CaughtStopping DEF MainStep, Thread, ProbeEnds
<1>6. CASE Scan \/ Fault \/ Plug \/ UNCHANGED vars
  BY <1>6 DEF Scan, Fault, Plug, vars, CaughtInv, ProbeEnds
<1>7. CASE (\E new \in Configs : Reconfigure(new)) \/ SelfTest \/ Shutdown
  BY <1>7, CaughtRequest DEF ProbeEnds
<1>8. CASE \E s \in Threads : Step(s)
  BY <1>1, <1>8 DEF Thread
<1> QED
  BY <1>5, <1>6, <1>7, <1>8 DEF Next

LEMMA CaughtNextInv == CaughtInv /\ [Next]_vars => CaughtInv'
BY CaughtNext, TurnStep DEF CaughtInv

(* A step after which a node that was up is dead was a failed probe.       *)
OnlyProbes ==
  node = "up" /\ node' = "dead" =>
    /\ Head(todo[main]).do \in {"send", "read"}
    /\ Head(todo[main]).cmd \in {"MDp", "M"}

LEMMA CaughtEnds == CaughtInv /\ [Next]_vars => OnlyProbes
<1> SUFFICES ASSUME CaughtInv, [Next]_vars, node = "up", node' = "dead"
             PROVE  /\ Head(todo[main]).do \in {"send", "read"}
                    /\ Head(todo[main]).cmd \in {"MDp", "M"}
  BY DEF OnlyProbes
<1>1. Head(todo[main]) \in Probes
  BY CaughtNext DEF ProbeEnds
<1> QED
  BY <1>1 DEF Probes, Send, Wait, Read

(* Unplugging, garbled, lost and refused lines, timeouts, in any number    *)
(* and at any point of any call, do not end the node: every exception has  *)
(* a catch waiting, but that of the second probe for intensities, whose    *)
(* own handler is what fails (isIntensitySupported).                       *)
THEOREM FailuresAreCaught == Spec => Survives
<1>1. Spec => []CaughtInv
  BY CaughtInit, CaughtNextInv, PTL DEF Spec
<1>2. Survives <=> [][OnlyProbes]_vars
  BY DEF Survives, OnlyProbes
<1>3. CaughtInv /\ [Next]_vars => [OnlyProbes]_vars
  BY CaughtEnds
<1> QED
  BY <1>1, <1>2, <1>3, PTL DEF Spec

-----------------------------------------------------------------------------
(* What is computed from the lines: functions of a recursion over places,  *)
(* so a proof first says what such a function is at each place.            *)

(* Upwards from 0: what holds there and goes on holds at every place. *)
LEMMA Upwards ==
  ASSUME NEW n \in Nat, NEW T, 0 \in T, \A i \in 1 .. n : i - 1 \in T => i \in T
  PROVE  \A i \in 0 .. n : i \in T
<1> DEFINE U == {i \in 0 .. n : i \notin T}
<1> SUFFICES ASSUME U # {} PROVE FALSE
  OBVIOUS
<1>0. U \subseteq Nat
  OBVIOUS
<1>1. PICK i \in U : \A k \in U : <<k, i>> \notin OpToRel(<, Nat)
  <2> HIDE DEF U
  <2> QED
    BY <1>0, NatLessThanWellFounded, WFMin
<1>2. i \in 0 .. n /\ i \notin T /\ i # 0
  BY <1>1
<1>3. i - 1 \in 0 .. n /\ i - 1 \notin U
  <2>1. i - 1 \in Nat /\ i \in Nat /\ i - 1 < i /\ i - 1 \in 0 .. n
    BY <1>2
  <2>2. <<i - 1, i>> \in OpToRel(<, Nat)
    BY <2>1 DEF OpToRel
  <2> QED
    BY <1>1, <2>1, <2>2
<1> QED
  BY <1>2, <1>3

(* Sum, readData and ReadTimes: the value after each place.                *)
SumsOf(s, f) ==
  /\ Sum(s) = f[Len(s)] /\ f[0] = 0
  /\ \A i \in 1 .. Len(s) : f[i] = f[i - 1] + s[i]

LEMMA SumIs == ASSUME NEW s, Len(s) \in Nat PROVE \E f : SumsOf(s, f)
<1> DEFINE n == Len(s)
           Made(f, k) == f = [i \in 0 .. k |-> IF i = 0 THEN 0 ELSE f[i - 1] + s[i]]
           T == {k \in 0 .. n : \E f : Made(f, k)}
<1>1. 0 \in T
  <2>1. Made([i \in 0 .. 0 |-> 0], 0)
    OBVIOUS
  <2> HIDE DEF Made
  <2>2. \E f : Made(f, 0)
    BY <2>1
  <2> QED
    BY <2>2
<1>2. ASSUME NEW k \in 1 .. n, k - 1 \in T PROVE k \in T
  <2>1. PICK f : Made(f, k - 1)
    BY <1>2
  <2> DEFINE h == [i \in 0 .. k |-> IF i = k THEN f[k - 1] + s[k] ELSE f[i]]
  <2>2. Made(h, k)
    BY <1>2, <2>1
  <2> HIDE DEF Made, h
  <2>3. \E g : Made(g, k)
    BY <2>2
  <2> QED
    BY <1>2, <2>3
<1>3. n \in T
  <2> HIDE DEF T
  <2>1. \A i \in 0 .. n : i \in T
    BY <1>1, <1>2, Upwards
  <2> QED
    BY <2>1
<1> DEFINE c == CHOOSE f : Made(f, n)
<1>4. Made(c, n)
  BY <1>3
<1>5. Sum(s) = c[n]
  BY DEF Sum
<1> HIDE DEF c
<1>6. c[0] = 0 /\ \A i \in 1 .. n : c[i] = c[i - 1] + s[i]
  BY <1>4
<1> QED
  BY <1>5, <1>6 DEF SumsOf

ReadsOf(s, has_intensity, utm, f) ==
  /\ readData(s, has_intensity, utm) = f[Len(s)] /\ f[0] = NothingRead
  /\ \A i \in 1 .. Len(s) : f[i] = ReadLine(f[i - 1], s[i], DataSize(has_intensity), utm)

LEMMA ReadIs ==
  ASSUME NEW s, Len(s) \in Nat, NEW has_intensity, NEW utm
  PROVE  \E f : ReadsOf(s, has_intensity, utm, f)
<1> DEFINE n == Len(s)
           d == DataSize(has_intensity)
           Made(f, k) == f = [i \in 0 .. k |-> IF i = 0 THEN NothingRead
                                               ELSE ReadLine(f[i - 1], s[i], d, utm)]
           T == {k \in 0 .. n : \E f : Made(f, k)}
<1>1. 0 \in T
  <2>1. Made([i \in 0 .. 0 |-> NothingRead], 0)
    OBVIOUS
  <2> HIDE DEF Made
  <2>2. \E f : Made(f, 0)
    BY <2>1
  <2> QED
    BY <2>2
<1>2. ASSUME NEW k \in 1 .. n, k - 1 \in T PROVE k \in T
  <2>1. PICK f : Made(f, k - 1)
    BY <1>2
  <2> DEFINE h == [i \in 0 .. k |-> IF i = k THEN ReadLine(f[k - 1], s[k], d, utm) ELSE f[i]]
  <2>2. Made(h, k)
    <3>1. ASSUME NEW i \in 0 .. k
          PROVE  h[i] = IF i = 0 THEN NothingRead ELSE ReadLine(h[i - 1], s[i], d, utm)
      <4>1. CASE i = 0
        BY <1>2, <2>1, <4>1
      <4>2. CASE i = k
        <5>1. h[i - 1] = f[k - 1] /\ h[i] = ReadLine(f[k - 1], s[k], d, utm) /\ i # 0
          BY <1>2, <4>2
        <5> QED
          BY <4>2, <5>1
      <4>3. CASE i # 0 /\ i # k
        <5>1. i \in 0 .. k - 1 /\ i - 1 \in 0 .. k /\ i - 1 # k
          BY <1>2, <4>3
        <5>2. h[i] = f[i] /\ h[i - 1] = f[i - 1]
          BY <4>3, <5>1
        <5>3. f[i] = ReadLine(f[i - 1], s[i], d, utm)
          <6> HIDE DEF h
          <6> QED
            BY <2>1, <4>3, <5>1
        <5> QED
          BY <4>3, <5>2, <5>3
      <4> QED
        BY <4>1, <4>2, <4>3
    <3> QED
      BY <3>1
  <2> HIDE DEF Made, h
  <2>3. \E g : Made(g, k)
    BY <2>2
  <2> QED
    BY <1>2, <2>3
<1>3. n \in T
  <2> HIDE DEF T
  <2>1. \A i \in 0 .. n : i \in T
    BY <1>1, <1>2, Upwards
  <2> QED
    BY <2>1
<1> DEFINE c == CHOOSE f : Made(f, n)
<1>4. Made(c, n)
  BY <1>3
<1>5. readData(s, has_intensity, utm) = c[n]
  BY DEF readData
<1> HIDE DEF c
<1>6. c[0] = NothingRead /\ \A i \in 1 .. n : c[i] = ReadLine(c[i - 1], s[i], d, utm)
  BY <1>4
<1> QED
  BY <1>5, <1>6 DEF ReadsOf

TimesOf(s, f) ==
  /\ ReadTimes(s) = f[Len(s)] /\ f[0] = [now |-> 0, clock |-> ClockReset]
  /\ \A i \in 1 .. Len(s) : f[i] = TimeRead(f[i - 1], s[i])

LEMMA TimesAre == ASSUME NEW s, Len(s) \in Nat PROVE \E f : TimesOf(s, f)
<1> DEFINE n == Len(s)
           b == [now |-> 0, clock |-> ClockReset]
           Made(f, k) == f = [i \in 0 .. k |-> IF i = 0 THEN b ELSE TimeRead(f[i - 1], s[i])]
           T == {k \in 0 .. n : \E f : Made(f, k)}
<1>1. 0 \in T
  <2>1. Made([i \in 0 .. 0 |-> b], 0)
    OBVIOUS
  <2> HIDE DEF Made
  <2>2. \E f : Made(f, 0)
    BY <2>1
  <2> QED
    BY <2>2
<1>0. b = [now |-> 0, clock |-> ClockReset]
  OBVIOUS
<1> HIDE DEF b
<1>2. ASSUME NEW k \in 1 .. n, k - 1 \in T PROVE k \in T
  <2>1. PICK f : Made(f, k - 1)
    BY <1>2
  <2> DEFINE h == [i \in 0 .. k |-> IF i = k THEN TimeRead(f[k - 1], s[k]) ELSE f[i]]
  <2>2. Made(h, k)
    <3>1. ASSUME NEW i \in 0 .. k
          PROVE  h[i] = IF i = 0 THEN b ELSE TimeRead(h[i - 1], s[i])
      <4>1. CASE i = 0
        BY <1>2, <2>1, <4>1
      <4>2. CASE i = k
        <5>1. h[i - 1] = f[k - 1] /\ h[i] = TimeRead(f[k - 1], s[k]) /\ i # 0
          BY <1>2, <4>2
        <5> QED
          BY <4>2, <5>1
      <4>3. CASE i # 0 /\ i # k
        <5>1. i \in 0 .. k - 1 /\ i - 1 \in 0 .. k /\ i - 1 # k
          BY <1>2, <4>3
        <5>2. h[i] = f[i] /\ h[i - 1] = f[i - 1]
          BY <4>3, <5>1
        <5>3. f[i] = TimeRead(f[i - 1], s[i])
          <6> HIDE DEF h
          <6> QED
            BY <2>1, <4>3, <5>1
        <5> QED
          BY <4>3, <5>2, <5>3
      <4> QED
        BY <4>1, <4>2, <4>3
    <3> QED
      BY <3>1
  <2> HIDE DEF Made, h
  <2>3. \E g : Made(g, k)
    BY <2>2
  <2> QED
    BY <1>2, <2>3
<1>3. n \in T
  <2> HIDE DEF T
  <2>1. \A i \in 0 .. n : i \in T
    BY <1>1, <1>2, Upwards
  <2> QED
    BY <2>1
<1> DEFINE c == CHOOSE f : Made(f, n)
<1>4. Made(c, n)
  BY <1>3
<1>5. ReadTimes(s) = c[n]
  BY DEF ReadTimes, b
<1> HIDE DEF c
<1>6. c[0] = b /\ \A i \in 1 .. n : c[i] = TimeRead(c[i - 1], s[i])
  BY <1>4
<1> QED
  BY <1>0, <1>5, <1>6 DEF TimesOf
-----------------------------------------------------------------------------
(* The clock: quotients are found by their remainders, and m is never      *)
(* given a value, so each product is named before it is calculated with.   *)

LEMMA DivMod ==
  ASSUME NEW n \in Int, NEW m \in Nat \ {0}
  PROVE  n % m \in 0 .. m - 1 /\ n \div m \in Int /\ n = m * (n \div m) + (n % m)
OBVIOUS

LEMMA OneQuotient ==
  ASSUME NEW m \in Nat \ {0}, NEW q \in Int, NEW p \in Int,
         NEW r \in 0 .. m - 1, NEW s \in 0 .. m - 1, m * q + r = m * p + s
  PROVE  q = p /\ r = s
<1>1. CASE q < p
  <2>1. m * (p - q) >= m
    BY <1>1
  <2>2. m * (p - q) = m * p - m * q
    OBVIOUS
  <2> QED
    BY <2>1, <2>2
<1>2. CASE p < q
  <2>1. m * (q - p) >= m
    BY <1>2
  <2>2. m * (q - p) = m * q - m * p
    OBVIOUS
  <2> QED
    BY <2>1, <2>2
<1> QED
  BY <1>1, <1>2

LEMMA Remainder ==
  ASSUME NEW m \in Nat \ {0}, NEW q \in Int, NEW r \in 0 .. m - 1
  PROVE  (m * q + r) % m = r /\ (m * q + r) \div m = q
<1> DEFINE n == m * q + r
<1>1. n \in Int
  OBVIOUS
<1>2. n % m \in 0 .. m - 1 /\ n \div m \in Int /\ n = m * (n \div m) + (n % m)
  BY <1>1, DivMod
<1> QED
  BY <1>2, OneQuotient


(* The clock read after each step is the time that passed, or was stopped. *)
Told(r) ==
  /\ r.now \in Nat
  /\ \/ r.clock.repeated
     \/ /\ r.clock.last_time_ \in 0 .. ClockSpan - 1 /\ r.clock.wrapped_ \in Nat
        /\ r.now = ClockSpan * r.clock.wrapped_ + r.clock.last_time_

LEMMA ToldOn ==
  ASSUME NEW r, Told(r), NEW d \in 0 .. ClockSpan - 1
  PROVE  Told(TimeRead(r, d))
<1> DEFINE m == ClockSpan
           l == r.clock.last_time_
           w == r.clock.wrapped_
           t == (r.now + d) % m
           x == TimeRead(r, d)
<1>0. m \in Nat \ {0} /\ r.now \in Nat /\ d \in Nat /\ d < m
  BY DataAssumption DEF Told
<1>1. x.now = r.now + d
  BY DEF TimeRead
<1>2. CASE r.clock.repeated
  <2>1. x.clock = r.clock
    BY <1>2 DEF TimeRead
  <2> QED
    BY <1>0, <1>1, <1>2, <2>1 DEF Told
<1>3. CASE ~r.clock.repeated
  <2>1. l \in 0 .. m - 1 /\ w \in Nat /\ r.now = m * w + l
    BY <1>3 DEF Told
  <2>2. x.clock = readTime(r.clock, t)
    BY <1>3 DEF TimeRead
  <2>3. \/ x.clock.repeated
        \/ x.clock.last_time_ = t /\ x.clock.wrapped_ = w + (IF t < l THEN 1 ELSE 0)
    BY <2>2 DEF readTime
  <2> HIDE DEF x, t, m
  <2>a. \A q \in Int, s \in 0 .. m - 1 : (m * q + s) % m = s
    BY <1>0, Remainder
  <2>b. w \in Int /\ w + 1 \in Int
    BY <2>1
  <2>4. CASE l + d < m
    <3>1. r.now + d = m * w + (l + d) /\ l + d \in 0 .. m - 1
      BY <1>0, <2>1, <2>4
    <3>2. (m * w + (l + d)) % m = l + d
      BY <2>a, <2>b, <3>1, Zenon
    <3>3. t = l + d
      BY <3>1, <3>2 DEF t
    <3>4. x.clock.repeated \/ (x.clock.last_time_ = l + d /\ x.clock.wrapped_ = w)
      BY <1>0, <2>1, <2>3, <3>3
    <3> QED
      BY <1>0, <1>1, <2>1, <3>1, <3>4 DEF Told, m, x
  <2>5. CASE l + d >= m
    <3>0. m * (w + 1) = m * w + m
      BY <1>0, <2>1
    <3>1. r.now + d = m * (w + 1) + (l + d - m) /\ l + d - m \in 0 .. m - 1 /\ w + 1 \in Nat
      <4>1. l + d - m \in 0 .. m - 1
        BY <1>0, <2>1, <2>5
      <4>2. PICK p : p = m * w
        OBVIOUS
      <4>3. p \in Int
        BY <1>0, <2>1, <4>2
      <4>4. r.now = p + l /\ m * (w + 1) = p + m
        BY <2>1, <3>0, <4>2
      <4>5. r.now + d = (p + m) + (l + d - m)
        BY <1>0, <2>1, <4>3, <4>4
      <4> QED
        BY <2>1, <4>1, <4>4, <4>5
    <3>2. (m * (w + 1) + (l + d - m)) % m = l + d - m
      BY <2>a, <2>b, <3>1, Zenon
    <3>3. t = l + d - m
      BY <3>1, <3>2 DEF t
    <3>4. x.clock.repeated \/ (x.clock.last_time_ = l + d - m /\ x.clock.wrapped_ = w + 1)
      BY <1>0, <2>1, <2>3, <3>3
    <3> QED
      BY <1>0, <1>1, <2>1, <3>1, <3>4 DEF Told, m, x
  <2> QED
    BY <1>0, <2>1, <2>4, <2>5
<1> QED
  BY <1>2, <1>3

LEMMA ClockTrue == ClockUnwraps
<1> SUFFICES ASSUME NEW steps \in SampleSteps
             PROVE  ReadTimes(steps).clock.repeated
                    \/ Stamp(ReadTimes(steps).clock) = ReadTimes(steps).now
  BY DEF ClockUnwraps
<1> DEFINE n == Len(steps)
<1>1. n \in Nat /\ \A i \in 1 .. n : steps[i] \in 0 .. ClockSpan - 1
  BY SampleAssumption, LenProperties, ElementOfSeq
<1>2. PICK f : TimesOf(steps, f)
  BY <1>1, TimesAre
<1>3. /\ ReadTimes(steps) = f[n] /\ f[0] = [now |-> 0, clock |-> ClockReset]
      /\ \A i \in 1 .. n : f[i] = TimeRead(f[i - 1], steps[i])
  BY <1>2 DEF TimesOf
<1> HIDE DEF n
<1> DEFINE T == {i \in 0 .. n : Told(f[i])}
<1>4. 0 \in T
  <2>1. ClockSpan \in Nat \ {0} /\ ClockSpan * 0 + 0 = 0
    BY DataAssumption
  <2>2. Told(f[0])
    BY <1>3, <2>1 DEF Told, ClockReset
  <2> QED
    BY <1>1, <2>2
<1>5. ASSUME NEW i \in 1 .. n, i - 1 \in T PROVE i \in T
  <2>1. Told(f[i - 1])
    BY <1>5
  <2>2. Told(f[i])
    BY <1>1, <1>3, <2>1, ToldOn
  <2> QED
    BY <1>1, <2>2
<1>6. Told(f[n])
  <2>1. n \in T
    <3> HIDE DEF T
    <3>1. \A i \in 0 .. n : i \in T
      BY <1>1, <1>4, <1>5, Upwards
    <3> QED
      BY <1>1, <3>1
  <2> QED
    BY <2>1
<1>7. \A w \in Nat : ClockSpan * w = w * ClockSpan
  BY DataAssumption
<1> QED
  BY <1>3, <1>6, <1>7 DEF Told, Stamp

-----------------------------------------------------------------------------
-----------------------------------------------------------------------------
(* The readings.  Parts of the scan's characters c are spoken of by where  *)
(* they begin and end in c, so that a line, what is left over and what a   *)
(* reading is made of can be compared.                                     *)

Digit == 0 .. Radix - 1
Sizes == {3, 6}

(* s is what c has from its a-th to its b-th character. *)
PartOf(c, a, b, s) ==
  s \in Seq(Digit) /\ Len(s) = b + 1 - a /\ \A i \in 1 .. b + 1 - a : s[i] = c[a - 1 + i]

LEMMA PartIs ==
  ASSUME NEW c \in Seq(Digit), NEW a \in Nat \ {0}, NEW b \in 0 .. Len(c), a <= b + 1
  PROVE  PartOf(c, a, b, SubSeq(c, a, b))
<1> DEFINE s == SubSeq(c, a, b)
<1>1. Len(c) \in Nat /\ \A i \in a .. b : c[i] \in Digit
  BY LenProperties, ElementOfSeq
<1>2. /\ s \in Seq(Digit) /\ Len(s) = IF a <= b THEN b - a + 1 ELSE 0
      /\ \A i \in 1 .. b - a + 1 : s[i] = c[a + i - 1]
  BY <1>1, SubSeqProperties
<1> HIDE DEF s
<1>3. Len(s) = b + 1 - a /\ b - a + 1 = b + 1 - a
  BY <1>1, <1>2
<1>4. \A i \in 1 .. b + 1 - a : a + i - 1 = a - 1 + i
  BY <1>1
<1> QED
  BY <1>2, <1>3, <1>4 DEF PartOf, s

LEMMA PartsMeet ==
  ASSUME NEW c, NEW a \in Nat \ {0}, NEW b \in Nat, NEW e \in Nat, a <= b + 1, b <= e,
         NEW s, NEW t, PartOf(c, a, b, s), PartOf(c, b + 1, e, t)
  PROVE  PartOf(c, a, e, s \o t)
<1> DEFINE r == s \o t
<1>1. /\ s \in Seq(Digit) /\ Len(s) = b + 1 - a /\ t \in Seq(Digit) /\ Len(t) = e - b
  BY DEF PartOf
<1>2. /\ \A i \in 1 .. b + 1 - a : s[i] = c[a - 1 + i]
      /\ \A i \in 1 .. e - b : t[i] = c[b + i]
  BY DEF PartOf
<1>3. /\ r \in Seq(Digit) /\ Len(r) = Len(s) + Len(t)
      /\ \A i \in 1 .. Len(s) + Len(t) : r[i] = IF i <= Len(s) THEN s[i] ELSE t[i - Len(s)]
  BY <1>1, ConcatProperties
<1> HIDE DEF r
<1>4. Len(r) = e + 1 - a
  BY <1>1, <1>3
<1>5. ASSUME NEW i \in 1 .. e + 1 - a PROVE r[i] = c[a - 1 + i]
  <2>1. i \in 1 .. Len(s) + Len(t)
    BY <1>1
  <2>2. CASE i <= Len(s)
    <3>1. r[i] = s[i] /\ i \in 1 .. b + 1 - a
      BY <1>1, <1>3, <2>1, <2>2
    <3> QED
      BY <1>2, <3>1
  <2>3. CASE i > Len(s)
    <3>1. PICK j : j = i - Len(s)
      OBVIOUS
    <3>2. j \in 1 .. e - b /\ b + j = a - 1 + i
      BY <1>1, <2>3, <3>1
    <3>3. r[i] = t[j]
      BY <1>1, <1>3, <2>1, <2>3, <3>1
    <3> QED
      BY <1>2, <3>2, <3>3
  <2> QED
    BY <1>1, <2>2, <2>3
<1> QED
  BY <1>3, <1>4, <1>5 DEF PartOf, r

LEMMA PartTail ==
  ASSUME NEW c, NEW a \in Nat \ {0}, NEW b \in Nat, a <= b + 1, NEW s, PartOf(c, a, b, s),
         NEW x \in 0 .. Len(s)
  PROVE  PartOf(c, a + x, b, SubSeq(s, x + 1, Len(s)))
<1> DEFINE n == Len(s)
           t == SubSeq(s, x + 1, n)
<1>1. s \in Seq(Digit) /\ n = b + 1 - a /\ \A i \in 1 .. n : s[i] = c[a - 1 + i]
  BY DEF PartOf
<1>2. n \in Nat /\ x \in Nat /\ x <= n /\ \A i \in x + 1 .. n : s[i] \in Digit
  BY <1>1, ElementOfSeq
<1>3. /\ t \in Seq(Digit) /\ Len(t) = IF x + 1 <= n THEN n - (x + 1) + 1 ELSE 0
      /\ \A i \in 1 .. n - (x + 1) + 1 : t[i] = s[x + 1 + i - 1]
  BY <1>2, SubSeqProperties
<1> HIDE DEF n, t
<1>4. Len(t) = b + 1 - (a + x)
  BY <1>1, <1>2, <1>3
<1>5. ASSUME NEW i \in 1 .. b + 1 - (a + x) PROVE t[i] = c[a + x - 1 + i]
  <2>1. PICK j : j = x + 1 + i - 1
    OBVIOUS
  <2>2. j \in 1 .. n /\ a - 1 + j = a + x - 1 + i /\ i \in 1 .. n - (x + 1) + 1
    BY <1>1, <1>2, <2>1
  <2> QED
    BY <1>1, <1>3, <2>1, <2>2
<1> QED
  BY <1>3, <1>4, <1>5 DEF PartOf, n, t

(* The k-th reading that the scanner measured. *)
Reading(c, k, d, utm) == ReadingAt(c, (k - 1) * d + 1, d, utm)
Readings(c, d, utm) == {Reading(c, k, d, utm) : k \in Nat}

(* Cut from s, which begins after the q-th reading of c, are m more.       *)
CutInto(c, d, utm, q, b, s, t, m) ==
  /\ m \in Nat /\ d * m <= Len(s) /\ Whole(s, d) = d * m /\ b \div d = q + m
  /\ t \in Seq(Readings(c, d, utm)) /\ Len(t) = m
  /\ \A k \in 1 .. m : t[k] = Reading(c, q + k, d, utm)

LEMMA CutIs ==
  ASSUME NEW c, NEW d \in Sizes, NEW utm, NEW q \in Nat, NEW b \in Nat, b >= d * q,
         NEW s, PartOf(c, d * q + 1, b, s)
  PROVE  CutInto(c, d, utm, q, b, s, Cut(s, d, utm), Len(s) \div d)
<1> DEFINE t == Cut(s, d, utm)
           m == Len(s) \div d
<1>1. Len(s) = b - d * q /\ Len(s) \in Nat /\ \A i \in 1 .. Len(s) : s[i] = c[d * q + i]
  BY DEF PartOf, Sizes
<1>2. /\ m \in Nat /\ d * m <= Len(s) /\ Whole(s, d) = d * m /\ Whole(s, d) \div d = m
      /\ b \div d = q + m
  BY <1>1 DEF Whole, Sizes
<1>3. t = [k \in 1 .. m |-> ReadingAt(s, (k - 1) * d + 1, d, utm)]
  BY <1>2 DEF Cut
<1> HIDE DEF m, t
<1>4. ASSUME NEW k \in 1 .. m
      PROVE  ReadingAt(s, (k - 1) * d + 1, d, utm) = Reading(c, q + k, d, utm)
  <2>1. PICK j \in Nat, a \in Nat : j = (k - 1) * d + 1 /\ a = d * q
    BY <1>2 DEF Sizes
  <2>2. a + j = (q + k - 1) * d + 1 /\ \A i \in j .. j + d - 1 : i \in 1 .. Len(s)
    <3>1. CASE d = 3
      BY <1>1, <1>2, <2>1, <3>1
    <3>2. CASE d = 6
      BY <1>1, <1>2, <2>1, <3>2
    <3> QED
      BY <3>1, <3>2 DEF Sizes
  <2>3. \A i \in j .. j + d - 1 : s[i] = c[a + i]
    BY <1>1, <2>1, <2>2
  <2>4. s[j] = c[a + j] /\ s[j + 1] = c[a + j + 1] /\ s[j + 2] = c[a + j + 2]
    BY <2>3 DEF Sizes
  <2>5. Number(s, j) = Number(c, a + j)
    BY <2>4, Zenon DEF Number
  <2>6. ASSUME d = 6 PROVE Number(s, j + 3) = Number(c, a + j + 3)
    <3>1. /\ s[j + 3] = c[a + j + 3] /\ s[j + 4] = c[a + j + 4]
          /\ s[j + 5] = c[a + j + 5]
          /\ j + 3 + 1 = j + 4 /\ j + 3 + 2 = j + 5
          /\ a + j + 3 + 1 = a + j + 4 /\ a + j + 3 + 2 = a + j + 5
      BY <2>3, <2>6
    <3> QED
      BY <3>1, Zenon DEF Number
  <2>7. ReadingAt(s, j, d, utm) = ReadingAt(c, a + j, d, utm)
    <3>1. CASE d = 6
      BY <2>5, <2>6, <3>1, Zenon DEF ReadingAt
    <3>2. CASE d # 6
      BY <2>5, <3>2, Zenon DEF ReadingAt
    <3> QED
      BY <3>1, <3>2
  <2> QED
    BY <2>1, <2>2, <2>7 DEF Reading
<1>5. \A k \in 1 .. m : Reading(c, q + k, d, utm) \in Readings(c, d, utm)
  <2>1. \A k \in 1 .. m : q + k \in Nat
    BY <1>2
  <2> QED
    BY <2>1, Zenon DEF Readings
<1>6. t = [k \in 1 .. m |-> Reading(c, q + k, d, utm)]
  BY <1>3, <1>4, Zenon
<1>7. t \in Seq(Readings(c, d, utm))
  BY <1>2, <1>5, <1>6, IsASeq
<1>8. Len(t) = m
  BY <1>2, <1>6, <1>7, LenProperties
<1>9. \A k \in 1 .. m : t[k] = Reading(c, q + k, d, utm)
  BY <1>6
<1> QED
  BY <1>2, <1>7, <1>8, <1>9 DEF m, t, CutInto

(* After the first p characters the whole readings among them are there,   *)
(* and the rest is left over.                                              *)
Got(c, d, utm, p, g) ==
  /\ g \in [corrupted : BOOLEAN, readings : Seq(Readings(c, d, utm)), left : Seq(Digit)]
  /\ ~g.corrupted
  /\ Len(g.readings) = p \div d /\ \A k \in 1 .. p \div d : g.readings[k] = Reading(c, k, d, utm)
  /\ PartOf(c, d * (p \div d) + 1, p, g.left)

LEMMA GotOn ==
  ASSUME NEW c \in Seq(Digit), Len(c) <= 3 * MaxReadings, NEW d \in Sizes, NEW utm,
         NEW p \in Nat, NEW b \in Nat, p <= b, b <= Len(c),
         NEW g, Got(c, d, utm, p, g), NEW l, PartOf(c, p + 1, b, l.chars), checkSum(l)
  PROVE  Got(c, d, utm, b, ReadLine(g, l, d, utm))
<1> DEFINE R == Readings(c, d, utm)
           q == p \div d
           x == g.left \o l.chars
           m == Len(x) \div d
           t == Cut(x, d, utm)
           r == g.readings \o t
           w == SubSeq(x, Whole(x, d) + 1, Len(x))
           h == ReadLine(g, l, d, utm)
<1>0. Len(c) \in Nat /\ MaxReadings \in Nat
  BY LenProperties, DataAssumption
<1>1. q \in Nat /\ d * q <= p /\ d * q \in Nat /\ p < d * q + d
  BY DEF Sizes
<1>2. /\ g \in [corrupted : BOOLEAN, readings : Seq(R), left : Seq(Digit)] /\ ~g.corrupted
      /\ Len(g.readings) = q /\ \A k \in 1 .. q : g.readings[k] = Reading(c, k, d, utm)
      /\ PartOf(c, d * q + 1, p, g.left)
  BY DEF Got
<1> HIDE DEF q, R
<1>3. PartOf(c, d * q + 1, b, x)
  BY <1>1, <1>2, PartsMeet
<1> HIDE DEF x
<1>4. /\ m \in Nat /\ d * m <= Len(x) /\ Whole(x, d) = d * m /\ b \div d = q + m
      /\ t \in Seq(R) /\ Len(t) = m /\ \A k \in 1 .. m : t[k] = Reading(c, q + k, d, utm)
  <2>1. b >= d * q
    BY <1>1
  <2>2. CutInto(c, d, utm, q, b, x, t, m)
    BY <1>1, <1>3, <2>1, CutIs
  <2> HIDE DEF m, t
  <2> QED
    BY <2>2 DEF CutInto, R
<1> HIDE DEF m, t
<1>5. /\ r \in Seq(R) /\ Len(r) = q + m
      /\ \A k \in 1 .. q + m : r[k] = IF k <= q THEN g.readings[k] ELSE t[k - q]
  <2>1. PICK y \in Seq(R) : y = g.readings
    BY <1>2
  <2>2. /\ y \o t \in Seq(R) /\ Len(y \o t) = Len(y) + Len(t)
        /\ \A k \in 1 .. Len(y) + Len(t) :
             (y \o t)[k] = IF k <= Len(y) THEN y[k] ELSE t[k - Len(y)]
    BY <1>4, ConcatProperties
  <2>3. r = y \o t /\ Len(y) = q /\ Len(t) = m
    BY <1>2, <1>4, <2>1
  <2> HIDE DEF r
  <2> QED
    BY <2>1, <2>2, <2>3
<1> HIDE DEF r
<1>6. \A k \in 1 .. q + m : r[k] = Reading(c, k, d, utm)
  <2> SUFFICES ASSUME NEW k \in 1 .. q + m PROVE r[k] = Reading(c, k, d, utm)
    OBVIOUS
  <2>1. CASE k <= q
    BY <1>1, <1>2, <1>5, <2>1
  <2>2. CASE k > q
    <3>1. PICK j : j = k - q
      OBVIOUS
    <3>2. j \in 1 .. m /\ q + j = k
      BY <1>1, <1>4, <2>2, <3>1
    <3>3. r[k] = t[j]
      BY <1>1, <1>5, <2>2, <3>1
    <3> QED
      BY <1>4, <3>2, <3>3
  <2> QED
    BY <1>1, <2>1, <2>2
<1>7. Len(x) = b - d * q /\ x \in Seq(Digit)
  BY <1>1, <1>3 DEF PartOf
<1>8. PartOf(c, d * (q + m) + 1, b, w)
  <2>1. d * m \in 0 .. Len(x) /\ d * q + 1 \in Nat \ {0} /\ d * q + 1 <= b + 1
    BY <1>1, <1>4, <1>7 DEF Sizes
  <2>2. PICK y : y = d * m
    OBVIOUS
  <2>3. PartOf(c, d * q + 1 + y, b, SubSeq(x, y + 1, Len(x)))
    <3>1. y \in 0 .. Len(x)
      BY <2>1, <2>2
    <3> HIDE <2>2
    <3> QED
      BY <1>3, <2>1, <3>1, PartTail
  <2>4. d * q + 1 + y = d * (q + m) + 1
    BY <1>1, <1>4, <2>2 DEF Sizes
  <2>5. w = SubSeq(x, y + 1, Len(x))
    BY <1>4, <2>2, Zenon
  <2> QED
    BY <2>3, <2>4, <2>5
<1>9. ~(Len(r) > MaxReadings)
  BY <1>0, <1>1, <1>4, <1>5, <1>7 DEF Sizes
<1>10. h = [g EXCEPT !.readings = r, !.left = w]
  BY <1>2, <1>9, Zenon DEF ReadLine, x, t, r
<1> HIDE DEF w, h
<1>11. /\ h.corrupted = g.corrupted /\ h.readings = r /\ h.left = w
       /\ h \in [corrupted : BOOLEAN, readings : Seq(R), left : Seq(Digit)]
  <2>1. w \in Seq(Digit)
    BY <1>8 DEF PartOf
  <2> QED
    BY <1>2, <1>5, <1>10, <2>1
<1> QED
  BY <1>2, <1>4, <1>5, <1>6, <1>8, <1>11 DEF Got, R, h

-----------------------------------------------------------------------------
(* The lines: the i-th begins after what the ones before it hold.         *)
Upto(c, i) == IF i * LineSize < Len(c) THEN i * LineSize ELSE Len(c)
LineSet == [chars : Seq(Digit), sum : Int]

LEMMA SumIn == ASSUME NEW s \in Seq(Nat) PROVE Sum(s) \in Nat
<1>1. Len(s) \in Nat /\ \A i \in 1 .. Len(s) : s[i] \in Nat
  BY LenProperties, ElementOfSeq
<1>2. PICK f : SumsOf(s, f)
  BY <1>1, SumIs
<1> DEFINE n == Len(s)
           T == {i \in 0 .. n : f[i] \in Nat}
<1>3. n \in Nat /\ Sum(s) = f[n] /\ f[0] = 0 /\ \A i \in 1 .. n : f[i] = f[i - 1] + s[i] /\ s[i] \in Nat
  BY <1>1, <1>2 DEF SumsOf
<1> HIDE DEF n
<1>4. 0 \in T /\ \A i \in 1 .. n : i - 1 \in T => i \in T
  <2>1. 0 \in T
    BY <1>3
  <2>2. ASSUME NEW i \in 1 .. n, i - 1 \in T PROVE i \in T
    <3>1. f[i - 1] \in Nat
      BY <2>2
    <3>2. f[i] = f[i - 1] + s[i] /\ s[i] \in Nat /\ i \in 0 .. n
      BY <1>3
    <3>3. f[i] \in Nat
      BY <3>1, <3>2
    <3> QED
      BY <3>2, <3>3
  <2> QED
    BY <2>1, <2>2
<1>5. n \in T
  <2> HIDE DEF T
  <2>1. \A i \in 0 .. n : i \in T
    BY <1>3, <1>4, Upwards
  <2> QED
    BY <1>3, <2>1
<1> QED
  BY <1>3, <1>5

LEMMA LinesAre ==
  ASSUME NEW c \in Seq(Digit)
  PROVE  /\ Lines(c) \in Seq(LineSet)
         /\ Len(Lines(c)) \in Nat /\ Upto(c, 0) = 0 /\ Upto(c, Len(Lines(c))) = Len(c)
         /\ \A i \in 1 .. Len(Lines(c)) :
              /\ Upto(c, i - 1) \in Nat /\ Upto(c, i) \in Nat
              /\ Upto(c, i - 1) < Upto(c, i) /\ Upto(c, i) <= Len(c)
              /\ checkSum(Lines(c)[i])
              /\ PartOf(c, Upto(c, i - 1) + 1, Upto(c, i), Lines(c)[i].chars)
<1> DEFINE n == Len(c)
           z == LineSize
           v == (n + z - 1) \div z
           P(i) == SubSeq(c, i * z - z + 1, IF i * z < n THEN i * z ELSE n)
<1>0. n \in Nat /\ z \in Nat \ {0} /\ Radix \in Nat \ {0}
  BY LenProperties, DataAssumption
<1>1. Lines(c) = [i \in 1 .. v |-> Line(P(i))]
  BY DEF Lines
<1>2. v \in Int /\ z * v <= n + z - 1 /\ n + z - 1 < z * v + z
  <2>1. n + z - 1 \in Int
    BY <1>0
  <2>2. /\ (n + z - 1) % z \in 0 .. z - 1 /\ v \in Int
        /\ n + z - 1 = z * v + ((n + z - 1) % z)
    BY <1>0, <2>1, DivMod
  <2> HIDE DEF v
  <2>3. PICK e \in Int : e = z * v
    BY <1>0, <2>2
  <2> QED
    BY <1>0, <2>2, <2>3
<1> HIDE DEF n, z, v
<1>3. v \in Nat
  <2> SUFFICES ASSUME v <= 0 - 1 PROVE FALSE
    BY <1>2
  <2>1. z * v <= 0 - z
    BY <1>0, <1>2
  <2>2. PICK e \in Int : e = z * v
    BY <1>0, <1>2
  <2> QED
    BY <1>0, <1>2, <2>1, <2>2
<1>4. v * z >= n /\ \A i \in 1 .. v : i * z - z \in Nat /\ i * z - z < n /\ i * z \in Nat /\ (i - 1) * z = i * z - z
  <2>1. z * v = v * z
    BY <1>0, <1>3
  <2>2. v * z \in Int
    BY <1>0, <1>3
  <2>3. v * z >= n
    BY <1>0, <1>2, <2>1, <2>2
  <2>4. ASSUME NEW i \in 1 .. v
        PROVE  i * z - z \in Nat /\ i * z - z < n /\ i * z \in Nat /\ (i - 1) * z = i * z - z
    <3>1. i * z <= v * z /\ i * z >= z /\ i * z \in Int
      BY <1>0, <1>3
    <3>2. (i - 1) * z = i * z - z
      BY <1>0, <1>3
    <3>3. PICK e \in Int, h \in Int : e = i * z /\ h = v * z
      BY <2>2, <3>1
    <3> QED
      BY <1>0, <1>2, <2>1, <3>1, <3>2, <3>3
  <2> QED
    BY <2>3, <2>4
<1>5. Upto(c, 0) = 0 /\ Upto(c, v) = n
  BY <1>0, <1>3, <1>4 DEF Upto, n, z
<1>6. ASSUME NEW i \in 1 .. v
      PROVE  /\ Upto(c, i - 1) \in Nat /\ Upto(c, i) \in Nat /\ Upto(c, i - 1) < Upto(c, i)
             /\ Upto(c, i) <= n
             /\ PartOf(c, Upto(c, i - 1) + 1, Upto(c, i), P(i))
  <2>1. PICK e \in Nat : e = i * z /\ e - z \in Nat /\ e - z < n /\ (i - 1) * z = e - z
    BY <1>4
  <2>2. Upto(c, i - 1) = e - z /\ Upto(c, i) = IF e < n THEN e ELSE n
    BY <2>1 DEF Upto, n, z
  <2>3. P(i) = SubSeq(c, (e - z) + 1, Upto(c, i))
    BY <2>1, <2>2 DEF Upto, n, z
  <2>4. /\ Upto(c, i - 1) \in Nat /\ Upto(c, i) \in Nat /\ Upto(c, i - 1) < Upto(c, i)
        /\ Upto(c, i) <= n
    BY <1>0, <2>1, <2>2
  <2>5. /\ e - z + 1 \in Nat \ {0} /\ Upto(c, i) \in 0 .. Len(c) /\ e - z + 1 <= Upto(c, i) + 1
    BY <1>0, <2>1, <2>2, <2>4 DEF n
  <2>6. PartOf(c, e - z + 1, Upto(c, i), SubSeq(c, e - z + 1, Upto(c, i)))
    BY <2>5, PartIs
  <2> QED
    BY <2>2, <2>3, <2>4, <2>6
<1>7. ASSUME NEW i \in 1 .. v
      PROVE  Line(P(i)) \in LineSet /\ checkSum(Line(P(i))) /\ Line(P(i)).chars = P(i)
  <2>1. P(i) \in Seq(Digit)
    BY <1>6 DEF PartOf
  <2> HIDE DEF P
  <2>2. P(i) \in Seq(Nat)
    <3>1. Digit \subseteq Nat
      BY <1>0 DEF Digit
    <3>2. Len(P(i)) \in Nat /\ P(i) = [j \in 1 .. Len(P(i)) |-> P(i)[j]]
          /\ \A j \in 1 .. Len(P(i)) : P(i)[j] \in Nat
      BY <2>1, <3>1, LenProperties, ElementOfSeq
    <3> QED
      BY <3>2, IsASeq
  <2>3. Sum(P(i)) \in Nat
    BY <2>2, SumIn
  <2> QED
    BY <1>0, <2>1, <2>3 DEF Line, LineSet, checkSum
<1>8. Lines(c) \in Seq(LineSet)
  <2> DEFINE Q(i) == Line(P(i))
  <2>1. \A i \in 1 .. v : Q(i) \in LineSet
    BY <1>7
  <2>2. Lines(c) = [i \in 1 .. v |-> Q(i)]
    BY <1>1
  <2> HIDE DEF Q
  <2> QED
    BY <1>3, <2>1, <2>2, IsASeq
<1>9. Len(Lines(c)) = v /\ \A i \in 1 .. v : Lines(c)[i] = Line(P(i))
  BY <1>1, <1>3, <1>8, LenProperties
<1> QED
  BY <1>3, <1>5, <1>6, <1>7, <1>8, <1>9 DEF n

(* Every reading of a scan arrives. *)
LEMMA Reads ==
  ASSUME NEW c \in Seq(Digit), Len(c) <= 3 * MaxReadings, NEW intensity \in BOOLEAN, NEW utm
  PROVE  /\ ~readData(Lines(c), intensity, utm).corrupted
         /\ readData(Lines(c), intensity, utm).readings = Cut(c, DataSize(intensity), utm)
<1> DEFINE l == Lines(c)
           v == Len(l)
           d == DataSize(intensity)
           R == Readings(c, d, utm)
<1>0. d \in Sizes
  BY DEF DataSize, Sizes
<1>1. /\ v \in Nat /\ Upto(c, 0) = 0 /\ Upto(c, v) = Len(c)
      /\ \A i \in 1 .. v :
           /\ Upto(c, i - 1) \in Nat /\ Upto(c, i) \in Nat
           /\ Upto(c, i - 1) < Upto(c, i) /\ Upto(c, i) <= Len(c)
           /\ checkSum(l[i])
           /\ PartOf(c, Upto(c, i - 1) + 1, Upto(c, i), l[i].chars)
  BY LinesAre
<1>2. PICK f : ReadsOf(l, intensity, utm, f)
  BY <1>1, ReadIs
<1>3. /\ readData(l, intensity, utm) = f[v] /\ f[0] = NothingRead
      /\ \A i \in 1 .. v : f[i] = ReadLine(f[i - 1], l[i], d, utm)
  BY <1>2 DEF ReadsOf
<1> HIDE DEF d, l, v
<1> DEFINE T == {i \in 0 .. v : Got(c, d, utm, Upto(c, i), f[i])}
<1>4. 0 \in T
  <2>1. 0 \div d = 0 /\ d * 0 + 1 = 1
    BY <1>0 DEF Sizes
  <2>2. <<>> \in Seq(R) /\ <<>> \in Seq(Digit) /\ Len(<<>>) = 0
    OBVIOUS
  <2>3. PartOf(c, 1, 0, <<>>)
    BY <2>2 DEF PartOf
  <2>4. Got(c, d, utm, 0, NothingRead)
    BY <2>1, <2>2, <2>3 DEF Got, NothingRead
  <2> QED
    BY <1>1, <1>3, <2>4
<1>5. ASSUME NEW i \in 1 .. v, i - 1 \in T PROVE i \in T
  <2>1. PICK p \in Nat, b \in Nat : p = Upto(c, i - 1) /\ b = Upto(c, i)
    BY <1>1
  <2>2. /\ p <= b /\ b <= Len(c) /\ checkSum(l[i]) /\ PartOf(c, p + 1, b, l[i].chars)
        /\ p \in Nat /\ b \in Nat
    BY <1>1, <2>1
  <2>3. Got(c, d, utm, p, f[i - 1])
    BY <1>5, <2>1
  <2>4. Got(c, d, utm, b, ReadLine(f[i - 1], l[i], d, utm))
    BY <1>0, <2>2, <2>3, GotOn
  <2> QED
    BY <1>1, <1>3, <2>1, <2>4
<1>6. Got(c, d, utm, Len(c), f[v])
  <2>1. v \in T
    <3> HIDE DEF T
    <3>1. \A i \in 0 .. v : i \in T
      BY <1>1, <1>4, <1>5, Upwards
    <3> QED
      BY <1>1, <3>1
  <2> QED
    BY <1>1, <2>1
<1>7. f[v].readings = Cut(c, d, utm)
  <2> DEFINE t == Cut(c, d, utm)
             m == Len(c) \div d
  <2>1. Len(c) \in Nat /\ d * 0 + 1 = 1 /\ Len(c) >= d * 0 /\ \A i \in 1 .. Len(c) : 1 - 1 + i = i
    BY <1>0, LenProperties DEF Sizes
  <2>2. PartOf(c, d * 0 + 1, Len(c), c)
    BY <2>1 DEF PartOf
  <2>3. CutInto(c, d, utm, 0, Len(c), c, t, m)
    BY <1>0, <2>1, <2>2, CutIs
  <2>a. m \in Nat
    BY <2>3 DEF CutInto
  <2>4. /\ t \in Seq(R) /\ Len(t) = m /\ \A k \in 1 .. m : t[k] = Reading(c, 0 + k, d, utm)
    BY <2>3 DEF CutInto
  <2>5. /\ f[v].readings \in Seq(R) /\ Len(f[v].readings) = m
        /\ \A k \in 1 .. m : f[v].readings[k] = Reading(c, k, d, utm)
    BY <1>6 DEF Got
  <2> HIDE DEF t, m, R
  <2>6. \A k \in 1 .. m : 0 + k = k
    BY <2>a
  <2>7. PICK r : r = f[v].readings
    OBVIOUS
  <2>8. r \in Seq(R) /\ Len(r) = Len(t) /\ \A k \in 1 .. Len(r) : r[k] = t[k]
    BY <2>4, <2>5, <2>6, <2>7
  <2>9. r = t
    BY <2>4, <2>8, SeqEqual
  <2> QED
    BY <2>7, <2>9 DEF t
<1> QED
  BY <1>3, <1>6, <1>7 DEF Got, l, d

(* One character more or less shows in the sum. *)
LEMMA SumShows ==
  ASSUME NEW s \in Seq(Digit), Len(s) >= 1, NEW e \in 1 .. Radix - 1,
         NEW t, t = [s EXCEPT ![1] = (s[1] + e) % Radix]
  PROVE  t \in Seq(Digit) /\ Sum(t) % Radix # Sum(s) % Radix
<1> DEFINE n == Len(s)
           a == s[1]
           x == (a + e) % Radix
<1>0. Radix \in Nat \ {0} /\ Digit \subseteq Nat
  BY DataAssumption DEF Digit
<1>1. n \in Nat /\ n >= 1 /\ 1 \in 1 .. n /\ a \in Digit /\ \A i \in 1 .. n : s[i] \in Digit
  BY LenProperties, ElementOfSeq
<1>a. t = [s EXCEPT ![1] = x]
  OBVIOUS
<1> HIDE DEF a
<1>b. a \in Nat /\ a < Radix /\ e \in Nat /\ e >= 1 /\ e < Radix
  BY <1>0, <1>1 DEF Digit
<1>c. \A w \in Int, z \in 0 .. Radix - 1 : (Radix * w + z) % Radix = z
  BY <1>0, Remainder
<1>2. x \in Digit /\ (x = a + e \/ x = a + e - Radix)
  <2>0. Radix * 0 = 0 /\ Radix * 1 = Radix
    BY <1>0
  <2>1. CASE a + e < Radix
    <3>0. a + e \in 0 .. Radix - 1
      BY <1>0, <1>b, <2>1
    <3>1. (Radix * 0 + (a + e)) % Radix = a + e
      BY <1>c, <3>0
    <3>2. Radix * 0 + (a + e) = a + e
      BY <1>b, <2>0
    <3> QED
      BY <3>0, <3>1, <3>2 DEF Digit
  <2>2. CASE a + e >= Radix
    <3>0. a + e - Radix \in 0 .. Radix - 1
      BY <1>0, <1>b, <2>2
    <3>1. (Radix * 1 + (a + e - Radix)) % Radix = a + e - Radix
      BY <1>c, <3>0
    <3>2. Radix * 1 + (a + e - Radix) = a + e
      BY <1>0, <1>b, <2>0
    <3> QED
      BY <3>0, <3>1, <3>2 DEF Digit
  <2> QED
    BY <1>0, <1>b, <2>1, <2>2
<1>d. x \in Nat
  BY <1>0, <1>2
<1> HIDE DEF x
<1>3. t \in Seq(Digit) /\ Len(t) = n /\ t[1] = x /\ \A i \in 2 .. n : t[i] = s[i]
  <2>1. t = [s EXCEPT ![1] = x]
    BY <1>a
  <2>2. /\ [s EXCEPT ![1] = x] \in Seq(Digit) /\ Len([s EXCEPT ![1] = x]) = Len(s)
        /\ \A j \in 1 .. Len(s) : [s EXCEPT ![1] = x][j] = IF j = 1 THEN x ELSE s[j]
    BY <1>1, <1>2, ExceptSeq
  <2>3. \A j \in 1 .. n : t[j] = IF j = 1 THEN x ELSE s[j]
    BY <2>1, <2>2
  <2> QED
    BY <1>1, <2>1, <2>2, <2>3
<1> HIDE DEF n
<1>4. Sum(s) \in Nat /\ Sum(t) = Sum(s) + x - a
  <2>1. PICK f : SumsOf(s, f)
    BY <1>1, SumIs DEF n
  <2>2. PICK h : SumsOf(t, h)
    BY <1>1, <1>3, SumIs
  <2>3. Sum(s) = f[n] /\ f[0] = 0 /\ \A i \in 1 .. n : f[i] = f[i - 1] + s[i]
    BY <2>1 DEF SumsOf, n
  <2>4. Sum(t) = h[n] /\ h[0] = 0 /\ \A i \in 1 .. n : h[i] = h[i - 1] + t[i]
    BY <1>3, <2>2 DEF SumsOf
  <2> DEFINE T == {i \in 0 .. n : f[i] \in Nat /\ h[i] = f[i] + (IF i = 0 THEN 0 ELSE x - a)}
  <2>5. 0 \in T
    BY <1>1, <2>3, <2>4
  <2>6. ASSUME NEW i \in 1 .. n, i - 1 \in T PROVE i \in T
    <3>1. /\ f[i - 1] \in Nat /\ h[i - 1] = f[i - 1] + (IF i - 1 = 0 THEN 0 ELSE x - a)
      BY <2>6
    <3>2. f[i] = f[i - 1] + s[i] /\ h[i] = h[i - 1] + t[i] /\ s[i] \in Nat /\ i \in 0 .. n
      <4>1. s[i] \in Nat
        BY <1>0, <1>1
      <4> QED
        BY <1>1, <2>3, <2>4, <4>1
    <3>3. f[i] \in Nat /\ a \in Nat /\ x \in Nat /\ n \in Nat
      BY <1>1, <1>b, <1>d, <3>1, <3>2
    <3>4. CASE i = 1
      <4>1. s[i] = a /\ t[i] = x /\ h[i - 1] = f[i - 1]
        BY <1>3, <3>1, <3>4 DEF a
      <4>2. h[i] = f[i] + (x - a)
        BY <3>1, <3>2, <3>3, <4>1
      <4> QED
        BY <3>2, <3>3, <3>4, <4>2
    <3>5. CASE i # 1
      <4>1. t[i] = s[i] /\ h[i - 1] = f[i - 1] + (x - a)
        BY <1>3, <3>1, <3>3, <3>5
      <4>2. h[i] = f[i] + (x - a)
        BY <3>1, <3>2, <3>3, <4>1
      <4> QED
        BY <3>2, <3>3, <4>2
    <3> QED
      BY <3>4, <3>5
  <2>7. n \in T
    <3> HIDE DEF T
    <3>1. \A i \in 0 .. n : i \in T
      BY <1>1, <2>5, <2>6, Upwards
    <3> QED
      BY <1>1, <3>1
  <2>8. f[n] \in Nat /\ h[n] = f[n] + (x - a)
    BY <1>1, <2>7
  <2>9. a \in Nat /\ x \in Nat
    BY <1>b, <1>d
  <2> QED
    BY <2>3, <2>4, <2>8, <2>9
<1>5. PICK y \in Nat : y = Sum(s)
  BY <1>4
<1>6. Sum(t) % Radix # y % Radix
  <2> DEFINE q == y \div Radix
             r == y % Radix
  <2>1. q \in Int /\ r \in 0 .. Radix - 1 /\ y = Radix * q + r
    <3>1. y \in Int
      BY <1>5
    <3>2. y % Radix \in 0 .. Radix - 1 /\ y \div Radix \in Int
          /\ y = Radix * (y \div Radix) + (y % Radix)
      BY <1>0, <3>1, DivMod, Zenon
    <3> QED
      BY <3>2
  <2> HIDE DEF q, r
  <2>2. Sum(t) = y + e \/ Sum(t) = y + e - Radix
    BY <1>0, <1>2, <1>4, <1>5, <1>b, <1>d
  <2>4. Radix * (q + 1) = Radix * q + Radix /\ Radix * (q - 1) = Radix * q - Radix
    BY <1>0, <2>1
  <2>5. PICK w \in {q - 1, q, q + 1}, z \in 0 .. Radix - 1 : Sum(t) = Radix * w + z /\ z # r
    <3>1. PICK u \in Int : u = Radix * q
      BY <1>0, <2>1
    <3>2. CASE r + e < Radix
      <4>1. Sum(t) = u + (r + e) \/ Sum(t) = u - Radix + (r + e)
        BY <1>0, <1>b, <2>1, <2>2, <3>1
      <4>2. r + e \in 0 .. Radix - 1 /\ r + e # r
        BY <1>0, <1>b, <2>1, <3>2
      <4> QED
        BY <2>4, <3>1, <4>1, <4>2
    <3>3. CASE r + e >= Radix
      <4>1. Sum(t) = u + Radix + (r + e - Radix) \/ Sum(t) = u + (r + e - Radix)
        BY <1>0, <1>b, <2>1, <2>2, <3>1
      <4>2. r + e - Radix \in 0 .. Radix - 1 /\ r + e - Radix # r
        BY <1>0, <1>b, <2>1, <3>3
      <4> QED
        BY <2>4, <3>1, <4>1, <4>2
    <3>4. r + e < Radix \/ r + e >= Radix
      BY <1>0, <1>b, <2>1
    <3> QED
      BY <3>2, <3>3, <3>4, Zenon
  <2>6. w \in Int
    BY <2>1, <2>5
  <2>7. Sum(t) % Radix = z
    BY <1>c, <2>5, <2>6, Zenon
  <2> QED
    BY <2>5, <2>7 DEF r
<1> QED
  BY <1>3, <1>5, <1>6

(* A line with a character changed spoils the scan. *)
LEMMA Noticed ==
  ASSUME NEW c \in Seq(Digit), NEW intensity, NEW utm,
         NEW i \in 1 .. Len(Lines(c)), NEW e \in 1 .. Radix - 1
  PROVE  readData(Spoilt(Lines(c), i, e), intensity, utm).corrupted
<1> DEFINE l == Lines(c)
           v == Len(l)
           k == [l[i].chars EXCEPT ![1] = (l[i].chars[1] + e) % Radix]
           x == [l[i] EXCEPT !.chars = k]
           s == Spoilt(l, i, e)
           d == DataSize(intensity)
<1>1. l \in Seq(LineSet) /\ v \in Nat /\ l[i] \in LineSet
  BY LinesAre, ElementOfSeq
<1>2. /\ Upto(c, i - 1) \in Nat /\ Upto(c, i) \in Nat /\ Upto(c, i - 1) < Upto(c, i)
      /\ checkSum(l[i]) /\ PartOf(c, Upto(c, i - 1) + 1, Upto(c, i), l[i].chars)
  BY LinesAre
<1>3. l[i].chars \in Seq(Digit) /\ Len(l[i].chars) >= 1
  BY <1>2 DEF PartOf
<1>4. k \in Seq(Digit) /\ Sum(k) % Radix # Sum(l[i].chars) % Radix
  BY <1>3, SumShows
<1>5. s = [l EXCEPT ![i] = x]
  BY DEF Spoilt
<1> HIDE DEF k, l, v
<1>6. x \in LineSet /\ x.chars = k /\ x.sum = l[i].sum
  BY <1>1, <1>4 DEF LineSet
<1>7. ~checkSum(x)
  BY <1>2, <1>4, <1>6 DEF checkSum
<1> HIDE DEF x, s
<1>8. Len(s) = v /\ s[i] = x /\ i \in 1 .. v
  <2>1. /\ Len([l EXCEPT ![i] = x]) = Len(l)
        /\ \A j \in 1 .. Len(l) : [l EXCEPT ![i] = x][j] = IF j = i THEN x ELSE l[j]
    BY <1>1, <1>6, ExceptSeq DEF l
  <2> QED
    BY <1>5, <2>1 DEF v, l
<1>9. PICK f : ReadsOf(s, intensity, utm, f)
  BY <1>1, <1>8, ReadIs
<1>10. /\ readData(s, intensity, utm) = f[v] /\ f[0] = NothingRead
       /\ \A j \in 1 .. v : f[j] = ReadLine(f[j - 1], s[j], d, utm)
  BY <1>8, <1>9 DEF ReadsOf
<1> HIDE DEF d
(* A record of what has been read stays one. *)
<1>11. \A g, y : DOMAIN g = {"corrupted", "readings", "left"} =>
          /\ DOMAIN ReadLine(g, y, d, utm) = {"corrupted", "readings", "left"}
          /\ g.corrupted \/ ~checkSum(y) => ReadLine(g, y, d, utm).corrupted
  BY DEF ReadLine
<1> DEFINE P(j) == /\ DOMAIN f[j] = {"corrupted", "readings", "left"}
                   /\ j >= i => f[j].corrupted
           T == {j \in 0 .. v : P(j)}
<1>12. 0 \in T
  BY <1>1, <1>8, <1>10 DEF NothingRead
<1> HIDE DEF P
<1>13. ASSUME NEW j \in 1 .. v, j - 1 \in T PROVE j \in T
  <2>0. P(j - 1) /\ j \in 0 .. v
    BY <1>1, <1>13
  <2> HIDE DEF T
  <2>1. /\ f[j] = ReadLine(f[j - 1], s[j], d, utm)
        /\ DOMAIN f[j - 1] = {"corrupted", "readings", "left"}
        /\ j - 1 >= i => f[j - 1].corrupted
    BY <1>10, <2>0, Zenon DEF P
  <2>2. DOMAIN f[j] = {"corrupted", "readings", "left"}
        /\ (f[j - 1].corrupted \/ ~checkSum(s[j]) => f[j].corrupted)
    BY <1>11, <2>1
  <2>3. j >= i => f[j].corrupted
    <3>1. j >= i => j - 1 >= i \/ j = i
      BY <1>1, <1>8
    <3> QED
      BY <1>7, <1>8, <2>1, <2>2, <3>1, Zenon
  <2>4. P(j)
    BY <2>2, <2>3, Zenon DEF P
  <2> QED
    BY <2>0, <2>4, Zenon DEF T
<1>14. f[v].corrupted
  <2>1. v \in T
    <3> HIDE DEF T
    <3>1. \A j \in 0 .. v : j \in T
      BY <1>1, <1>12, <1>13, Upwards
    <3> QED
      BY <1>1, <3>1
  <2>2. P(v)
    BY <2>1, Zenon DEF T
  <2>3. v >= i
    BY <1>1, <1>8
  <2> QED
    BY <2>2, <2>3, Zenon DEF P
<1> QED
  BY <1>10, <1>14 DEF s, l

LEMMA ScansTrue == ScanArrives
<1> SUFFICES ASSUME NEW chars \in SampleData, NEW intensity \in BOOLEAN, NEW utm \in BOOLEAN
    PROVE  LET got == readData(Lines(chars), intensity, utm)
           IN  /\ ~got.corrupted
               /\ got.readings = Cut(chars, DataSize(intensity), utm)
               /\ \A i \in 1..Len(Lines(chars)), c \in 1..(Radix - 1) :
                    readData(Spoilt(Lines(chars), i, c), intensity, utm).corrupted
  BY DEF ScanArrives
<1>1. chars \in Seq(Digit) /\ Len(chars) <= 3 * MaxReadings
  BY SampleAssumption DEF Digit
<1> QED
  BY <1>1, Reads, Noticed

(* A scan arrives as the scanner sent it, whatever the radix, the length   *)
(* of a line and the scan, as long as it is no longer than MAX_READINGS    *)
(* allows: wherever a line cuts a reading, with its own intensity; the     *)
(* first character of a line changed is noticed.  And the stamp of a clock *)
(* that wraps is the time that passed (readData, checkSum, readTime).      *)
THEOREM DataIsTrue == Spec => []DataTrue
<1>1. DataTrue
  BY ScansTrue, ClockTrue DEF DataTrue
<1> QED
  BY <1>1, PTL

-----------------------------------------------------------------------------
(* What a list goes on with: its first thing, and where exceptions land.   *)

(* A list taken apart at its first thing.                                  *)
Then(x, r) == <<x>> \o r

(* Where the list goes on after an exception.                              *)
Landing(l, kind) ==
  IF CatchAt(l) = 0 THEN <<>> ELSE l[CatchAt(l)][kind] \o Beyond(l)

Kinds == {"other", "corrupted"}

LEMMA ThenIs ==
  ASSUME NEW S, NEW x, NEW r \in Seq(S)
  PROVE  /\ Then(x, r) # <<>> /\ Head(Then(x, r)) = x /\ Tail(Then(x, r)) = r
         /\ Then(x, r) \in Seq(S \cup {x}) /\ Len(Then(x, r)) = Len(r) + 1
         /\ Then(x, r)[1] = x /\ Len(r) \in Nat
<1> DEFINE T == S \cup {x}
           l == <<x>> \o r
<1>1. <<x>> \in Seq(T) /\ Len(<<x>>) = 1 /\ <<x>>[1] = x
  OBVIOUS
<1>2. r \in Seq(T) /\ Len(r) \in Nat
  BY Wider, LenProperties
<1> HIDE DEF T
<1>3. /\ l \in Seq(T) /\ Len(l) = Len(<<x>>) + Len(r)
      /\ \A i \in 1 .. Len(<<x>>) + Len(r) :
           l[i] = IF i <= Len(<<x>>) THEN <<x>>[i] ELSE r[i - Len(<<x>>)]
  BY <1>1, <1>2, ConcatProperties
<1>4. Len(l) = Len(r) + 1 /\ l[1] = x /\ \A i \in 1..Len(r) : l[i + 1] = r[i]
  BY <1>1, <1>2, <1>3
<1> HIDE DEF l
<1>5. l # <<>>
  BY <1>2, <1>4, EmptySeq
<1>6. /\ Tail(l) \in Seq(T) /\ Len(Tail(l)) = Len(l) - 1 /\ Head(l) = l[1]
      /\ \A i \in 1..Len(Tail(l)) : Tail(l)[i] = l[i + 1]
  BY <1>3, <1>5, TailIs
<1>7. Len(Tail(l)) = Len(r) /\ \A i \in 1..Len(r) : Tail(l)[i] = r[i]
  BY <1>2, <1>4, <1>6
<1>8. Tail(l) = r
  BY <1>2, <1>6, <1>7, SeqEqual
<1> QED
  BY <1>2, <1>3, <1>4, <1>5, <1>6, <1>8 DEF Then, l, T

LEMMA CatchAtIs ==
  ASSUME NEW S, NEW l \in Seq(S)
  PROVE  /\ \A k \in 1..Len(l) :
              l[k].do = "catch" /\ (\A i \in 1..Len(l) : i < k => l[i].do # "catch")
                => CatchAt(l) = k
         /\ CatchAt(l) \in 0..Len(l)
         /\ CatchAt(l) # 0 => l[CatchAt(l)].do = "catch"
         /\ \A i \in 1..Len(l) : l[i].do = "catch" => CatchAt(l) # 0 /\ CatchAt(l) <= i
<1> DEFINE I == {i \in 1..Len(l) : l[i].do = "catch"}
<1>0. Len(l) \in Nat
  BY LenProperties
<1>1. CatchAt(l) = IF I # {} THEN Min(I) ELSE 0
  BY Zenon DEF CatchAt, SelectInSeq
<1>2. I \subseteq Nat
  BY <1>0
<1>3. ASSUME I # {} PROVE Min(I) \in I /\ \A i \in I : Min(I) <= i
  BY <1>2, <1>3, Least
<1>4. ASSUME NEW i \in 1..Len(l), l[i].do = "catch" PROVE CatchAt(l) # 0 /\ CatchAt(l) <= i
  <2>1. i \in I
    BY <1>4
  <2> QED
    BY <1>0, <1>1, <1>3, <2>1
<1>5. CatchAt(l) \in 0..Len(l) /\ (CatchAt(l) # 0 => l[CatchAt(l)].do = "catch")
  BY <1>0, <1>1, <1>3
<1>6. ASSUME NEW k \in 1..Len(l), l[k].do = "catch",
             \A i \in 1..Len(l) : i < k => l[i].do # "catch"
      PROVE  CatchAt(l) = k
  <2>1. CatchAt(l) # 0 /\ CatchAt(l) <= k
    BY <1>4, <1>6
  <2>2. CatchAt(l) \in 1..Len(l) /\ l[CatchAt(l)].do = "catch"
    BY <1>0, <1>5, <2>1
  <2> QED
    BY <1>6, <2>1, <2>2
<1> QED
  BY <1>4, <1>5, <1>6

LEMMA ThenAt ==
  ASSUME NEW S, NEW x, NEW r \in Seq(S), NEW i \in 1..Len(r)
  PROVE  Then(x, r)[i + 1] = r[i]
<1> DEFINE T == S \cup {x}
<1>1. <<x>> \in Seq(T) /\ Len(<<x>>) = 1 /\ <<x>>[1] = x
  OBVIOUS
<1>2. r \in Seq(T) /\ Len(r) \in Nat
  BY Wider, LenProperties
<1> HIDE DEF T
<1> QED
  BY <1>1, <1>2, ConcatProperties DEF Then

LEMMA LandingThen ==
  ASSUME NEW S, NEW x, NEW r \in Seq(S), NEW kind
  PROVE  /\ x.do = "catch" =>
              /\ CatchAt(Then(x, r)) = 1 /\ Beyond(Then(x, r)) = r
              /\ Landing(Then(x, r), kind) = x[kind] \o r
         /\ x.do # "catch" =>
              /\ Landing(Then(x, r), kind) = Landing(r, kind)
              /\ CatchAt(r) # 0 => Beyond(Then(x, r)) = Beyond(r)
<1> DEFINE l == Then(x, r)
           T == S \cup {x}
<1>1. /\ l \in Seq(T) /\ Len(l) = Len(r) + 1 /\ l[1] = x /\ Len(r) \in Nat /\ r \in Seq(T)
      /\ \A i \in 1..Len(r) : l[i + 1] = r[i]
  <2>1. l \in Seq(T) /\ Len(l) = Len(r) + 1 /\ l[1] = x /\ Len(r) \in Nat
    BY ThenIs
  <2>2. r \in Seq(T)
    BY Wider
  <2>3. \A i \in 1..Len(r) : l[i + 1] = r[i]
    BY ThenAt
  <2> QED
    BY <2>1, <2>2, <2>3
<1> HIDE DEF l, T
<1>2. ASSUME NEW k \in 0..Len(r)
      PROVE  SubSeq(l, k + 2, Len(l)) = SubSeq(r, k + 1, Len(r))
  <2> DEFINE u == SubSeq(l, (k + 1) + 1, Len(l))
             v == SubSeq(r, k + 1, Len(r))
  <2>1. k + 1 \in 0..Len(l)
    BY <1>1
  <2>2. /\ u \in Seq(T) /\ Len(u) = Len(l) - (k + 1)
        /\ \A i \in 1..Len(u) : i + (k + 1) \in 1..Len(l) /\ u[i] = l[i + (k + 1)]
    BY <1>1, <2>1, AfterIt
  <2>3. /\ v \in Seq(T) /\ Len(v) = Len(r) - k
        /\ \A i \in 1..Len(v) : i + k \in 1..Len(r) /\ v[i] = r[i + k]
    BY <1>1, AfterIt
  <2> HIDE DEF u, v
  <2>4. Len(u) = Len(v) /\ Len(u) \in Nat
    BY <1>1, <2>2, <2>3
  <2>5. ASSUME NEW i \in 1..Len(u) PROVE u[i] = v[i]
    <3>1. i + k \in 1..Len(r) /\ v[i] = r[i + k] /\ u[i] = l[i + (k + 1)] /\ i + (k + 1) = (i + k) + 1
      BY <2>2, <2>3, <2>4
    <3> QED
      BY <1>1, <3>1
  <2>6. u = v
    BY <2>2, <2>3, <2>4, <2>5, SeqEqual
  <2>7. (k + 1) + 1 = k + 2
    BY <1>1
  <2> QED
    BY <2>6, <2>7 DEF u, v
<1>3. ASSUME x.do = "catch"
      PROVE  CatchAt(l) = 1 /\ Beyond(l) = r /\ Landing(l, kind) = x[kind] \o r
  <2>1. 1 \in 1..Len(l) /\ l[1].do = "catch" /\ \A i \in 1..Len(l) : i < 1 => l[i].do # "catch"
    BY <1>1, <1>3
  <2>2. CatchAt(l) = 1
    BY <1>1, <2>1, CatchAtIs
  <2>3. SubSeq(l, 0 + 2, Len(l)) = SubSeq(r, 0 + 1, Len(r))
    BY <1>1, <1>2
  <2>4. SubSeq(r, 1, Len(r)) = r
    <3> DEFINE v == SubSeq(r, 0 + 1, Len(r))
    <3>1. /\ v \in Seq(T) /\ Len(v) = Len(r) - 0
          /\ \A i \in 1..Len(v) : i + 0 \in 1..Len(r) /\ v[i] = r[i + 0]
      BY <1>1, AfterIt
    <3> HIDE DEF v
    <3>2. Len(v) = Len(r) /\ \A i \in 1..Len(v) : v[i] = r[i]
      BY <1>1, <3>1
    <3>3. v = r
      BY <1>1, <3>1, <3>2, SeqEqual
    <3> QED
      BY <3>3 DEF v
  <2>5. Beyond(l) = r
    BY <2>2, <2>3, <2>4 DEF Beyond
  <2>6. Landing(l, kind) = l[CatchAt(l)][kind] \o Beyond(l)
    BY <2>2 DEF Landing
  <2>7. Landing(l, kind) = l[1][kind] \o r
    BY <2>2, <2>5, <2>6, Zenon
  <2> QED
    BY <1>1, <2>2, <2>5, <2>7, Zenon
<1>4. ASSUME x.do # "catch", CatchAt(r) = 0 PROVE CatchAt(l) = 0
  <2> SUFFICES ASSUME CatchAt(l) # 0 PROVE FALSE
    OBVIOUS
  <2>1. CatchAt(l) \in 1..Len(l) /\ l[CatchAt(l)].do = "catch"
    BY <1>1, CatchAtIs
  <2>2. CatchAt(l) # 1
    BY <1>1, <1>4, <2>1
  <2>3. CatchAt(l) - 1 \in 1..Len(r) /\ (CatchAt(l) - 1) + 1 = CatchAt(l)
    BY <1>1, <2>1, <2>2
  <2>4. r[CatchAt(l) - 1].do = "catch"
    BY <1>1, <2>1, <2>3
  <2> QED
    BY <1>1, <1>4, <2>3, <2>4, CatchAtIs
<1>5. ASSUME x.do # "catch", CatchAt(r) # 0
      PROVE  CatchAt(l) = CatchAt(r) + 1 /\ Beyond(l) = Beyond(r) /\ l[CatchAt(l)] = r[CatchAt(r)]
  <2> DEFINE k == CatchAt(r)
  <2>1. /\ k \in 1..Len(r) /\ r[k].do = "catch"
        /\ \A i \in 1..Len(r) : r[i].do = "catch" => k <= i
    BY <1>1, <1>5, CatchAtIs
  <2> HIDE DEF k
  <2>2. k + 1 \in 1..Len(l) /\ l[k + 1] = r[k]
    BY <1>1, <2>1
  <2>3. ASSUME NEW i \in 1..Len(l), i < k + 1 PROVE l[i].do # "catch"
    <3>1. CASE i = 1
      BY <1>1, <1>5, <3>1
    <3>2. CASE i # 1
      <4>1. i - 1 \in 1..Len(r) /\ (i - 1) + 1 = i /\ ~(k <= i - 1)
        BY <1>1, <2>1, <2>3, <3>2
      <4> QED
        BY <1>1, <2>1, <4>1
    <3> QED
      BY <3>1, <3>2
  <2>4. CatchAt(l) = k + 1
    BY <1>1, <2>1, <2>2, <2>3, CatchAtIs
  <2>5. SubSeq(l, k + 2, Len(l)) = SubSeq(r, k + 1, Len(r)) /\ (k + 1) + 1 = k + 2
    BY <1>1, <1>2, <2>1
  <2> QED
    BY <2>2, <2>4, <2>5 DEF Beyond, k
<1>6. CatchAt(r) + 1 # 0
  BY <1>1, CatchAtIs
<1> QED
  BY <1>3, <1>4, <1>5, <1>6 DEF l, Landing

LEMMA LandingEmpty == ASSUME NEW kind PROVE Landing(<<>>, kind) = <<>>
<1>1. CatchAt(<<>>) \in 0..Len(<<>>) /\ Len(<<>>) = 0
  BY EmptySeq, CatchAtIs
<1> QED
  BY <1>1 DEF Landing

LEMMA CatParts ==
  ASSUME NEW S, NEW a \in Seq(S), NEW b \in Seq(S)
  PROVE  /\ \A k \in 0..Len(a) :
              SubSeq(a \o b, k + 1, Len(a \o b)) = SubSeq(a, k + 1, Len(a)) \o b
         /\ \A k \in 0..Len(b) :
              SubSeq(a \o b, Len(a) + k + 1, Len(a \o b)) = SubSeq(b, k + 1, Len(b))
<1> DEFINE l == a \o b
<1>1. /\ l \in Seq(S) /\ Len(a) \in Nat /\ Len(b) \in Nat /\ Len(l) = Len(a) + Len(b)
      /\ \A i \in 1 .. Len(a) + Len(b) : l[i] = IF i <= Len(a) THEN a[i] ELSE b[i - Len(a)]
  BY LenProperties, ConcatProperties
<1> HIDE DEF l
<1>2. ASSUME NEW k \in 0..Len(a)
      PROVE  SubSeq(l, k + 1, Len(l)) = SubSeq(a, k + 1, Len(a)) \o b
  <2> DEFINE u == SubSeq(l, k + 1, Len(l))
             v == SubSeq(a, k + 1, Len(a))
             w == v \o b
  <2>1. k \in 0..Len(l)
    BY <1>1
  <2>2. /\ u \in Seq(S) /\ Len(u) = Len(l) - k
        /\ \A i \in 1..Len(u) : i + k \in 1..Len(l) /\ u[i] = l[i + k]
    BY <1>1, <2>1, AfterIt
  <2>3. /\ v \in Seq(S) /\ Len(v) = Len(a) - k
        /\ \A i \in 1..Len(v) : i + k \in 1..Len(a) /\ v[i] = a[i + k]
    BY <1>1, AfterIt
  <2> HIDE DEF u, v
  <2>4. /\ w \in Seq(S) /\ Len(w) = Len(v) + Len(b)
        /\ \A i \in 1 .. Len(v) + Len(b) : w[i] = IF i <= Len(v) THEN v[i] ELSE b[i - Len(v)]
    BY <2>3, ConcatProperties
  <2> HIDE DEF w
  <2>5. Len(u) = Len(w)
    BY <1>1, <2>2, <2>3, <2>4
  <2>6. ASSUME NEW i \in 1..Len(u) PROVE u[i] = w[i]
    <3>1. u[i] = l[i + k] /\ i + k \in 1 .. Len(a) + Len(b) /\ i \in 1 .. Len(v) + Len(b)
      BY <1>1, <2>2, <2>4, <2>5
    <3>2. CASE i <= Len(v)
      <4>1. i \in 1..Len(v) /\ i + k <= Len(a)
        BY <1>1, <2>3, <3>1, <3>2
      <4> QED
        BY <1>1, <2>3, <2>4, <3>1, <4>1
    <3>3. CASE ~(i <= Len(v))
      <4>1. ~(i + k <= Len(a)) /\ (i + k) - Len(a) = i - Len(v)
        BY <1>1, <2>3, <3>1, <3>3
      <4>2. l[i + k] = b[(i + k) - Len(a)] /\ w[i] = b[i - Len(v)]
        BY <1>1, <2>4, <3>1, <3>3, <4>1
      <4> QED
        BY <3>1, <4>1, <4>2
    <3> QED
      BY <3>2, <3>3
  <2> QED
    BY <2>2, <2>4, <2>5, <2>6, SeqEqual DEF u, v, w
<1>3. ASSUME NEW k \in 0..Len(b)
      PROVE  SubSeq(l, Len(a) + k + 1, Len(l)) = SubSeq(b, k + 1, Len(b))
  <2> DEFINE n == Len(a) + k
             u == SubSeq(l, n + 1, Len(l))
             v == SubSeq(b, k + 1, Len(b))
  <2>1. n \in 0..Len(l)
    BY <1>1
  <2>0. n = Len(a) + k
    OBVIOUS
  <2> HIDE DEF n
  <2>2. /\ u \in Seq(S) /\ Len(u) = Len(l) - n
        /\ \A i \in 1..Len(u) : i + n \in 1..Len(l) /\ u[i] = l[i + n]
    BY <1>1, <2>1, AfterIt
  <2>3. /\ v \in Seq(S) /\ Len(v) = Len(b) - k
        /\ \A i \in 1..Len(v) : i + k \in 1..Len(b) /\ v[i] = b[i + k]
    BY <1>1, AfterIt
  <2> HIDE DEF u, v
  <2>4. Len(u) = Len(v)
    BY <1>1, <2>0, <2>2, <2>3
  <2>5. ASSUME NEW i \in 1..Len(u) PROVE u[i] = v[i]
    <3>1. /\ u[i] = l[i + n] /\ i + n \in 1 .. Len(a) + Len(b) /\ v[i] = b[i + k]
          /\ ~(i + n <= Len(a)) /\ (i + n) - Len(a) = i + k
      BY <1>1, <2>0, <2>2, <2>3, <2>4
    <3> QED
      BY <1>1, <3>1
  <2> QED
    BY <2>2, <2>3, <2>4, <2>5, SeqEqual DEF u, v, n
<1> QED
  BY <1>2, <1>3 DEF l

NoCatch(l) == \A i \in 1..Len(l) : l[i].do # "catch"

(* No catch among the first things: it is looked for in the later ones.    *)
LEMMA LandingOver ==
  ASSUME NEW S, NEW a \in Seq(S), NEW b \in Seq(S), NoCatch(a), NEW kind
  PROVE  /\ Landing(a \o b, kind) = Landing(b, kind)
         /\ CatchAt(b) # 0 => Beyond(a \o b) = Beyond(b)
<1> DEFINE l == a \o b
<1>1. /\ l \in Seq(S) /\ Len(a) \in Nat /\ Len(b) \in Nat /\ Len(l) = Len(a) + Len(b)
      /\ \A i \in 1 .. Len(a) + Len(b) : l[i] = IF i <= Len(a) THEN a[i] ELSE b[i - Len(a)]
  BY LenProperties, ConcatProperties
<1>2. \A k \in 0..Len(b) : SubSeq(l, Len(a) + k + 1, Len(l)) = SubSeq(b, k + 1, Len(b))
  BY CatParts
<1> HIDE DEF l
<1>3. \A i \in 1..Len(a) : a[i].do # "catch"
  BY DEF NoCatch
<1>4. ASSUME NEW i \in 1..Len(l), l[i].do = "catch"
      PROVE  i - Len(a) \in 1..Len(b) /\ l[i] = b[i - Len(a)]
  BY <1>1, <1>3, <1>4
<1>5. CASE CatchAt(b) = 0
  <2>1. CatchAt(l) = 0
    <3> SUFFICES ASSUME CatchAt(l) # 0 PROVE FALSE
      OBVIOUS
    <3>1. CatchAt(l) \in 1..Len(l) /\ l[CatchAt(l)].do = "catch"
      BY <1>1, CatchAtIs
    <3>2. CatchAt(l) - Len(a) \in 1..Len(b) /\ b[CatchAt(l) - Len(a)].do = "catch"
      BY <1>4, <3>1
    <3> QED
      BY <1>5, <3>2, CatchAtIs
  <2> QED
    BY <1>5, <2>1 DEF Landing, l
<1>6. CASE CatchAt(b) # 0
  <2> DEFINE k == CatchAt(b)
  <2>1. /\ k \in 1..Len(b) /\ b[k].do = "catch"
        /\ \A i \in 1..Len(b) : b[i].do = "catch" => k <= i
    BY <1>1, <1>6, CatchAtIs
  <2> HIDE DEF k
  <2>2. Len(a) + k \in 1..Len(l) /\ l[Len(a) + k] = b[k]
    <3>1. Len(a) + k \in 1 .. Len(a) + Len(b) /\ ~(Len(a) + k <= Len(a)) /\ (Len(a) + k) - Len(a) = k
      BY <1>1, <2>1
    <3> QED
      BY <1>1, <3>1
  <2>3. ASSUME NEW i \in 1..Len(l), i < Len(a) + k PROVE l[i].do # "catch"
    <3> SUFFICES ASSUME l[i].do = "catch" PROVE FALSE
      OBVIOUS
    <3>1. i - Len(a) \in 1..Len(b) /\ b[i - Len(a)].do = "catch"
      BY <1>4
    <3>2. k <= i - Len(a)
      BY <2>1, <3>1
    <3> QED
      BY <1>1, <2>1, <2>3, <3>2
  <2>4. CatchAt(l) = Len(a) + k
    BY <1>1, <2>1, <2>2, <2>3, CatchAtIs
  <2>5. Beyond(l) = Beyond(b)
    <3>1. k \in 0..Len(b)
      BY <1>1, <2>1
    <3>2. SubSeq(l, Len(a) + k + 1, Len(l)) = SubSeq(b, k + 1, Len(b))
      BY <1>2, <3>1
    <3> QED
      BY <2>4, <3>2 DEF Beyond, k
  <2>6. CatchAt(l) # 0
    BY <1>1, <2>1, <2>4
  <2>7. Landing(l, kind) = l[CatchAt(l)][kind] \o Beyond(l) /\ Landing(b, kind) = b[CatchAt(b)][kind] \o Beyond(b)
    BY <1>6, <2>6 DEF Landing
  <2>8. Landing(l, kind) = Landing(b, kind)
    BY <2>2, <2>4, <2>5, <2>7, Zenon DEF k
  <2> QED
    BY <2>5, <2>8 DEF l
<1> QED
  BY <1>5, <1>6

-----------------------------------------------------------------------------
(* Lists, whatever they are of.                                            *)
IsList(l) == \E S : l \in Seq(S)

LEMMA Alike ==
  ASSUME NEW a, NEW b, IsList(a), IsList(b)
  PROVE  \E S : a \in Seq(S) /\ b \in Seq(S)
<1>1. PICK S, T : a \in Seq(S) /\ b \in Seq(T)
  BY DEF IsList
<1> DEFINE U == S \cup T
<1>2. S \subseteq U /\ T \subseteq U
  OBVIOUS
<1> HIDE DEF U
<1>3. a \in Seq(U) /\ b \in Seq(U)
  BY <1>1, <1>2, Wider
<1> QED
  BY <1>3

LEMMA ListCat ==
  ASSUME NEW a, NEW b, IsList(a), IsList(b)
  PROVE  /\ IsList(a \o b)
         /\ NoCatch(a) => /\ \A kind : Landing(a \o b, kind) = Landing(b, kind)
                          /\ CatchAt(b) # 0 => Beyond(a \o b) = Beyond(b)
         /\ NoCatch(a) /\ NoCatch(b) => NoCatch(a \o b)
<1>1. PICK S : a \in Seq(S) /\ b \in Seq(S)
  BY Alike
<1>2. /\ a \o b \in Seq(S) /\ Len(a) \in Nat /\ Len(b) \in Nat /\ Len(a \o b) = Len(a) + Len(b)
      /\ \A i \in 1 .. Len(a) + Len(b) : (a \o b)[i] = IF i <= Len(a) THEN a[i] ELSE b[i - Len(a)]
  BY <1>1, LenProperties, ConcatProperties
<1>3. ASSUME NoCatch(a), NoCatch(b) PROVE NoCatch(a \o b)
  <2> DEFINE l == a \o b
  <2>1. Len(l) = Len(a) + Len(b)
        /\ \A i \in 1 .. Len(a) + Len(b) : l[i] = IF i <= Len(a) THEN a[i] ELSE b[i - Len(a)]
    BY <1>2
  <2> HIDE DEF l
  <2>2. ASSUME NEW i \in 1..Len(l) PROVE l[i].do # "catch"
    <3>1. CASE i <= Len(a)
      <4>1. i \in 1..Len(a) /\ l[i] = a[i]
        BY <1>2, <2>1, <3>1
      <4> QED
        BY <1>3, <4>1 DEF NoCatch
    <3>2. CASE ~(i <= Len(a))
      <4>1. i - Len(a) \in 1..Len(b) /\ l[i] = b[i - Len(a)]
        BY <1>2, <2>1, <3>2
      <4> QED
        BY <1>3, <4>1 DEF NoCatch
    <3> QED
      BY <3>1, <3>2
  <2> QED
    BY <2>2 DEF NoCatch, l
<1>4. ASSUME NoCatch(a)
      PROVE  /\ \A kind : Landing(a \o b, kind) = Landing(b, kind)
             /\ CatchAt(b) # 0 => Beyond(a \o b) = Beyond(b)
  BY <1>1, <1>4, LandingOver
<1> QED
  BY <1>2, <1>3, <1>4 DEF IsList

LEMMA ListAssoc ==
  ASSUME NEW a, NEW b, NEW c, IsList(a), IsList(b), IsList(c)
  PROVE  (a \o b) \o c = a \o (b \o c)
<1>1. PICK S : a \in Seq(S) /\ b \in Seq(S)
  BY Alike
<1>2. PICK T : c \in Seq(T)
  BY DEF IsList
<1> DEFINE U == S \cup T
<1>3. S \subseteq U /\ T \subseteq U
  OBVIOUS
<1> HIDE DEF U
<1>4. a \in Seq(U) /\ b \in Seq(U) /\ c \in Seq(U)
  BY <1>1, <1>2, <1>3, Wider
<1> QED
  BY <1>4, ConcatAssociative

LEMMA ListOne ==
  ASSUME NEW x
  PROVE  IsList(<<x>>) /\ (x.do # "catch" => NoCatch(<<x>>))
<1>1. <<x>> \in Seq({x}) /\ 1..Len(<<x>>) = {1} /\ <<x>>[1] = x
  OBVIOUS
<1>2. x.do # "catch" => NoCatch(<<x>>)
  BY <1>1, Zenon DEF NoCatch
<1> QED
  BY <1>1, <1>2 DEF IsList

LEMMA ListNone ==
  /\ IsList(<<>>) /\ NoCatch(<<>>)
  /\ \A l : IsList(l) => <<>> \o l = l /\ l \o <<>> = l
<1>1. <<>> \in Seq({}) /\ Len(<<>>) = 0
  OBVIOUS
<1>2. ASSUME NEW l, IsList(l) PROVE <<>> \o l = l /\ l \o <<>> = l
  BY <1>2, ConcatEmptySeq DEF IsList
<1>3. IsList(<<>>)
  BY <1>1 DEF IsList
<1>4. 1..Len(<<>>) = {}
  BY <1>1
<1>5. NoCatch(<<>>)
  BY <1>4 DEF NoCatch
<1> QED
  BY <1>2, <1>3, <1>5

LEMMA ListThen ==
  ASSUME NEW x, NEW r, IsList(r)
  PROVE  /\ Then(x, r) = <<x>> \o r /\ IsList(Then(x, r))
         /\ Then(x, r) # <<>> /\ Head(Then(x, r)) = x /\ Tail(Then(x, r)) = r
         /\ x.do # "catch" => /\ \A kind : Landing(Then(x, r), kind) = Landing(r, kind)
                              /\ CatchAt(r) # 0 => Beyond(Then(x, r)) = Beyond(r)
         /\ x.do = "catch" => /\ \A kind : Landing(Then(x, r), kind) = x[kind] \o r
                              /\ CatchAt(Then(x, r)) = 1 /\ Beyond(Then(x, r)) = r
<1>1. PICK S : r \in Seq(S)
  BY DEF IsList
<1>2. Then(x, r) # <<>> /\ Head(Then(x, r)) = x /\ Tail(Then(x, r)) = r /\ Then(x, r) \in Seq(S \cup {x})
  BY <1>1, ThenIs
<1>3. ASSUME NEW kind
      PROVE  /\ x.do = "catch" =>
                  /\ CatchAt(Then(x, r)) = 1 /\ Beyond(Then(x, r)) = r
                  /\ Landing(Then(x, r), kind) = x[kind] \o r
             /\ x.do # "catch" =>
                  /\ Landing(Then(x, r), kind) = Landing(r, kind)
                  /\ CatchAt(r) # 0 => Beyond(Then(x, r)) = Beyond(r)
  BY <1>1, LandingThen
<1> QED
  BY <1>2, <1>3 DEF IsList, Then

-----------------------------------------------------------------------------
(* Who closes the port.  A list of things to do is right or not under      *)
(* conditions: of the port, of the scanner (quiet: it does not scan, or    *)
(* something failed), of the driver, and whether a scan thread is busy.    *)
(* This section says what each thing does to them, the next ones which     *)
(* conditions each call of the driver leads from and to.                   *)
Conditions ==
  {a \in [fd : {"closed", "open", "dead"}, quiet : BOOLEAN, state : States, busy : BOOLEAN] :
     a.fd = "dead" => a.quiet}

(* No scan thread at work; a port that is closed leaves no scan behind.    *)
Held == {a \in Conditions : ~a.busy /\ (a.fd = "closed" => a.quiet)}

(* Nothing to do: unless a scan thread is busy, a closed driver holds no   *)
(* port.                                                                   *)
Resting == {a \in Conditions : a.busy \/ (a \in Held /\ (a.state = "CLOSED" => a.fd = "closed"))}

(* What happens to a thread's conditions while it does nothing: failures;  *)
(* to the main thread what a scan thread does; to a scan thread the state. *)
Meddles(k, a, b) ==
  /\ b \in Conditions
  /\ \/ b = [a EXCEPT !.quiet = TRUE]
     \/ a.fd = "open" /\ b = [a EXCEPT !.fd = "dead", !.quiet = TRUE]
     \/ k = main /\ a.busy /\ b \in Resting /\ (b.busy => b.state = a.state)
     \/ k # main /\ \E st \in States : b = [a EXCEPT !.state = st]

(* What the main thread does while a scan thread is at work.               *)
Able(x, a) ==
  a.busy => /\ a.state = "RUNNING"
            /\ x.do \in {"if", "update", "exit", "catch", "config", "doStop", "set"}

(* After RS and QT the scanner is silent; only MD and ME make it scan.     *)
Sent(cmd, a, b) ==
  \E q \in BOOLEAN :
    /\ b = [a EXCEPT !.quiet = q]
    /\ cmd \in {"RS", "QT"} => q
    /\ cmd \notin {"MD", "ME"} => (a.quiet => q)

Updates(c, a, e) ==
  IF a.state = "OPENED"
  THEN e \in {<<SetConfig(CheckAngleRange(c))>>,
              isIntensitySupported(<<SetConfig(CheckAngleRange(c))>>,
                                   <<SetConfig(CheckAngleRange(NoIntensity(c)))>>)}
  ELSE e = <<SetConfig(c)>>

(* The thing x, and then e and what follows x.                             *)
Leads(x, a, e, b) ==
  /\ Able(x, a) /\ b \in Conditions
  /\ \/ x.do = "flush" /\ a.fd = "open" /\ e = <<>> /\ b = a
     \/ x.do = "send" /\ a.fd = "open" /\ e = <<>> /\ Sent(x.cmd, a, b)
     \/ /\ x.do \in {"read", "require", "status", "catch", "getID", "calibrated", "config",
                     "useScan", "calibrate", "join", "started"}
        /\ e = <<>> /\ b = a
     \/ x.do = "openPort" /\ e = <<>> /\ b = [a EXCEPT !.fd = "open"]
     \/ x.do \in {"closePort", "dropPort"} /\ e = <<>> /\ b = [a EXCEPT !.fd = "closed"]
     \/ x.do = "ifPort" /\ e = (IF a.fd = "closed" THEN <<>> ELSE x.then) /\ b = a
     \/ x.do = "try" /\ e = x.body \o <<Catch(x)>> /\ b = a
     \/ x.do = "if" /\ e = (IF a.state = x.state THEN x.then ELSE <<>>) /\ b = a
     \/ x.do = "set" /\ e = <<>> /\ b = [a EXCEPT !.state = x.state]
     \/ x.do = "opened" /\ b = a /\ \E c \in Config : e = postOpenHook(c)
     \/ x.do = "update" /\ b = a /\ Updates(x.config, a, e)
     \/ x.do = "again" /\ e = PluggedIn(x.retries) /\ b = a
     \/ x.do = "doOpen" /\ b = a /\ \E known \in BOOLEAN : e = doOpen(known)
     \/ x.do = "calibrate" /\ e = calcLatency \o <<Do("calibrated")>> /\ b = a
     \/ x.do = "doStart" /\ b = a /\ \E c \in Config : e = doStart(c)
     \/ x.do = "started" /\ e = <<>> /\ b = [a EXCEPT !.state = "RUNNING", !.busy = TRUE]
     \/ /\ x.do = "doStop" /\ b = a
        /\ e = IF a.state = "RUNNING" THEN <<Set("OPENED"), Do("join")>> ELSE <<>>

Throws(x, a) ==
  /\ Able(x, a)
  /\ \/ x.do \in {"flush", "send"} /\ a.fd # "open"
     \/ x.do \in {"read", "require", "throw"}
     \/ x.do = "openPort" /\ a.quiet

(* What must be true when the list l is at its present place; of a scan    *)
(* thread (k is not main) also when it is no longer busy.                  *)
Here(k, l, a) ==
  /\ a \in Conditions /\ IsList(l)
  /\ k = main /\ l = <<>> => a \in Resting
  /\ k # main /\ ~Busy(l) => a \in Resting
  /\ l # <<>> /\ Head(l).do \in {"started", "while"} => a \in Held

(* The thread's next step, or an exception: the list m under b comes next. *)
Reaches(k, l, a, m, b) ==
  /\ l # <<>>
  /\ \/ \E e : Leads(Head(l), a, e, b) /\ m = e \o Tail(l)
     \/ Throws(Head(l), a) /\ b = a /\ \E kind \in Kinds : m = Landing(l, kind)
     \/ /\ Able(Head(l), a) /\ b = a
        /\ \/ Head(l).do = "status" /\ m = doClose \o Beyond(l)
           \/ Head(l).do = "exit" /\ m = <<>>
           \/ Head(l).do = "useScan" /\ m = scanThreadEnds

(* The list l is right under a when what must be true is true here and     *)
(* wherever its steps and the meddling lead: the pair is in a set of such  *)
(* pairs that nothing leads out of.                                        *)
Closed(k, G) ==
  \A l, a : <<l, a>> \in G =>
    /\ Here(k, l, a)
    /\ k = main \/ Busy(l) =>
         /\ \A b : Meddles(k, a, b) => <<l, b>> \in G
         /\ \A m, b : Reaches(k, l, a, m, b) => <<m, b>> \in G

Right(k, l, a) == \E G : Closed(k, G) /\ <<l, a>> \in G

LEMMA RightIs ==
  ASSUME NEW k, NEW l, NEW a, Right(k, l, a)
  PROVE  /\ Here(k, l, a)
         /\ k = main \/ Busy(l) =>
              /\ \A b : Meddles(k, a, b) => Right(k, l, b)
              /\ \A m, b : Reaches(k, l, a, m, b) => Right(k, m, b)
<1>1. PICK G : Closed(k, G) /\ <<l, a>> \in G
  BY DEF Right
<1> QED
  BY <1>1, Zenon DEF Right, Closed

Stable(k, P) == P \subseteq Conditions /\ \A a \in P : \A b : Meddles(k, a, b) => b \in P

(* What leads to what is right is right.                                   *)
LEMMA Unfold ==
  ASSUME NEW k, NEW l, NEW P, \A a \in P : Here(k, l, a),
         k = main \/ Busy(l) => Stable(k, P), NEW M,
         \A a \in P : \A m, b : (k = main \/ Busy(l)) /\ Reaches(k, l, a, m, b) => m \in M /\ Right(k, m, b)
  PROVE  \A a \in P : Right(k, l, a)
<1> DEFINE S == {y \in M \X Conditions : Right(k, y[1], y[2])}
           W(y) == CHOOSE G : Closed(k, G) /\ y \in G
           G == {<<l, a>> : a \in P} \cup UNION {W(y) : y \in S}
<1>1. ASSUME NEW y \in S PROVE Closed(k, W(y)) /\ y \in W(y)
  <2>1. y = <<y[1], y[2]>> /\ Right(k, y[1], y[2])
    OBVIOUS
  <2>2. \E H : Closed(k, H) /\ y \in H
    BY <2>1 DEF Right
  <2> QED
    BY <2>2, Zenon
<1>2. ASSUME NEW m \in M, NEW b, Right(k, m, b) PROVE <<m, b>> \in S
  <2>1. b \in Conditions
    BY <1>2, RightIs DEF Here
  <2> QED
    BY <1>2, <2>1
<1> HIDE DEF W, S
<1>3. ASSUME NEW y \in S, NEW z, z \in W(y) PROVE z \in G
  BY <1>3
<1>4. ASSUME NEW m \in M, NEW b, Right(k, m, b) PROVE <<m, b>> \in G
  BY <1>1, <1>2, <1>3, <1>4
<1>5. \A a \in P : <<l, a>> \in G
  OBVIOUS
<1>6. ASSUME NEW z \in G PROVE (\E a \in P : z = <<l, a>>) \/ (\E y \in S : z \in W(y))
  OBVIOUS
<1> HIDE DEF G
<1>7. ASSUME NEW n, NEW c, <<n, c>> \in G
      PROVE  /\ Here(k, n, c)
             /\ k = main \/ Busy(n) =>
                  /\ \A b : Meddles(k, c, b) => <<n, b>> \in G
                  /\ \A m, b : Reaches(k, n, c, m, b) => <<m, b>> \in G
  <2>1. CASE \E a \in P : <<n, c>> = <<l, a>>
    <3>1. n = l /\ c \in P
      BY <2>1
    <3> QED
      BY <1>4, <1>5, <3>1, Zenon DEF Stable
  <2>2. CASE \E y \in S : <<n, c>> \in W(y)
    <3>1. PICK y \in S : <<n, c>> \in W(y)
      BY <2>2
    <3>2. Closed(k, W(y))
      BY <1>1
    <3>3. /\ Here(k, n, c)
          /\ k = main \/ Busy(n) =>
               /\ \A b : Meddles(k, c, b) => <<n, b>> \in W(y)
               /\ \A m, b : Reaches(k, n, c, m, b) => <<m, b>> \in W(y)
      BY <3>1, <3>2, Zenon DEF Closed
    <3> QED
      BY <1>3, <3>3, Zenon
  <2> QED
    BY <1>6, <1>7, <2>1, <2>2
<1>8. Closed(k, G)
  BY <1>7, Zenon DEF Closed
<1> QED
  BY <1>5, <1>8, Zenon DEF Right

-----------------------------------------------------------------------------
(* A call leads from the conditions P to Q, or throws in E: put before a   *)
(* list that is right in Q, and whose handlers are right in E, it makes    *)
(* one that is right in P.                                                 *)
Rights(k, l, P) == \A a \in P : Right(k, l, a)

CaughtIn(k, r, E) == \A kind \in Kinds : Rights(k, Landing(r, kind), E)

Call(k, l, P, Q, E) ==
  /\ IsList(l) /\ NoCatch(l)
  /\ \A r : IsList(r) /\ Rights(k, r, Q) /\ CaughtIn(k, r, E) => Rights(k, l \o r, P)

LEMMA CallCat ==
  ASSUME NEW k, NEW l, NEW m, NEW P, NEW Q, NEW R, NEW E,
         Call(k, l, P, Q, E), Call(k, m, Q, R, E)
  PROVE  Call(k, l \o m, P, R, E)
<1>1. IsList(l) /\ NoCatch(l) /\ IsList(m) /\ NoCatch(m)
  BY DEF Call
<1>2. IsList(l \o m) /\ NoCatch(l \o m)
  BY <1>1, ListCat
<1>3. ASSUME NEW r, IsList(r), Rights(k, r, R), CaughtIn(k, r, E) PROVE Rights(k, (l \o m) \o r, P)
  <2>1. Rights(k, m \o r, Q)
    BY <1>3 DEF Call
  <2>2. IsList(m \o r) /\ \A kind : Landing(m \o r, kind) = Landing(r, kind)
    BY <1>1, <1>3, ListCat
  <2>3. CaughtIn(k, m \o r, E)
    BY <1>3, <2>2 DEF CaughtIn
  <2>4. Rights(k, l \o (m \o r), P)
    BY <2>1, <2>2, <2>3 DEF Call
  <2>5. (l \o m) \o r = l \o (m \o r)
    BY <1>1, <1>3, ListAssoc
  <2> QED
    BY <2>4, <2>5
<1> QED
  BY <1>2, <1>3 DEF Call

LEMMA CallWeaker ==
  ASSUME NEW k, NEW l, NEW P, NEW Q, NEW E, Call(k, l, P, Q, E),
         NEW A, NEW B, NEW F, A \subseteq P, Q \subseteq B, E \subseteq F
  PROVE  Call(k, l, A, B, F)
<1>1. ASSUME NEW r, IsList(r), Rights(k, r, B), CaughtIn(k, r, F) PROVE Rights(k, l \o r, A)
  <2>1. Rights(k, r, Q) /\ CaughtIn(k, r, E)
    BY <1>1 DEF Rights, CaughtIn
  <2>2. Rights(k, l \o r, P)
    BY <1>1, <2>1 DEF Call
  <2> QED
    BY <2>2 DEF Rights
<1> QED
  BY <1>1 DEF Call

LEMMA CallNone ==
  ASSUME NEW k, NEW P, NEW Q, NEW E, P \subseteq Q
  PROVE  Call(k, <<>>, P, Q, E)
<1>1. ASSUME NEW r, IsList(r), Rights(k, r, Q) PROVE Rights(k, <<>> \o r, P)
  <2>1. <<>> \o r = r
    BY <1>1, ListNone
  <2> QED
    BY <1>1, <2>1 DEF Rights
<1> QED
  BY <1>1, ListNone DEF Call

Ordinary(x) == x.do \notin {"try", "catch", "return", "status", "exit", "useScan"}

(* One thing that is done.                                                 *)
LEMMA CallItem ==
  ASSUME NEW k, NEW x, NEW P, NEW Q, NEW E, Ordinary(x), Stable(k, P),
         x.do \in {"started", "while"} => P \subseteq Held, NEW X,
         \A a \in P : \A e, b : Leads(x, a, e, b) => e \in X /\ Call(k, e, {b}, Q, E),
         \A a \in P : Throws(x, a) => a \in E
  PROVE  Call(k, <<x>>, P, Q, E)
<1>1. IsList(<<x>>) /\ NoCatch(<<x>>)
  BY ListOne DEF Ordinary
<1>2. ASSUME NEW r, IsList(r), Rights(k, r, Q), CaughtIn(k, r, E)
      PROVE  Rights(k, <<x>> \o r, P)
  <2> DEFINE l == Then(x, r)
             M == {e \o r : e \in X} \cup {Landing(r, kind) : kind \in Kinds}
  <2>1. /\ l = <<x>> \o r /\ IsList(l) /\ l # <<>> /\ Head(l) = x /\ Tail(l) = r
        /\ \A kind : Landing(l, kind) = Landing(r, kind)
    BY <1>2, ListThen DEF Ordinary
  <2> HIDE DEF l, M
  <2>2. \A a \in P : Here(k, l, a)
    BY <2>1 DEF Here, Busy, Ordinary, Stable
  <2>3. \A e \in X : e \o r \in M
    BY DEF M
  <2>4. \A kind \in Kinds : Landing(r, kind) \in M
    BY DEF M
  <2>5. ASSUME NEW a \in P, NEW m, NEW b, Reaches(k, l, a, m, b)
        PROVE  m \in M /\ Right(k, m, b)
    <3>1. CASE \E e : Leads(x, a, e, b) /\ m = e \o r
      <4>1. PICK e : Leads(x, a, e, b) /\ m = e \o r
        BY <3>1
      <4>2. e \in X /\ Call(k, e, {b}, Q, E)
        BY <4>1
      <4>3. Rights(k, e \o r, {b})
        BY <1>2, <4>2 DEF Call
      <4> QED
        BY <2>3, <4>1, <4>2, <4>3 DEF Rights
    <3>2. CASE Throws(x, a) /\ b = a /\ \E kind \in Kinds : m = Landing(r, kind)
      <4>1. PICK kind \in Kinds : m = Landing(r, kind)
        BY <3>2
      <4>2. Rights(k, Landing(r, kind), E) /\ a \in E
        BY <1>2, <3>2 DEF CaughtIn
      <4> QED
        BY <2>4, <3>2, <4>1, <4>2 DEF Rights
    <3>3. x.do \notin {"status", "exit", "useScan"}
      BY DEF Ordinary
    <3> QED
      BY <2>1, <2>5, <3>1, <3>2, <3>3 DEF Reaches
  <2>6. \A a \in P : Right(k, l, a)
    BY <2>2, <2>5, Unfold
  <2> QED
    BY <2>1, <2>6 DEF Rights
<1> QED
  BY <1>1, <1>2 DEF Call

(* Past the catch, or from it with the handler.                            *)
LEMMA CatchRight ==
  ASSUME NEW k, NEW x, x.do = "catch", NEW r, IsList(r), NEW Q, Stable(k, Q), Rights(k, r, Q)
  PROVE  Rights(k, Then(x, r), Q)
<1> DEFINE l == Then(x, r)
<1>1. IsList(l) /\ l # <<>> /\ Head(l) = x /\ Tail(l) = r
  BY ListThen
<1>2. <<>> \o r = r
  BY ListNone
<1> HIDE DEF l
<1>3. \A a \in Q : Here(k, l, a)
  BY <1>1 DEF Here, Busy, Stable
<1>4. ASSUME NEW a \in Q, NEW m, NEW b, Reaches(k, l, a, m, b)
      PROVE  m \in {r} /\ Right(k, m, b)
  <2>1. m = r /\ b = a
    BY <1>1, <1>2, <1>4 DEF Reaches, Leads, Throws
  <2> QED
    BY <2>1 DEF Rights
<1>5. \A a \in Q : Right(k, l, a)
  BY <1>3, <1>4, Unfold
<1> QED
  BY <1>5 DEF Rights, l

(* A try: what its body leads to, and what its handler makes of the rest.  *)
LEMMA TryRight ==
  ASSUME NEW k, NEW x, x.do = "try", IsList(x.body), NEW r, IsList(r), NEW P, Stable(k, P),
         Rights(k, x.body \o Then(Catch(x), r), P)
  PROVE  Rights(k, <<x>> \o r, P)
<1> DEFINE s == Then(x, r)
           d == Then(Catch(x), r)
           l == x.body
           c == Catch(x)
<1>1. s = <<x>> \o r /\ IsList(s) /\ s # <<>> /\ Head(s) = x /\ Tail(s) = r
  BY ListThen
<1>2. d = <<c>> \o r /\ IsList(<<c>>) /\ IsList(l)
  BY ListThen, ListOne
<1> HIDE DEF s, d
<1>3. (l \o <<c>>) \o r = l \o d
  <2> HIDE DEF l, c
  <2> QED
    BY <1>2, ListAssoc
<1>4. \A a \in P : Here(k, s, a)
  BY <1>1 DEF Here, Busy, Stable
<1>5. ASSUME NEW a \in P, NEW m, NEW b, Reaches(k, s, a, m, b)
      PROVE  m \in {l \o d} /\ Right(k, m, b)
  <2>1. m = (l \o <<c>>) \o r /\ b = a
    BY <1>1, <1>5 DEF Reaches, Leads, Throws
  <2> QED
    BY <1>3, <2>1 DEF Rights, d
<1>6. \A a \in P : Right(k, s, a)
  BY <1>4, <1>5, Unfold
<1> QED
  BY <1>1, <1>6 DEF Rights

LEMMA CallTry ==
  ASSUME NEW k, NEW l, NEW h, NEW P, NEW Q, NEW F, NEW E, Stable(k, P), Stable(k, Q),
         Call(k, l, P, Q, F), Call(k, h, F, Q, E)
  PROVE  Call(k, <<Try(l, h)>>, P, Q, E)
<1> DEFINE x == Try(l, h)
           c == Catch(x)
<1>1. /\ x.do = "try" /\ x.body = l /\ c.do = "catch"
      /\ \A kind \in Kinds : c[kind] = h
  <2>1. /\ x.do = "try" /\ x.body = l /\ c = [do |-> "catch", other |-> h, corrupted |-> h]
    BY TryIs
  <2> QED
    BY <2>1 DEF Kinds
<1> HIDE DEF x
<1>2. IsList(<<x>>) /\ NoCatch(<<x>>) /\ IsList(l)
  BY <1>1, ListOne DEF Call
<1>3. ASSUME NEW r, IsList(r), Rights(k, r, Q), CaughtIn(k, r, E)
      PROVE  Rights(k, <<x>> \o r, P)
  <2>1. IsList(Then(c, r)) /\ \A kind : Landing(Then(c, r), kind) = c[kind] \o r
    BY <1>1, <1>3, ListThen
  <2>2. Rights(k, Then(c, r), Q)
    BY <1>1, <1>3, CatchRight
  <2>3. Rights(k, h \o r, F)
    BY <1>3 DEF Call
  <2>4. CaughtIn(k, Then(c, r), F)
    BY <1>1, <2>1, <2>3 DEF CaughtIn
  <2>5. Rights(k, l \o Then(c, r), P)
    BY <2>1, <2>2, <2>4 DEF Call
  <2> QED
    BY <1>1, <1>2, <1>3, <2>5, TryRight
<1> QED
  BY <1>2, <1>3 DEF Call, x

LEMMA PairIs == ASSUME NEW x, NEW y PROVE <<x>> \o <<y>> = <<x, y>>
<1> DEFINE S == {x, y}
           s == <<x>> \o <<y>>
<1>1. <<x>> \in Seq(S) /\ <<y>> \in Seq(S) /\ Len(<<x>>) = 1 /\ Len(<<y>>) = 1
      /\ <<x>>[1] = x /\ <<y>>[1] = y
  OBVIOUS
<1>2. s \in Seq(S) /\ Len(s) = 2 /\ s[1] = x /\ s[2] = y
  BY <1>1, ConcatProperties
<1> HIDE DEF s, S
<1>3. s = <<s[1], s[2]>>
  BY <1>2, TwoOf
<1> QED
  BY <1>2, <1>3 DEF s

LEMMA CallPair ==
  ASSUME NEW k, NEW x, NEW y, NEW P, NEW Q, NEW R, NEW E,
         Call(k, <<x>>, P, Q, E), Call(k, <<y>>, Q, R, E)
  PROVE  Call(k, <<x, y>>, P, R, E)
BY CallCat, PairIs

(* The port is open; and the scanner silent; and the port is closed.       *)
Ported == {a \in Held : a.fd # "closed"}
Silenced == {a \in Ported : a.quiet}
Shut == {a \in Held : a.fd = "closed"}

LEMMA ConditionsAre ==
  /\ \A a \in Conditions :
       /\ a \in [fd : {"closed", "open", "dead"}, quiet : BOOLEAN, state : States, busy : BOOLEAN]
       /\ a.fd = "dead" => a.quiet
       /\ a.fd \in {"closed", "open", "dead"} /\ a.quiet \in BOOLEAN /\ a.state \in States
       /\ a.busy \in BOOLEAN
  /\ \A a \in [fd : {"closed", "open", "dead"}, quiet : BOOLEAN, state : States, busy : BOOLEAN] :
       (a.fd = "dead" => a.quiet) => a \in Conditions
BY DEF Conditions

LEMMA StableSets ==
  ASSUME NEW k
  PROVE  /\ Stable(k, Held) /\ Stable(k, Ported) /\ Stable(k, Silenced) /\ Stable(k, Shut)
<1>1. ASSUME NEW a \in Held, NEW b, Meddles(k, a, b)
      PROVE  /\ b \in Held /\ (a.quiet => b.quiet)
             /\ (b.fd = "closed") = (a.fd = "closed")
  <2>0. a \in Conditions /\ b \in Conditions /\ ~a.busy /\ (a.fd = "closed" => a.quiet)
    BY <1>1 DEF Held, Meddles
  <2>1. CASE b = [a EXCEPT !.quiet = TRUE]
    BY <2>0, <2>1, ConditionsAre DEF Held
  <2>2. CASE a.fd = "open" /\ b = [a EXCEPT !.fd = "dead", !.quiet = TRUE]
    BY <2>0, <2>2, ConditionsAre DEF Held
  <2>3. CASE \E st \in States : b = [a EXCEPT !.state = st]
    BY <2>0, <2>3, ConditionsAre DEF Held
  <2> QED
    BY <1>1, <2>0, <2>1, <2>2, <2>3 DEF Meddles
<1>2. Held \subseteq Conditions
  BY DEF Held
<1> QED
  BY <1>1, <1>2 DEF Stable, Ported, Silenced, Shut

(* What changes nothing of the conditions, whatever they are.              *)
Talks(x) ==
  \/ x.do \in {"flush", "read", "require", "getID", "calibrated", "config"}
  \/ x.do = "send" /\ x.cmd \notin {"MD", "ME"}

LEMMA CallTalk ==
  ASSUME NEW k, NEW x, Talks(x), NEW P, Stable(k, P)
  PROVE  Call(k, <<x>>, P, P, P)
<1>1. Ordinary(x) /\ x.do \notin {"started", "while"}
  BY DEF Ordinary, Talks
<1>2. ASSUME NEW a \in P, NEW e, NEW b, Leads(x, a, e, b)
      PROVE  e \in {<<>>} /\ Call(k, e, {b}, P, P)
  <2>0. a \in Conditions /\ b \in Conditions
    BY <1>2 DEF Stable, Leads
  <2>1. e = <<>> /\ b \in P
    <3>1. CASE x.do = "send"
      <4>1. e = <<>> /\ x.cmd \notin {"MD", "ME"} /\ Sent(x.cmd, a, b)
        BY <1>2, <3>1 DEF Leads, Talks
      <4>2. PICK q \in BOOLEAN : b = [a EXCEPT !.quiet = q] /\ (a.quiet => q)
        BY <4>1 DEF Sent
      <4>3. q \/ (b = a)
        BY <2>0, <4>2, ConditionsAre
      <4>4. q => Meddles(k, a, b)
        BY <2>0, <4>2 DEF Meddles
      <4> QED
        BY <4>1, <4>3, <4>4 DEF Stable
    <3>2. CASE x.do # "send"
      BY <1>2, <3>2 DEF Leads, Talks
    <3> QED
      BY <3>1, <3>2
  <2>2. {b} \subseteq P
    BY <2>1
  <2> QED
    BY <2>1, <2>2, CallNone
<1> QED
  BY <1>1, <1>2, CallItem

LEMMA Talking ==
  /\ \A c : Read(c).do = "read" /\ Wait(c).do = "read" /\ Send(c).do = "send" /\ Send(c).cmd = c
  /\ \A c : SetConfig(c).do = "config"
  /\ \A n : Do(n).do = n
  /\ \A n : Set(n).do = "set" /\ Set(n).state = n
BY DEF Read, Wait, Send, SetConfig, Do, Set

LEMMA CallExchange ==
  ASSUME NEW k, NEW c, c \notin {"MD", "ME"}, NEW P, Stable(k, P)
  PROVE  Call(k, sendCmd(c), P, P, P) /\ Call(k, sendCmdUnlimited(c), P, P, P)
         /\ Call(k, requestScans(c), P, P, P)
<1>1. Talks(Send(c)) /\ Talks(Read(c)) /\ Talks(Wait(c))
  BY Talking DEF Talks
<1>2. Call(k, <<Send(c)>>, P, P, P) /\ Call(k, <<Read(c)>>, P, P, P) /\ Call(k, <<Wait(c)>>, P, P, P)
  BY <1>1, CallTalk
<1> QED
  BY <1>2, CallPair DEF sendCmd, sendCmdUnlimited, requestScans

LEMMA CallQueries ==
  ASSUME NEW k, NEW P, Stable(k, P)
  PROVE  /\ Call(k, querySensorConfig, P, P, P) /\ Call(k, queryVersionInformation, P, P, P)
         /\ Call(k, getStatus, P, P, P) /\ Call(k, laserOn, P, P, P) /\ Call(k, laserOff, P, P, P)
         /\ Call(k, pollScan, P, P, P) /\ Call(k, setToSCIP2, P, P, P)
         /\ Call(k, calcLatency, P, P, P) /\ Call(k, <<Do("flush")>>, P, P, P)
<1>1. /\ Call(k, <<Do("require")>>, P, P, P) /\ Call(k, <<Do("flush")>>, P, P, P)
      /\ \A c : Call(k, <<Wait(c)>>, P, P, P) /\ Call(k, <<Read(c)>>, P, P, P)
  BY Talking, CallTalk DEF Talks
<1>2. \A c : Call(k, <<Do("require"), Wait(c)>>, P, P, P)
  BY <1>1, CallPair
<1>3. /\ Call(k, querySensorConfig, P, P, P) /\ Call(k, queryVersionInformation, P, P, P)
      /\ Call(k, getStatus, P, P, P)
  BY <1>2, CallExchange, CallCat DEF querySensorConfig, queryVersionInformation, getStatus
<1>4. Call(k, laserOn, P, P, P) /\ Call(k, laserOff, P, P, P) /\ Call(k, pollScan, P, P, P)
  BY <1>1, CallExchange, CallCat DEF laserOn, laserOff, pollScan
<1>5. Call(k, <<Send("SCIP2.0")>>, P, P, P)
  BY Talking, CallTalk DEF Talks
<1>6. Call(k, setToSCIP2, P, P, P)
  BY <1>1, <1>5, CallPair DEF setToSCIP2
<1>7. Call(k, getHokuyoClockOffset, P, P, P)
  <2>1. Call(k, sendCmdUnlimited("TM0") \o sendCmdUnlimited("TM1"), P, P, P)
    BY CallExchange, CallCat
  <2>2. Call(k, sendCmdUnlimited("TM0") \o sendCmdUnlimited("TM1") \o <<Wait("any")>>, P, P, P)
    BY <1>1, <2>1, CallCat
  <2> QED
    BY <2>2, CallExchange, CallCat DEF getHokuyoClockOffset
<1>8. Call(k, getHokuyoScanStampToSystemStampOffset, P, P, P)
  BY <1>2, CallExchange, CallCat DEF getHokuyoScanStampToSystemStampOffset, serviceScan
<1>9. Call(k, calcLatency, P, P, P)
  <2>1. Call(k, getHokuyoClockOffset \o getHokuyoScanStampToSystemStampOffset, P, P, P)
    BY <1>7, <1>8, CallCat
  <2> QED
    BY <1>7, <2>1, CallCat DEF calcLatency
<1> QED
  BY <1>1, <1>3, <1>4, <1>6, <1>9

LEMMA FourCat ==
  ASSUME NEW a, NEW b, NEW c, NEW d
  PROVE  <<a, b>> \o <<c, d>> = <<a, b, c, d>>
<1> DEFINE S == {a, b, c, d}
           s == <<a, b>> \o <<c, d>>
<1>1. <<a, b>> \in Seq(S) /\ <<c, d>> \in Seq(S) /\ Len(<<a, b>>) = 2 /\ Len(<<c, d>>) = 2
      /\ <<a, b>>[1] = a /\ <<a, b>>[2] = b /\ <<c, d>>[1] = c /\ <<c, d>>[2] = d
  OBVIOUS
<1>2. s \in Seq(S) /\ Len(s) = 4 /\ s[1] = a /\ s[2] = b /\ s[3] = c /\ s[4] = d
  BY <1>1, ConcatProperties
<1> HIDE DEF s, S
<1>3. s = <<s[1], s[2], s[3], s[4]>>
  BY <1>2
<1> QED
  BY <1>2, <1>3 DEF s

(* However it fails, after reset() the scanner is silent.                  *)
LEMMA CallReset ==
  ASSUME NEW k
  PROVE  Call(k, reset, Ported, Silenced, Silenced)
<1>0. Stable(k, Ported) /\ Stable(k, Silenced) /\ Silenced \subseteq Ported /\ Ported \subseteq Conditions
  BY StableSets DEF Silenced, Ported, Held
<1>1. Call(k, <<Do("flush")>>, Ported, Ported, Silenced)
  <2> DEFINE x == Do("flush")
  <2>1. x.do = "flush" /\ Ordinary(x)
    BY Talking DEF Ordinary
  <2> HIDE DEF x
  <2>2. ASSUME NEW a \in Ported, NEW e, NEW b, Leads(x, a, e, b)
        PROVE  e \in {<<>>} /\ Call(k, e, {b}, Ported, Silenced)
    <3>1. e = <<>> /\ {b} \subseteq Ported
      BY <2>1, <2>2 DEF Leads
    <3> QED
      BY <3>1, CallNone
  <2>3. ASSUME NEW a \in Ported, Throws(x, a) PROVE a \in Silenced
    BY <2>1, <2>3, ConditionsAre DEF Throws, Ported, Silenced, Held
  <2> QED
    BY <1>0, <2>1, <2>2, <2>3, CallItem DEF x
<1>2. Call(k, <<Send("RS")>>, Ported, Silenced, Silenced)
  <2> DEFINE x == Send("RS")
  <2>1. x.do = "send" /\ x.cmd = "RS" /\ Ordinary(x)
    BY Talking DEF Ordinary
  <2> HIDE DEF x
  <2>2. ASSUME NEW a \in Ported, NEW e, NEW b, Leads(x, a, e, b)
        PROVE  e \in {<<>>} /\ Call(k, e, {b}, Silenced, Silenced)
    <3>1. e = <<>> /\ b = [a EXCEPT !.quiet = TRUE] /\ b \in Conditions
      BY <2>1, <2>2 DEF Leads, Sent
    <3>2. {b} \subseteq Silenced
      BY <3>1, ConditionsAre DEF Ported, Silenced, Held
    <3> QED
      BY <3>1, <3>2, CallNone
  <2>3. ASSUME NEW a \in Ported, Throws(x, a) PROVE a \in Silenced
    BY <2>1, <2>3, ConditionsAre DEF Throws, Ported, Silenced, Held
  <2> QED
    BY <1>0, <2>1, <2>2, <2>3, CallItem DEF x
<1>3. Call(k, <<Read("RS")>>, Silenced, Silenced, Silenced)
  BY <1>0, Talking, CallTalk DEF Talks
<1>4. Call(k, sendCmd("RS"), Ported, Silenced, Silenced)
  BY <1>2, <1>3, CallPair DEF sendCmd
<1>5. ASSUME NEW c, c \notin {"MD", "ME"} PROVE Call(k, <<Try(sendCmd(c), <<>>)>>, Ported, Ported, Silenced)
  <2>1. Call(k, sendCmd(c), Ported, Ported, Ported)
    BY <1>0, <1>5, CallExchange
  <2>2. Call(k, <<>>, Ported, Ported, Silenced)
    BY CallNone
  <2> QED
    BY <1>0, <2>1, <2>2, CallTry
<1>6. Call(k, <<Do("flush"), Try(sendCmd("TM2"), <<>>)>>, Ported, Ported, Silenced)
  BY <1>1, <1>5, CallPair
<1>7. Call(k, <<Try(sendCmd("RS"), <<>>), Do("flush")>>, Ported, Ported, Silenced)
  BY <1>1, <1>5, CallPair
<1>8. Call(k, <<Do("flush"), Try(sendCmd("TM2"), <<>>), Try(sendCmd("RS"), <<>>), Do("flush")>>,
           Ported, Ported, Silenced)
  <2>1. Call(k, <<Do("flush"), Try(sendCmd("TM2"), <<>>)>> \o <<Try(sendCmd("RS"), <<>>), Do("flush")>>,
             Ported, Ported, Silenced)
    BY <1>6, <1>7, CallCat
  <2> QED
    BY <2>1, FourCat
<1> QED
  BY <1>4, <1>8, CallCat DEF reset

Done == {a \in Shut : a.state = "CLOSED"}

LEMMA ShutsPort ==
  ASSUME NEW k, NEW x, x.do \in {"closePort", "dropPort"}
  PROVE  Call(k, <<x>>, Silenced, Shut, {})
<1>1. Ordinary(x) /\ x.do \notin {"started", "while"} /\ Stable(k, Silenced)
  BY StableSets DEF Ordinary
<1>2. ASSUME NEW a \in Silenced, NEW e, NEW b, Leads(x, a, e, b)
      PROVE  e \in {<<>>} /\ Call(k, e, {b}, Shut, {})
  <2>1. e = <<>> /\ b = [a EXCEPT !.fd = "closed"] /\ b \in Conditions
    BY <1>2 DEF Leads
  <2>2. {b} \subseteq Shut
    BY <2>1, ConditionsAre DEF Ported, Silenced, Held, Shut
  <2> QED
    BY <2>1, <2>2, CallNone
<1>3. \A a \in Silenced : ~Throws(x, a)
  BY DEF Throws
<1> QED
  BY <1>1, <1>2, <1>3, CallItem

LEMMA CallClose ==
  ASSUME NEW k
  PROVE  Call(k, close, Held, Shut, {}) /\ Call(k, doClose, Held, Done, {})
<1>0. Stable(k, Held) /\ Stable(k, Ported) /\ Stable(k, Silenced) /\ Stable(k, Shut)
  BY StableSets
<1>1. Call(k, <<Try(reset, <<>>)>>, Ported, Silenced, {})
  <2>1. Call(k, <<>>, Silenced, Silenced, {})
    BY CallNone
  <2> QED
    BY <1>0, <2>1, CallReset, CallTry
<1>2. Call(k, <<Do("closePort")>>, Silenced, Shut, {})
  BY ShutsPort, Talking
<1> DEFINE l == <<Try(reset, <<>>), Do("closePort")>>
<1>3. Call(k, l, Ported, Shut, {})
  BY <1>1, <1>2, CallPair
<1> HIDE DEF l
<1>4. Call(k, <<IfPort(l)>>, Held, Shut, {})
  <2> DEFINE x == IfPort(l)
  <2>1. x.do = "ifPort" /\ x.then = l /\ Ordinary(x)
    BY IfPortIs DEF Ordinary
  <2> HIDE DEF x
  <2>2. ASSUME NEW a \in Held, NEW e, NEW b, Leads(x, a, e, b)
        PROVE  e \in {<<>>, l} /\ Call(k, e, {b}, Shut, {})
    <3>1. b = a /\ e = (IF a.fd = "closed" THEN <<>> ELSE l)
      BY <2>1, <2>2 DEF Leads
    <3>2. CASE a.fd = "closed"
      <4>1. {b} \subseteq Shut
        BY <3>1, <3>2 DEF Shut
      <4> QED
        BY <3>1, <3>2, <4>1, CallNone
    <3>3. CASE a.fd # "closed"
      <4>1. {b} \subseteq Ported
        BY <3>1, <3>3 DEF Ported
      <4> QED
        BY <1>3, <3>1, <3>3, <4>1, CallWeaker
    <3> QED
      BY <3>2, <3>3
  <2>3. \A a \in Held : ~Throws(x, a)
    BY <2>1 DEF Throws
  <2> QED
    BY <1>0, <2>1, <2>2, <2>3, CallItem DEF x
<1>5. Call(k, close, Held, Shut, {})
  BY <1>4 DEF close, l
<1>6. Call(k, <<Try(close, <<>>)>>, Held, Shut, {})
  <2>1. Call(k, <<>>, {}, Shut, {})
    BY CallNone
  <2> QED
    BY <1>0, <1>5, <2>1, CallTry
<1>7. Call(k, <<Set("CLOSED")>>, Shut, Done, {})
  <2> DEFINE x == Set("CLOSED")
  <2>1. x.do = "set" /\ x.state = "CLOSED" /\ Ordinary(x)
    BY Talking DEF Ordinary
  <2> HIDE DEF x
  <2>2. ASSUME NEW a \in Shut, NEW e, NEW b, Leads(x, a, e, b)
        PROVE  e \in {<<>>} /\ Call(k, e, {b}, Done, {})
    <3>1. e = <<>> /\ b = [a EXCEPT !.state = "CLOSED"] /\ b \in Conditions
      BY <2>1, <2>2 DEF Leads
    <3>2. {b} \subseteq Done
      BY <3>1, ConditionsAre DEF Held, Shut, Done
    <3> QED
      BY <3>1, <3>2, CallNone
  <2>3. \A a \in Shut : ~Throws(x, a)
    BY <2>1 DEF Throws
  <2> QED
    BY <1>0, <2>1, <2>2, <2>3, CallItem DEF x
<1>8. Call(k, doClose, Held, Done, {})
  BY <1>6, <1>7, CallPair DEF doClose
<1> QED
  BY <1>5, <1>8

LEMMA CallSet ==
  ASSUME NEW k, NEW st, NEW P, Stable(k, P), NEW Q,
         \A a \in P : [a EXCEPT !.state = st] \in Conditions => [a EXCEPT !.state = st] \in Q
  PROVE  Call(k, <<Set(st)>>, P, Q, {})
<1> DEFINE x == Set(st)
<1>1. x.do = "set" /\ x.state = st /\ Ordinary(x)
  BY Talking DEF Ordinary
<1> HIDE DEF x
<1>2. ASSUME NEW a \in P, NEW e, NEW b, Leads(x, a, e, b)
      PROVE  e \in {<<>>} /\ Call(k, e, {b}, Q, {})
  <2>1. e = <<>> /\ b = [a EXCEPT !.state = st] /\ b \in Conditions
    BY <1>1, <1>2 DEF Leads
  <2>2. {b} \subseteq Q
    BY <2>1
  <2> QED
    BY <2>1, <2>2, CallNone
<1>3. \A a \in P : ~Throws(x, a)
  BY <1>1 DEF Throws
<1> QED
  BY <1>1, <1>2, <1>3, CallItem DEF x

(* A closed port, whatever the scanner does.                               *)
Fresh == {a \in Conditions : ~a.busy /\ a.fd = "closed"}

LEMMA FreshStable == ASSUME NEW k PROVE Stable(k, Fresh)
<1>1. ASSUME NEW a \in Fresh, NEW b, Meddles(k, a, b) PROVE b \in Fresh
  <2>0. a \in Conditions /\ b \in Conditions /\ ~a.busy /\ a.fd = "closed"
    BY <1>1 DEF Fresh, Meddles
  <2>1. CASE b = [a EXCEPT !.quiet = TRUE]
    BY <2>0, <2>1, ConditionsAre DEF Fresh
  <2>2. CASE \E st \in States : b = [a EXCEPT !.state = st]
    BY <2>0, <2>2, ConditionsAre DEF Fresh
  <2> QED
    BY <1>1, <2>0, <2>1, <2>2 DEF Meddles
<1> QED
  BY <1>1 DEF Stable, Fresh

LEMMA CallOpen ==
  ASSUME NEW k
  PROVE  Call(k, open, Fresh, Silenced, Shut)
<1>0. Stable(k, Held) /\ Stable(k, Ported) /\ Stable(k, Silenced) /\ Stable(k, Shut)
  BY StableSets
<1>1. Stable(k, Fresh)
  BY FreshStable
<1>2. Call(k, close, Fresh, Fresh, Shut)
  <2> DEFINE l == <<Try(reset, <<>>), Do("closePort")>>
             x == IfPort(l)
  <2>1. x.do = "ifPort" /\ Ordinary(x)
    BY IfPortIs DEF Ordinary
  <2> HIDE DEF x
  <2>2. ASSUME NEW a \in Fresh, NEW e, NEW b, Leads(x, a, e, b)
        PROVE  e \in {<<>>} /\ Call(k, e, {b}, Fresh, Shut)
    <3>1. e = <<>> /\ {b} \subseteq Fresh
      BY <2>1, <2>2 DEF Leads, Fresh
    <3> QED
      BY <3>1, CallNone
  <2>4. \A a \in Fresh : ~Throws(x, a)
    BY <2>1 DEF Throws
  <2>5. Call(k, <<x>>, Fresh, Fresh, Shut)
    BY <1>1, <2>1, <2>2, <2>4, CallItem
  <2> QED
    BY <2>5 DEF close, x
<1>3. Call(k, <<Do("openPort")>>, Fresh, Ported, Shut)
  <2> DEFINE x == Do("openPort")
  <2>1. x.do = "openPort" /\ Ordinary(x)
    BY Talking DEF Ordinary
  <2> HIDE DEF x
  <2>2. ASSUME NEW a \in Fresh, NEW e, NEW b, Leads(x, a, e, b)
        PROVE  e \in {<<>>} /\ Call(k, e, {b}, Ported, Shut)
    <3>1. e = <<>> /\ b = [a EXCEPT !.fd = "open"] /\ b \in Conditions
      BY <2>1, <2>2 DEF Leads
    <3>2. {b} \subseteq Ported
      BY <3>1, ConditionsAre DEF Fresh, Ported, Held
    <3> QED
      BY <3>1, <3>2, CallNone
  <2>3. \A a \in Fresh : Throws(x, a) => a \in Shut
    BY <2>1 DEF Throws, Fresh, Shut, Held
  <2> QED
    BY <1>1, <2>1, <2>2, <2>3, CallItem DEF x
<1> DEFINE B == <<Do("flush"), Try(reset, setToSCIP2 \o reset)>>
           T == B \o querySensorConfig \o queryVersionInformation
           H == <<Do("dropPort"), Do("throw")>>
<1>4. Call(k, B, Ported, Silenced, Silenced)
  <2>1. Call(k, <<Do("flush")>>, Ported, Ported, Silenced)
    <3> DEFINE x == Do("flush")
    <3>1. x.do = "flush" /\ Ordinary(x)
      BY Talking DEF Ordinary
    <3> HIDE DEF x
    <3>2. ASSUME NEW a \in Ported, NEW e, NEW b, Leads(x, a, e, b)
          PROVE  e \in {<<>>} /\ Call(k, e, {b}, Ported, Silenced)
      <4>1. e = <<>> /\ {b} \subseteq Ported
        BY <3>1, <3>2 DEF Leads
      <4> QED
        BY <4>1, CallNone
    <3>3. ASSUME NEW a \in Ported, Throws(x, a) PROVE a \in Silenced
      BY <3>1, <3>3, ConditionsAre DEF Throws, Ported, Silenced, Held
    <3> QED
      BY <1>0, <3>1, <3>2, <3>3, CallItem DEF x
  <2>2. Call(k, setToSCIP2 \o reset, Silenced, Silenced, Silenced)
    <3>1. Call(k, setToSCIP2, Silenced, Silenced, Silenced)
      BY <1>0, CallQueries
    <3>2. Silenced \subseteq Ported
      BY DEF Silenced
    <3>3. Call(k, reset, Silenced, Silenced, Silenced)
      BY <3>2, CallReset, CallWeaker
    <3> QED
      BY <3>1, <3>3, CallCat
  <2>3. Call(k, <<Try(reset, setToSCIP2 \o reset)>>, Ported, Silenced, Silenced)
    BY <1>0, <2>2, CallReset, CallTry
  <2> QED
    BY <2>1, <2>3, CallPair
<1>5. Call(k, T, Ported, Silenced, Silenced)
  <2> HIDE DEF B
  <2>1. Call(k, querySensorConfig, Silenced, Silenced, Silenced)
        /\ Call(k, queryVersionInformation, Silenced, Silenced, Silenced)
    BY <1>0, CallQueries
  <2>2. Call(k, B \o querySensorConfig, Ported, Silenced, Silenced)
    BY <1>4, <2>1, CallCat
  <2> QED
    BY <2>1, <2>2, CallCat
<1>6. Call(k, H, Silenced, Silenced, Shut)
  <2>1. Call(k, <<Do("dropPort")>>, Silenced, Shut, Shut)
    BY ShutsPort, Talking, CallWeaker
  <2>2. Call(k, <<Do("throw")>>, Shut, Silenced, Shut)
    <3> DEFINE x == Do("throw")
    <3>1. x.do = "throw" /\ Ordinary(x)
      BY Talking DEF Ordinary
    <3> HIDE DEF x
    <3>2. \A a \in Shut : \A e, b : ~Leads(x, a, e, b)
      BY <3>1 DEF Leads
    <3> QED
      BY <1>0, <3>1, <3>2, CallItem DEF x
  <2> QED
    BY <2>1, <2>2, CallPair
<1>7. Call(k, <<Try(T, H)>>, Ported, Silenced, Shut)
  <2> HIDE DEF T, H
  <2> QED
    BY <1>0, <1>5, <1>6, CallTry
<1>8. Call(k, <<Do("openPort"), Try(T, H)>>, Fresh, Silenced, Shut)
  BY <1>3, <1>7, CallPair
<1> QED
  BY <1>2, <1>8, CallCat DEF open

(* A status that is not 0 ends doOpen() with doClose().                    *)
LEMMA StatusRight ==
  ASSUME NEW k, NEW P, Stable(k, P), NEW m, IsList(m), NoCatch(m),
         NEW c, c.do = "catch", NEW r, IsList(r),
         Rights(k, m \o Then(c, r), P), Rights(k, doClose \o r, P)
  PROVE  Rights(k, <<Do("status")>> \o (m \o Then(c, r)), P)
<1> DEFINE x == Do("status")
           d == Then(c, r)
           l == Then(x, m \o d)
<1>1. x.do = "status"
  BY Talking
<1>2. IsList(d) /\ CatchAt(d) = 1 /\ Beyond(d) = r
  BY ListThen
<1> HIDE DEF x, d
<1>3. IsList(m \o d) /\ IsList(<<x>>) /\ NoCatch(<<x>>)
  BY <1>1, <1>2, ListCat, ListOne
<1>4. l = <<x>> \o (m \o d) /\ IsList(l) /\ l # <<>> /\ Head(l) = x /\ Tail(l) = m \o d
  BY <1>3, ListThen
<1> HIDE DEF l
<1>5. Beyond(l) = r
  <2>1. l = (<<x>> \o m) \o d
    <3>1. IsList(m) /\ IsList(<<x>>) /\ IsList(d)
      BY <1>2, <1>3
    <3>2. (<<x>> \o m) \o d = <<x>> \o (m \o d)
      BY <3>1, ListAssoc
    <3> QED
      BY <1>4, <3>2
  <2>2. IsList(<<x>> \o m) /\ NoCatch(<<x>> \o m)
    BY <1>3, ListCat
  <2>3. Beyond((<<x>> \o m) \o d) = Beyond(d)
    BY <1>2, <2>2, ListCat
  <2> QED
    BY <1>2, <2>1, <2>3
<1>6. <<>> \o (m \o d) = m \o d
  BY <1>3, ListNone
<1>7. \A a \in P : Here(k, l, a)
  BY <1>1, <1>4 DEF Here, Busy, Stable
<1>8. ASSUME NEW a \in P, NEW n, NEW b, Reaches(k, l, a, n, b)
      PROVE  n \in {m \o d, doClose \o r} /\ Right(k, n, b)
  <2>1. b = a /\ n \in {m \o d, doClose \o r}
    BY <1>1, <1>4, <1>5, <1>6, <1>8 DEF Reaches, Leads, Throws
  <2> QED
    BY <2>1 DEF Rights, d
<1>9. \A a \in P : Right(k, l, a)
  BY <1>7, <1>8, Unfold
<1> QED
  BY <1>4, <1>9 DEF Rights, d, x

(* At rest, no scan thread at work; and with an open driver.               *)
Still == {a \in Resting : ~a.busy}
Operable == {a \in Held : a.state = "OPENED"}

LEMMA StableMain ==
  /\ Stable(main, Still) /\ Stable(main, Operable) /\ Stable(main, Resting)
  /\ Done \subseteq Still /\ Operable \subseteq Still /\ Still \subseteq Resting
<1>0. /\ \A a \in Still : a \in Held /\ (a.state = "CLOSED" => a.fd = "closed")
      /\ \A a \in Held : (a.state = "CLOSED" => a.fd = "closed") => a \in Still
      /\ Held \subseteq Conditions /\ \A a \in Held : ~a.busy
  BY DEF Still, Resting, Held
<1>1. ASSUME NEW a \in Held, NEW b, Meddles(main, a, b)
      PROVE  b \in Held /\ b.state = a.state /\ (b.fd = "closed") = (a.fd = "closed")
  <2>0. a \in Conditions /\ b \in Conditions /\ ~a.busy /\ (a.fd = "closed" => a.quiet)
    BY <1>1 DEF Held, Meddles
  <2>1. CASE b = [a EXCEPT !.quiet = TRUE]
    BY <2>0, <2>1, ConditionsAre DEF Held
  <2>2. CASE a.fd = "open" /\ b = [a EXCEPT !.fd = "dead", !.quiet = TRUE]
    BY <2>0, <2>2, ConditionsAre DEF Held
  <2> QED
    BY <1>1, <2>0, <2>1, <2>2 DEF Meddles
<1>2. Stable(main, Still)
  BY <1>0, <1>1 DEF Stable
<1>3. Stable(main, Operable)
  BY <1>0, <1>1 DEF Stable, Operable
<1>4. Stable(main, Resting)
  <2>1. ASSUME NEW a \in Resting, a.busy, NEW b, Meddles(main, a, b) PROVE b \in Resting
    <3>0. a \in Conditions /\ b \in Conditions
      BY <2>1 DEF Resting, Meddles
    <3>1. CASE b = [a EXCEPT !.quiet = TRUE]
      BY <2>1, <3>0, <3>1, ConditionsAre DEF Resting
    <3>2. CASE a.fd = "open" /\ b = [a EXCEPT !.fd = "dead", !.quiet = TRUE]
      BY <2>1, <3>0, <3>2, ConditionsAre DEF Resting
    <3> QED
      BY <2>1, <3>0, <3>1, <3>2 DEF Meddles
  <2>2. \A a \in Resting : a.busy \/ a \in Still
    BY DEF Still
  <2>3. Still \subseteq Resting /\ Resting \subseteq Conditions
    BY DEF Still, Resting
  <2> QED
    BY <1>2, <2>1, <2>2, <2>3 DEF Stable
<1>5. Done \subseteq Still /\ Operable \subseteq Still /\ Still \subseteq Resting
  <2>1. \A a \in Done : a \in Held /\ a.fd = "closed"
    BY DEF Done, Shut
  <2>2. \A a \in Operable : a \in Held /\ a.state # "CLOSED"
    BY DEF Operable
  <2> QED
    BY <1>0, <2>1, <2>2 DEF Still
<1> QED
  BY <1>2, <1>3, <1>4, <1>5

LEMMA CallPluggedIn ==
  ASSUME NEW k, NEW P, Stable(k, P), NEW n \in Nat
  PROVE  Call(k, PluggedIn(n), P, P, P)
<1> DEFINE T == {i \in 0 .. n : Call(k, PluggedIn(i), P, P, P)}
<1>1. Call(k, laserOn, P, P, P)
  BY CallQueries
<1>2. 0 \in T
  BY <1>1 DEF PluggedIn
<1>3. ASSUME NEW i \in 1 .. n, i - 1 \in T PROVE i \in T
  <2> DEFINE x == Again(i - 1)
  <2>1. x.do = "again" /\ x.retries = i - 1 /\ Ordinary(x)
    BY DEF Again, Ordinary
  <2>2. Call(k, PluggedIn(i - 1), P, P, P)
    BY <1>3
  <2> DEFINE X == {PluggedIn(i - 1)}
  <2> HIDE DEF x
  <2>3. ASSUME NEW a \in P, NEW e, NEW b, Leads(x, a, e, b)
        PROVE  e \in X /\ Call(k, e, {b}, P, P)
    <3>1. b = a /\ e = PluggedIn(i - 1) /\ {b} \subseteq P
      BY <2>1, <2>3 DEF Leads
    <3> QED
      BY <2>2, <3>1, CallWeaker
  <2>4. \A a \in P : ~Throws(x, a)
    BY <2>1 DEF Throws
  <2>5. Call(k, <<x>>, P, P, P)
    <3> HIDE DEF X
    <3> QED
      BY <2>1, <2>3, <2>4, CallItem
  <2>6. Call(k, <<Try(laserOn, <<x>>)>>, P, P, P)
    BY <1>1, <2>5, CallTry
  <2>7. PluggedIn(i) = <<Try(laserOn, <<x>>)>>
    BY DEF PluggedIn, x
  <2> QED
    BY <2>6, <2>7
<1>4. \A i \in 0 .. n : i \in T
  <2> HIDE DEF T
  <2> QED
    BY <1>2, <1>3, Upwards
<1> QED
  BY <1>4

LEMMA CallCalibrate ==
  ASSUME NEW k, NEW P, Stable(k, P)
  PROVE  Call(k, <<Do("calibrate")>>, P, P, P)
<1> DEFINE x == Do("calibrate")
           e1 == calcLatency \o <<Do("calibrated")>>
           X == {<<>>, e1}
<1>1. x.do = "calibrate" /\ Ordinary(x)
  BY Talking DEF Ordinary
<1>2. Call(k, <<Do("calibrated")>>, P, P, P)
  BY Talking, CallTalk DEF Talks
<1>3. Call(k, e1, P, P, P) /\ Call(k, <<>>, P, P, P)
  BY <1>2, CallQueries, CallCat, CallNone
<1> HIDE DEF x
<1>4. \A a \in P : \A e, b : Leads(x, a, e, b) => b = a /\ e \in X
  BY <1>1 DEF Leads
<1> HIDE DEF e1
<1>5. ASSUME NEW a \in P, NEW e, NEW b, Leads(x, a, e, b)
      PROVE  e \in X /\ Call(k, e, {b}, P, P)
  <2>1. e \in X /\ {b} \subseteq P /\ Call(k, e, P, P, P)
    BY <1>3, <1>4, <1>5
  <2> QED
    BY <2>1, CallWeaker
<1>6. \A a \in P : ~Throws(x, a)
  BY <1>1 DEF Throws
<1> HIDE DEF X
<1> QED
  BY <1>1, <1>5, <1>6, CallItem DEF x

(* doOpen(): an open driver, or a closed one with its port closed.         *)
LEMMA CallDoOpen ==
  ASSUME NEW known
  PROVE  Call(main, doOpen(known), Fresh, Still, {})
<1> DEFINE L == IF known THEN laserOn ELSE PluggedIn(Retries)
           S == <<Do("status")>>
           A == open \o <<Do("getID")>> \o getStatus
           N == <<Do("calibrate"), Set("OPENED")>>
           B == L \o N
           y == A \o S \o L \o N
           x == Try(y, doClose)
           c == Catch(x)
<1>0. /\ Stable(main, Silenced) /\ Stable(main, Held) /\ Stable(main, Still)
      /\ Silenced \subseteq Held /\ Shut \subseteq Held
  BY StableSets, StableMain DEF Silenced, Ported, Shut
<1>1. Call(main, A, Fresh, Silenced, Held)
  <2>1. Call(main, open, Fresh, Silenced, Held)
    BY <1>0, CallOpen, CallWeaker
  <2>2. Call(main, <<Do("getID")>>, Silenced, Silenced, Silenced)
    BY <1>0, Talking, CallTalk DEF Talks
  <2>3. Call(main, getStatus, Silenced, Silenced, Silenced)
    BY <1>0, CallQueries
  <2>4. Call(main, <<Do("getID")>>, Silenced, Silenced, Held) /\ Call(main, getStatus, Silenced, Silenced, Held)
    BY <1>0, <2>2, <2>3, CallWeaker
  <2>5. Call(main, open \o <<Do("getID")>>, Fresh, Silenced, Held)
    BY <2>1, <2>4, CallCat
  <2> QED
    BY <2>4, <2>5, CallCat
<1>2. Call(main, L, Silenced, Silenced, Silenced)
  <2>1. Call(main, laserOn, Silenced, Silenced, Silenced)
    BY <1>0, CallQueries
  <2>2. Call(main, PluggedIn(Retries), Silenced, Silenced, Silenced)
    BY <1>0, CallPluggedIn, HokuyoAssumption
  <2> QED
    BY <2>1, <2>2
<1>3. Call(main, N, Silenced, Operable, Silenced)
  <2>1. Call(main, <<Do("calibrate")>>, Silenced, Silenced, Silenced)
    BY <1>0, CallCalibrate
  <2>2. ASSUME NEW a \in Silenced, [a EXCEPT !.state = "OPENED"] \in Conditions
        PROVE  [a EXCEPT !.state = "OPENED"] \in Operable
    BY <2>2, ConditionsAre DEF Silenced, Ported, Held, Operable
  <2>3. Call(main, <<Set("OPENED")>>, Silenced, Operable, {})
    BY <1>0, <2>2, CallSet
  <2>4. Call(main, <<Set("OPENED")>>, Silenced, Operable, Silenced)
    BY <2>3, CallWeaker
  <2> QED
    BY <2>1, <2>4, CallPair
<1> HIDE DEF L, S, A, N
<1>4. Call(main, B, Silenced, Operable, Silenced)
  BY <1>2, <1>3, CallCat
<1>5. /\ IsList(A) /\ IsList(S) /\ IsList(L) /\ IsList(N) /\ IsList(B) /\ NoCatch(B)
      /\ NoCatch(S) /\ IsList(y)
  <2>1. IsList(S) /\ NoCatch(S)
    BY Talking, ListOne DEF S
  <2>2. IsList(A) /\ IsList(L) /\ IsList(N) /\ IsList(B) /\ NoCatch(B)
    BY <1>1, <1>2, <1>3, <1>4 DEF Call
  <2>3. IsList(A \o S)
    BY <2>1, <2>2, ListCat
  <2>4. IsList(A \o S \o L)
    BY <2>2, <2>3, ListCat
  <2>5. IsList(A \o S \o L \o N)
    BY <2>2, <2>4, ListCat
  <2> QED
    BY <2>1, <2>2, <2>5
<1>6. y = (A \o S) \o B
  <2>1. IsList(A \o S)
    BY <1>5, ListCat
  <2> DEFINE C == A \o S
  <2>2. IsList(C) /\ IsList(L) /\ IsList(N)
    BY <1>5, <2>1
  <2> HIDE DEF C
  <2>3. (C \o L) \o N = C \o (L \o N)
    BY <2>2, ListAssoc
  <2> QED
    BY <2>3 DEF C
<1>7. /\ x.do = "try" /\ x.body = y /\ c.do = "catch"
      /\ \A kind \in Kinds : c[kind] = doClose
  <2> HIDE DEF y
  <2>1. /\ x.do = "try" /\ x.body = y /\ c = [do |-> "catch", other |-> doClose, corrupted |-> doClose]
    BY TryIs
  <2> QED
    BY <2>1 DEF Kinds
<1>8. doOpen(known) = <<x>>
  BY DEF doOpen, L, S, A, N
<1> HIDE DEF x, y, B
<1>9. ASSUME NEW r, IsList(r), Rights(main, r, Still) PROVE Rights(main, <<x>> \o r, Fresh)
  <2> DEFINE d == Then(c, r)
  <2>1. IsList(d) /\ \A kind : Landing(d, kind) = c[kind] \o r
    BY <1>7, <1>9, ListThen
  <2>2. Rights(main, d, Still)
    BY <1>0, <1>7, <1>9, CatchRight
  <2>3. Rights(main, doClose \o r, Held)
    <3>1. Call(main, doClose, Held, Done, {})
      BY CallClose
    <3>2. Rights(main, r, Done) /\ CaughtIn(main, r, {})
      BY <1>9, StableMain DEF Rights, CaughtIn
    <3> QED
      BY <1>9, <3>1, <3>2 DEF Call
  <2>4. Rights(main, doClose \o r, Silenced) /\ CaughtIn(main, d, Held) /\ CaughtIn(main, d, Silenced)
    BY <1>0, <1>7, <2>1, <2>3 DEF Rights, CaughtIn
  <2>5. Rights(main, d, Operable)
    BY <2>2, StableMain DEF Rights
  <2>6. Rights(main, B \o d, Silenced)
    BY <1>4, <2>1, <2>4, <2>5 DEF Call
  <2>7. Rights(main, S \o (B \o d), Silenced)
    <3>1. IsList(B) /\ NoCatch(B) /\ c.do = "catch" /\ Stable(main, Silenced)
      BY <1>0, <1>5, <1>7
    <3> QED
      BY <1>9, <2>4, <2>6, <3>1, StatusRight DEF S
  <2> HIDE DEF d
  <2>8. IsList(B \o d)
    BY <1>5, <2>1, ListCat
  <2>9. IsList(S \o (B \o d)) /\ \A kind : Landing(S \o (B \o d), kind) = Landing(d, kind)
    <3>1. \A kind : Landing(B \o d, kind) = Landing(d, kind)
      BY <1>5, <2>1, ListCat
    <3>2. IsList(S \o (B \o d)) /\ \A kind : Landing(S \o (B \o d), kind) = Landing(B \o d, kind)
      BY <1>5, <2>8, ListCat
    <3> QED
      BY <3>1, <3>2
  <2>10. CaughtIn(main, S \o (B \o d), Held)
    BY <2>4, <2>9 DEF CaughtIn
  <2>11. Rights(main, A \o (S \o (B \o d)), Fresh)
    BY <1>1, <2>7, <2>9, <2>10 DEF Call
  <2>12. y \o d = A \o (S \o (B \o d))
    <3>1. ((A \o S) \o B) \o d = (A \o S) \o (B \o d)
      <4>1. IsList(A \o S) /\ IsList(B) /\ IsList(d)
        BY <1>5, <2>1, ListCat
      <4> DEFINE u == A \o S
      <4> HIDE DEF u
      <4>2. IsList(u)
        BY <4>1 DEF u
      <4>3. (u \o B) \o d = u \o (B \o d)
        BY <4>1, <4>2, ListAssoc
      <4> QED
        BY <4>3 DEF u
    <3>2. (A \o S) \o (B \o d) = A \o (S \o (B \o d))
      <4> DEFINE v == B \o d
      <4> HIDE DEF v
      <4>1. IsList(A) /\ IsList(S) /\ IsList(v)
        BY <1>5, <2>8 DEF v
      <4>2. (A \o S) \o v = A \o (S \o v)
        BY <4>1, ListAssoc
      <4> QED
        BY <4>2 DEF v
    <3> QED
      BY <1>6, <3>1, <3>2
  <2>13. Stable(main, Fresh)
    BY FreshStable
  <2> QED
    BY <1>5, <1>7, <1>9, <2>11, <2>12, <2>13, TryRight DEF d
<1>10. IsList(<<x>>) /\ NoCatch(<<x>>)
  BY <1>7, ListOne
<1> QED
  BY <1>8, <1>9, <1>10 DEF Call

(* Of the first opening also: the scanner may scan before it.              *)
Start == Resting \cup {a \in Fresh : a.state = "CLOSED"}

LEMMA StartIs ==
  /\ Stable(main, Start) /\ Resting \subseteq Start
  /\ \A a \in Start : a.state # "CLOSED" => a \in Resting
  /\ \A a \in Start : a.state = "CLOSED" /\ ~a.busy => a \in Fresh
  /\ \A a \in Resting : a.state = "OPENED" /\ ~a.busy => a \in Operable
  /\ Held \subseteq Conditions /\ Operable \subseteq Held /\ Operable \subseteq Resting
  /\ Done \subseteq Resting /\ Still \subseteq Resting /\ Resting \subseteq Conditions
  /\ \A a \in Resting : ~a.busy => a \in Still /\ a \in Held
<1>1. /\ \A a \in Resting : a \in Conditions
      /\ \A a \in Resting : ~a.busy => a \in Held /\ (a.state = "CLOSED" => a.fd = "closed")
      /\ \A a \in Fresh : a \in Conditions /\ ~a.busy /\ a.fd = "closed"
  BY DEF Resting, Fresh
<1>2. ASSUME NEW a \in Start, NEW b, Meddles(main, a, b) PROVE b \in Start
  <2>1. CASE a \in Resting
    BY <1>2, <2>1, StableMain DEF Stable, Start
  <2>2. CASE a \in Fresh /\ a.state = "CLOSED"
    <3>1. b \in Fresh
      BY <1>2, <2>2, FreshStable DEF Stable
    <3>2. b.state = a.state
      <4>1. b = [a EXCEPT !.quiet = TRUE]
        BY <1>1, <1>2, <2>2 DEF Meddles
      <4> QED
        BY <1>1, <2>2, <4>1, ConditionsAre
    <3> QED
      BY <2>2, <3>1, <3>2 DEF Start
  <2> QED
    BY <2>1, <2>2 DEF Start
<1>3. Start \subseteq Conditions
  BY <1>1 DEF Start
<1>4. \A a \in Start : (a.state # "CLOSED" => a \in Resting) /\ (a.state = "CLOSED" /\ ~a.busy => a \in Fresh)
  <2>1. \A a \in Resting : a.state = "CLOSED" /\ ~a.busy => a \in Fresh
    BY <1>1 DEF Fresh
  <2> QED
    BY <2>1 DEF Start
<1> QED
  BY <1>1, <1>2, <1>3, <1>4, StableMain DEF Stable, Start, Operable, Still, Held

(* What is done in one state only.                                         *)
LEMMA CallIf ==
  ASSUME NEW st, NEW l, NEW P, Stable(main, P), NEW Q, NEW E,
         Call(main, l, {a \in P : a.state = st /\ (a.busy => a.state = "RUNNING")}, Q, E),
         \A a \in P : a.state # st => a \in Q
  PROVE  Call(main, <<If(st, l)>>, P, Q, E)
<1> DEFINE x == If(st, l)
           X == {<<>>, l}
<1>1. x.do = "if" /\ x.state = st /\ x.then = l /\ Ordinary(x)
  BY DEF If, Ordinary
<1> HIDE DEF x
<1>2. <<>> \in X /\ l \in X
  OBVIOUS
<1> HIDE DEF X
<1>3. ASSUME NEW a \in P, NEW e, NEW b, Leads(x, a, e, b)
      PROVE  e \in X /\ Call(main, e, {b}, Q, E)
  <2>1. b = a /\ e = (IF a.state = st THEN l ELSE <<>>) /\ (a.busy => a.state = "RUNNING")
    BY <1>1, <1>3 DEF Leads, Able
  <2>2. CASE a.state = st
    <3>1. {b} \subseteq {c \in P : c.state = st /\ (c.busy => c.state = "RUNNING")}
      BY <2>1, <2>2
    <3> QED
      BY <1>2, <2>1, <2>2, <3>1, CallWeaker
  <2>3. CASE a.state # st
    <3>1. {b} \subseteq Q
      BY <2>1, <2>3
    <3> QED
      BY <1>2, <2>1, <2>3, <3>1, CallNone
  <2> QED
    BY <2>2, <2>3
<1>4. \A a \in P : ~Throws(x, a)
  BY <1>1 DEF Throws
<1>5. Call(main, <<x>>, P, Q, E)
  BY <1>1, <1>3, <1>4, CallItem
<1> QED
  BY <1>5 DEF x

(* Whether the scanner knows intensities, and the configuration for it.    *)
LEMMA CallProbe ==
  ASSUME NEW k, NEW c, NEW d, NEW P, Stable(k, P)
  PROVE  /\ Call(k, isIntensitySupported(<<SetConfig(c)>>, <<SetConfig(d)>>), P, P, P)
         /\ Call(k, <<SetConfig(c)>>, P, P, P)
<1> DEFINE G(cmd, g) == requestScans(cmd) \o <<serviceScanLimited>> \o <<SetConfig(g)>>
<1>1. \A g : Call(k, <<SetConfig(g)>>, P, P, P)
  BY Talking, CallTalk DEF Talks
<1>2. Call(k, <<serviceScanLimited>>, P, P, P)
  BY Talking, CallTalk DEF Talks, serviceScanLimited
<1>3. ASSUME NEW cmd \in {"MEp", "MDp"}, NEW g PROVE Call(k, G(cmd, g), P, P, P)
  <2>1. Call(k, requestScans(cmd), P, P, P)
    BY CallExchange
  <2>2. Call(k, requestScans(cmd) \o <<serviceScanLimited>>, P, P, P)
    BY <1>2, <2>1, CallCat
  <2> QED
    BY <1>1, <2>2, CallCat
<1>4. Call(k, G("MEp", c), P, P, P) /\ Call(k, G("MDp", d), P, P, P)
  BY <1>3
<1>5. isIntensitySupported(<<SetConfig(c)>>, <<SetConfig(d)>>) = <<Try(G("MEp", c), G("MDp", d))>>
  BY DEF isIntensitySupported
<1> HIDE DEF G
<1>6. Call(k, <<Try(G("MEp", c), G("MDp", d))>>, P, P, P)
  BY <1>4, CallTry
<1> QED
  BY <1>1, <1>5, <1>6

LEMMA CallOpened ==
  Call(main, <<Opened>>, Resting, Resting, Resting)
<1> DEFINE x == Do("opened")
           X == {postOpenHook(c) : c \in Config}
<1>1. x.do = "opened" /\ Ordinary(x) /\ Stable(main, Operable)
  BY Talking, StableMain DEF Ordinary
<1> HIDE DEF x
<1>2. ASSUME NEW c \in Config PROVE Call(main, postOpenHook(c), Operable, Operable, Operable)
  BY <1>1, CallProbe DEF postOpenHook
<1>3. ASSUME NEW a \in Operable, NEW e, NEW b, Leads(x, a, e, b)
      PROVE  e \in X /\ Call(main, e, {b}, Operable, Operable)
  <2>1. b = a /\ e \in X
    BY <1>1, <1>3 DEF Leads
  <2>2. Call(main, e, Operable, Operable, Operable) /\ {b} \subseteq Operable
    BY <1>2, <2>1
  <2> QED
    BY <2>1, <2>2, CallWeaker
<1>4. \A a \in Operable : ~Throws(x, a)
  BY <1>1 DEF Throws
<1>5. Call(main, <<x>>, Operable, Operable, Operable)
  <2> HIDE DEF X
  <2> QED
    BY <1>1, <1>3, <1>4, CallItem
<1>6. {a \in Resting : a.state = "OPENED" /\ (a.busy => a.state = "RUNNING")} \subseteq Operable
  BY StartIs
<1>7. Call(main, <<x>>, {a \in Resting : a.state = "OPENED" /\ (a.busy => a.state = "RUNNING")}, Resting, Resting)
  BY <1>5, <1>6, StartIs, CallWeaker
<1> QED
  BY <1>7, StableMain, CallIf DEF Opened, x

LEMMA CallGoOpened ==
  Call(main, goOpened, Start, Resting, Resting)
<1> DEFINE x == Do("doOpen")
           X == {doOpen(known) : known \in BOOLEAN}
<1>1. x.do = "doOpen" /\ Ordinary(x) /\ Stable(main, Fresh)
  BY Talking, FreshStable DEF Ordinary
<1> HIDE DEF x
<1>2. ASSUME NEW a \in Fresh, NEW e, NEW b, Leads(x, a, e, b)
      PROVE  e \in X /\ Call(main, e, {b}, Resting, Resting)
  <2>1. PICK known \in BOOLEAN : b = a /\ e = doOpen(known)
    BY <1>1, <1>2 DEF Leads
  <2>2. Call(main, doOpen(known), Fresh, Still, {}) /\ {b} \subseteq Fresh
    BY <2>1, CallDoOpen
  <2> QED
    BY <2>1, <2>2, StartIs, CallWeaker
<1>3. \A a \in Fresh : ~Throws(x, a)
  BY <1>1 DEF Throws
<1>4. Call(main, <<x>>, Fresh, Resting, Resting)
  <2> HIDE DEF X
  <2> QED
    BY <1>1, <1>2, <1>3, CallItem
<1> DEFINE A == {a \in Start : a.state = "CLOSED" /\ (a.busy => a.state = "RUNNING")}
<1>5. A \subseteq Fresh
  BY StartIs
<1> HIDE DEF A
<1>6. Call(main, <<x, Opened>>, A, Resting, Resting)
  <2>1. Call(main, <<x>>, A, Resting, Resting)
    BY <1>4, <1>5, CallWeaker
  <2> QED
    BY <2>1, CallOpened, CallPair
<1>7. Call(main, <<If("CLOSED", <<x, Opened>>)>>, Start, Resting, Resting)
  BY <1>6, StartIs, CallIf DEF A
<1> QED
  BY <1>7 DEF goOpened, x, Opened

(* A scan started, or the port closed.                                     *)
LEMMA CallDoStart ==
  ASSUME NEW c
  PROVE  Call(main, doStart(c), Operable, Resting, Resting)
<1> DEFINE cmd == IF c.intensity THEN "ME" ELSE "MD"
           l == laserOn \o requestScans(cmd) \o <<Do("started")>>
<1>0. Stable(main, Operable) /\ Stable(main, Resting)
  BY StableMain
<1>1. Call(main, laserOn, Operable, Operable, Operable)
  BY <1>0, CallQueries
<1>2. Call(main, <<Send(cmd)>>, Operable, Operable, Operable)
  <2> DEFINE x == Send(cmd)
  <2>1. x.do = "send" /\ x.cmd = cmd /\ Ordinary(x)
    BY Talking DEF Ordinary
  <2> HIDE DEF x
  <2>2. ASSUME NEW a \in Operable, NEW e, NEW b, Leads(x, a, e, b)
        PROVE  e \in {<<>>} /\ Call(main, e, {b}, Operable, Operable)
    <3>1. e = <<>> /\ a.fd = "open" /\ Sent(x.cmd, a, b) /\ b \in Conditions
      BY <2>1, <2>2 DEF Leads
    <3>2. PICK q \in BOOLEAN : b = [a EXCEPT !.quiet = q]
      BY <3>1 DEF Sent
    <3>3. {b} \subseteq Operable
      BY <3>1, <3>2, ConditionsAre DEF Operable, Held
    <3> QED
      BY <3>1, <3>3, CallNone
  <2> QED
    BY <1>0, <2>1, <2>2, CallItem DEF x
<1>3. Call(main, <<Wait(cmd)>>, Operable, Operable, Operable)
  BY <1>0, Talking, CallTalk DEF Talks
<1>4. Call(main, requestScans(cmd), Operable, Operable, Operable)
  BY <1>2, <1>3, CallPair DEF requestScans, sendCmdUnlimited
<1>5. Call(main, <<Do("started")>>, Operable, Resting, Operable)
  <2> DEFINE x == Do("started")
  <2>1. x.do = "started" /\ Ordinary(x)
    BY Talking DEF Ordinary
  <2> HIDE DEF x
  <2>2. ASSUME NEW a \in Operable, NEW e, NEW b, Leads(x, a, e, b)
        PROVE  e \in {<<>>} /\ Call(main, e, {b}, Resting, Operable)
    <3>1. e = <<>> /\ b \in Conditions /\ (b = a \/ b = [a EXCEPT !.state = "RUNNING", !.busy = TRUE])
      BY <2>1, <2>2 DEF Leads
    <3>2. b \in Resting
      <4>1. CASE b = a
        BY <4>1, StartIs
      <4>2. CASE b = [a EXCEPT !.state = "RUNNING", !.busy = TRUE]
        BY <3>1, <4>2, StartIs, ConditionsAre DEF Resting
      <4> QED
        BY <3>1, <4>1, <4>2
    <3>3. {b} \subseteq Resting
      BY <3>2
    <3> QED
      BY <3>1, <3>3, CallNone
  <2>3. \A a \in Operable : ~Throws(x, a)
    BY <2>1 DEF Throws
  <2> QED
    BY <1>0, <2>1, <2>2, <2>3, StartIs, CallItem DEF x
<1>6. Call(main, l, Operable, Resting, Operable)
  <2>1. Call(main, laserOn \o requestScans(cmd), Operable, Operable, Operable)
    BY <1>1, <1>4, CallCat
  <2> QED
    BY <1>5, <2>1, CallCat
<1>7. Call(main, doClose, Operable, Resting, Resting)
  BY CallClose, StartIs, CallWeaker
<1>8. doStart(c) = <<Try(l, doClose)>>
  BY DEF doStart
<1> HIDE DEF l
<1> QED
  BY <1>0, <1>6, <1>7, <1>8, CallTry

LEMMA CallStartIf ==
  Call(main, <<If("OPENED", <<Do("doStart")>>)>>, Resting, Resting, Resting)
<1> DEFINE x == Do("doStart")
           X == {doStart(c) : c \in Config}
           A == {a \in Resting : a.state = "OPENED" /\ (a.busy => a.state = "RUNNING")}
<1>1. x.do = "doStart" /\ Ordinary(x) /\ Stable(main, Operable)
  BY Talking, StableMain DEF Ordinary
<1> HIDE DEF x
<1>2. ASSUME NEW a \in Operable, NEW e, NEW b, Leads(x, a, e, b)
      PROVE  e \in X /\ Call(main, e, {b}, Resting, Resting)
  <2>1. PICK c \in Config : b = a /\ e = doStart(c)
    BY <1>1, <1>2 DEF Leads
  <2>2. Call(main, doStart(c), Operable, Resting, Resting) /\ {b} \subseteq Operable
    BY <2>1, CallDoStart
  <2> QED
    BY <2>1, <2>2, CallWeaker
<1>3. \A a \in Operable : ~Throws(x, a)
  BY <1>1 DEF Throws
<1>4. Call(main, <<x>>, Operable, Resting, Resting)
  <2> HIDE DEF X
  <2> QED
    BY <1>1, <1>2, <1>3, CallItem
<1>5. A \subseteq Operable
  BY StartIs
<1> HIDE DEF A
<1>6. Call(main, <<x>>, A, Resting, Resting)
  BY <1>4, <1>5, CallWeaker
<1> QED
  BY <1>6, StableMain, CallIf DEF A, x

LEMMA CallStopIf ==
  Call(main, <<If("RUNNING", doStop)>>, Resting, Resting, Resting)
<1> DEFINE x == Do("doStop")
           y == Do("join")
           S == Set("OPENED")
           e1 == <<S, y>>
           X == {<<>>, e1}
           A == {a \in Resting : a.state = "RUNNING" /\ (a.busy => a.state = "RUNNING")}
<1>0. Stable(main, Resting)
  BY StableMain
<1>1. x.do = "doStop" /\ Ordinary(x) /\ y.do = "join" /\ Ordinary(y)
  BY Talking DEF Ordinary
<1>2. ASSUME NEW a \in Resting, [a EXCEPT !.state = "OPENED"] \in Conditions
      PROVE  [a EXCEPT !.state = "OPENED"] \in Resting
  BY <1>2, StartIs, ConditionsAre DEF Resting, Held
<1>3. Call(main, <<S>>, Resting, Resting, Resting)
  <2>1. Call(main, <<S>>, Resting, Resting, {})
    BY <1>0, <1>2, CallSet
  <2> QED
    BY <2>1, CallWeaker
<1> HIDE DEF x, y, S
<1>4. Call(main, <<y>>, Resting, Resting, Resting)
  <2>1. ASSUME NEW a \in Resting, NEW e, NEW b, Leads(y, a, e, b)
        PROVE  e \in {<<>>} /\ Call(main, e, {b}, Resting, Resting)
    <3>1. e = <<>> /\ {b} \subseteq Resting
      BY <1>1, <2>1 DEF Leads
    <3> QED
      BY <3>1, CallNone
  <2>2. \A a \in Resting : ~Throws(y, a)
    BY <1>1 DEF Throws
  <2> QED
    BY <1>0, <1>1, <2>1, <2>2, CallItem
<1>5. Call(main, e1, Resting, Resting, Resting) /\ Call(main, <<>>, Resting, Resting, Resting)
  BY <1>3, <1>4, CallPair, CallNone
<1>6. \A a \in Resting : \A e, b : Leads(x, a, e, b) => b = a /\ e \in X
  BY <1>1 DEF Leads, x, S, y
<1> HIDE DEF e1
<1>7. ASSUME NEW a \in Resting, NEW e, NEW b, Leads(x, a, e, b)
      PROVE  e \in X /\ Call(main, e, {b}, Resting, Resting)
  <2>1. e \in X /\ {b} \subseteq Resting /\ Call(main, e, Resting, Resting, Resting)
    BY <1>5, <1>6, <1>7
  <2> QED
    BY <2>1, CallWeaker
<1>8. \A a \in Resting : ~Throws(x, a)
  BY <1>1 DEF Throws
<1>9. Call(main, <<x>>, Resting, Resting, Resting)
  <2> HIDE DEF X
  <2> QED
    BY <1>0, <1>1, <1>7, <1>8, CallItem
<1>10. A \subseteq Resting
  OBVIOUS
<1> HIDE DEF A
<1>11. Call(main, <<x>>, A, Resting, Resting)
  BY <1>9, <1>10, CallWeaker
<1> QED
  BY <1>0, <1>11, CallIf DEF A, x, doStop

LEMMA CallCloseIf ==
  Call(main, <<If("OPENED", doClose)>>, Resting, Resting, Resting)
<1> DEFINE A == {a \in Resting : a.state = "OPENED" /\ (a.busy => a.state = "RUNNING")}
<1>1. A \subseteq Held
  BY StartIs
<1> HIDE DEF A
<1>2. Call(main, doClose, A, Resting, Resting)
  BY <1>1, CallClose, StartIs, CallWeaker
<1> QED
  BY <1>2, StableMain, CallIf DEF A

LEMMA FiveCat ==
  ASSUME NEW a, NEW b, NEW c, NEW d, NEW e
  PROVE  <<a, b, c, d>> \o <<e>> = <<a, b, c, d, e>>
<1> DEFINE S == {a, b, c, d, e}
           s == <<a, b, c, d>> \o <<e>>
<1>1. <<a, b, c, d>> \in Seq(S) /\ <<e>> \in Seq(S) /\ Len(<<a, b, c, d>>) = 4 /\ Len(<<e>>) = 1
      /\ <<a, b, c, d>>[1] = a /\ <<a, b, c, d>>[2] = b /\ <<a, b, c, d>>[3] = c /\ <<a, b, c, d>>[4] = d
      /\ <<e>>[1] = e
  OBVIOUS
<1>2. s \in Seq(S) /\ Len(s) = 5 /\ s[1] = a /\ s[2] = b /\ s[3] = c /\ s[4] = d /\ s[5] = e
  BY <1>1, ConcatProperties
<1> HIDE DEF s, S
<1>3. s = <<s[1], s[2], s[3], s[4], s[5]>>
  BY <1>2
<1> QED
  BY <1>2, <1>3 DEF s

LEMMA CallTestsIf ==
  Call(main, <<If("OPENED", OpenedTests)>>, Resting, Resting, Resting)
<1> DEFINE P == Operable
           D == requestScans("MDp") \o <<serviceScanLimited>>
           a1 == Try(getStatus, <<>>)
           a2 == Try(laserOn, <<>>)
           a3 == Try(pollScan, <<>>)
           a4 == Try(D, <<>>)
           a5 == Try(laserOff, <<>>)
           A == {a \in Resting : a.state = "OPENED" /\ (a.busy => a.state = "RUNNING")}
<1>0. Stable(main, P)
  BY StableMain
<1>1. ASSUME NEW l, Call(main, l, P, P, P) PROVE Call(main, <<Try(l, <<>>)>>, P, P, P)
  <2>1. Call(main, <<>>, P, P, P)
    BY CallNone
  <2> QED
    BY <1>0, <1>1, <2>1, CallTry
<1>2. Call(main, D, P, P, P)
  <2>1. Call(main, requestScans("MDp"), P, P, P)
    BY <1>0, CallExchange
  <2>2. Call(main, <<serviceScanLimited>>, P, P, P)
    BY <1>0, Talking, CallTalk DEF Talks, serviceScanLimited
  <2> QED
    BY <2>1, <2>2, CallCat
<1>3. /\ Call(main, <<a1>>, P, P, P) /\ Call(main, <<a2>>, P, P, P) /\ Call(main, <<a3>>, P, P, P)
      /\ Call(main, <<a4>>, P, P, P) /\ Call(main, <<a5>>, P, P, P)
  <2> HIDE DEF P, D
  <2>1. Call(main, getStatus, P, P, P) /\ Call(main, laserOn, P, P, P) /\ Call(main, pollScan, P, P, P)
        /\ Call(main, laserOff, P, P, P)
    BY <1>0, CallQueries
  <2> QED
    BY <1>1, <1>2, <2>1
<1>4. OpenedTests = <<a1, a2, a3, a4, a5>>
  BY DEF OpenedTests
<1> HIDE DEF a1, a2, a3, a4, a5, P
<1>5. Call(main, <<a1, a2>>, P, P, P) /\ Call(main, <<a3, a4>>, P, P, P)
  BY <1>3, CallPair
<1>6. Call(main, <<a1, a2>> \o <<a3, a4>>, P, P, P)
  BY <1>5, CallCat
<1>7. Call(main, <<a1, a2, a3, a4>>, P, P, P)
  BY <1>6, FourCat
<1>8. Call(main, <<a1, a2, a3, a4>> \o <<a5>>, P, P, P)
  BY <1>3, <1>7, CallCat
<1>9. Call(main, OpenedTests, P, P, P)
  BY <1>4, <1>8, FiveCat
<1>10. A \subseteq Operable
  BY StartIs
<1> HIDE DEF A
<1>11. Call(main, OpenedTests, A, Resting, Resting)
  BY <1>9, <1>10, StartIs, CallWeaker DEF P
<1> QED
  BY <1>11, StableMain, CallIf DEF A

(* The settings are changed: only an open scanner is asked.                *)
LEMMA CallUpdate ==
  ASSUME NEW c
  PROVE  Call(main, <<Update(c)>>, Resting, Resting, Resting)
<1> DEFINE x == Update(c)
           s == <<SetConfig(CheckAngleRange(c))>>
           n == <<SetConfig(CheckAngleRange(NoIntensity(c)))>>
           u == isIntensitySupported(s, n)
           v == <<SetConfig(c)>>
           X == {s, u, v}
<1>0. Stable(main, Resting) /\ Stable(main, Operable)
  BY StableMain
<1>1. x.do = "update" /\ x.config = c /\ Ordinary(x)
  BY DEF Update, Ordinary
<1>2. Call(main, u, Operable, Operable, Operable) /\ Call(main, s, Operable, Operable, Operable)
      /\ Call(main, v, Resting, Resting, Resting)
  BY <1>0, CallProbe
<1>3. ASSUME NEW a \in Resting, NEW e, NEW b, Leads(x, a, e, b)
      PROVE  /\ b = a /\ (a.busy => a.state = "RUNNING") /\ e \in X
             /\ a.state = "OPENED" => e \in {s, u}
             /\ a.state # "OPENED" => e = v
  <2> HIDE DEF x
  <2>1. b = a /\ (a.busy => a.state = "RUNNING") /\ Updates(x.config, a, e)
    BY <1>1, <1>3 DEF Leads, Able
  <2> QED
    BY <1>1, <2>1 DEF Updates
<1> HIDE DEF x, s, u, v, X
<1>4. ASSUME NEW a \in Resting, NEW e, NEW b, Leads(x, a, e, b)
      PROVE  e \in X /\ Call(main, e, {b}, Resting, Resting)
  <2>1. CASE a.state = "OPENED"
    <3>1. {b} \subseteq Operable /\ e \in {s, u}
      BY <1>3, <1>4, <2>1, StartIs
    <3>2. Call(main, e, Operable, Operable, Operable)
      BY <1>2, <3>1
    <3> QED
      BY <1>3, <1>4, <3>1, <3>2, StartIs, CallWeaker
  <2>2. CASE a.state # "OPENED"
    <3>1. {b} \subseteq Resting /\ e = v
      BY <1>3, <1>4, <2>2
    <3> QED
      BY <1>2, <1>3, <1>4, <3>1, CallWeaker
  <2> QED
    BY <2>1, <2>2
<1>5. \A a \in Resting : ~Throws(x, a)
  BY <1>1 DEF Throws
<1>6. Call(main, <<x>>, Resting, Resting, Resting)
  BY <1>0, <1>1, <1>4, <1>5, CallItem
<1> QED
  BY <1>6 DEF x

-----------------------------------------------------------------------------
(* The lists that driver_base gives.                                       *)
LEMMA CallWalks ==
  /\ Call(main, goRunning, Start, Resting, Resting)
  /\ Call(main, goClosed, Resting, Resting, Resting)
  /\ \A st \in States : Call(main, goTo(st), Resting, Resting, Resting)
<1>1. Call(main, goRunning, Start, Resting, Resting)
  BY CallGoOpened, CallStartIf, CallCat DEF goRunning
<1>2. Call(main, goClosed, Resting, Resting, Resting)
  BY CallStopIf, CallCloseIf, CallPair DEF goClosed
<1>3. Call(main, goOpened, Resting, Resting, Resting) /\ Call(main, goRunning, Resting, Resting, Resting)
  BY <1>1, CallGoOpened, StartIs, CallWeaker
<1>4. Call(main, goOpened \o <<If("RUNNING", doStop)>>, Resting, Resting, Resting)
  BY <1>3, CallStopIf, CallCat
<1>5. ASSUME NEW st \in States PROVE Call(main, goTo(st), Resting, Resting, Resting)
  <2>1. goTo(st) \in {goClosed, goOpened \o <<If("RUNNING", doStop)>>, goRunning}
    BY DEF goTo, States
  <2> QED
    BY <1>2, <1>3, <1>4, <2>1
<1> QED
  BY <1>1, <1>2, <1>5

LEMMA RightsEmpty == Rights(main, <<>>, Resting) /\ CaughtIn(main, <<>>, Resting)
<1>1. \A a \in Resting : Here(main, <<>>, a)
  BY ListNone DEF Here, Resting
<1>2. \A a \in Resting : \A m, b : ~Reaches(main, <<>>, a, m, b)
  BY DEF Reaches
<1>3. \A a \in Resting : Right(main, <<>>, a)
  BY <1>1, <1>2, StableMain, Unfold
<1> QED
  BY <1>3, LandingEmpty DEF Rights, CaughtIn

LEMMA Walked ==
  ASSUME NEW l, NEW P, Call(main, l, P, Resting, Resting)
  PROVE  Rights(main, l, P)
<1>1. IsList(<<>>) /\ IsList(l)
  BY ListNone DEF Call
<1>2. Rights(main, l \o <<>>, P)
  BY <1>1, RightsEmpty DEF Call
<1> QED
  BY <1>1, <1>2, ListNone

LEMMA ExitRight == Rights(main, <<Do("exit")>>, Resting)
<1> DEFINE x == Do("exit")
           l == <<x>>
<1>1. x.do = "exit" /\ IsList(l) /\ l # <<>> /\ Head(l) = x
  BY Talking, ListOne
<1> HIDE DEF x, l
<1>2. \A a \in Resting : Here(main, l, a)
  BY <1>1, StartIs DEF Here
<1>3. ASSUME NEW a \in Resting, NEW m, NEW b, Reaches(main, l, a, m, b)
      PROVE  m \in {<<>>} /\ Right(main, m, b)
  <2>1. m = <<>> /\ b = a
    BY <1>1, <1>3 DEF Reaches, Leads, Throws
  <2> QED
    BY <2>1, RightsEmpty DEF Rights
<1>4. \A a \in Resting : Right(main, l, a)
  BY <1>2, <1>3, StableMain, Unfold
<1> QED
  BY <1>4 DEF Rights, l, x

LEMMA RequestsRight ==
  /\ Rights(main, goRunning, Start)
  /\ Rights(main, goClosed \o <<Do("exit")>>, Resting)
  /\ \A st \in States :
       /\ Rights(main, goTo("OPENED") \o <<If("OPENED", OpenedTests)>> \o goTo(st), Resting)
       /\ \A c : Rights(main, <<>> \o <<Update(c)>> \o goTo(st), Resting)
       /\ \A c : \A to \in States : Rights(main, goTo(to) \o <<Update(c)>> \o goTo(st), Resting)
<1>1. Rights(main, goRunning, Start)
  BY CallWalks, Walked
<1>2. Rights(main, goClosed \o <<Do("exit")>>, Resting)
  <2> DEFINE l == <<Do("exit")>>
  <2>1. IsList(l) /\ \A kind : Landing(l, kind) = <<>>
    <3>1. Do("exit").do # "catch"
      BY Talking
    <3>2. IsList(l) /\ NoCatch(l)
      BY <3>1, ListOne
    <3>3. CatchAt(l) = 0
      <4>1. Len(l) = 1 /\ l \in Seq({Do("exit")}) /\ l[1] = Do("exit")
        OBVIOUS
      <4> HIDE DEF l
      <4>2. CatchAt(l) \in 0..Len(l) /\ (CatchAt(l) # 0 => l[CatchAt(l)].do = "catch")
        BY <4>1, CatchAtIs
      <4> QED
        BY <3>2, <4>1, <4>2 DEF NoCatch
    <3> QED
      BY <3>2, <3>3 DEF Landing
  <2>2. CaughtIn(main, l, Resting)
    BY <2>1, RightsEmpty DEF CaughtIn, Rights
  <2> QED
    BY <2>1, <2>2, ExitRight, CallWalks DEF Call
<1>3. ASSUME NEW st \in States
      PROVE  Rights(main, goTo("OPENED") \o <<If("OPENED", OpenedTests)>> \o goTo(st), Resting)
  <2>1. "OPENED" \in States
    BY DEF States
  <2>2. Call(main, goTo("OPENED") \o <<If("OPENED", OpenedTests)>>, Resting, Resting, Resting)
    BY <2>1, CallWalks, CallTestsIf, CallCat
  <2>3. Call(main, goTo("OPENED") \o <<If("OPENED", OpenedTests)>> \o goTo(st), Resting, Resting, Resting)
    BY <2>2, CallWalks, CallCat
  <2> QED
    BY <2>3, Walked
<1>4. ASSUME NEW st \in States, NEW c, NEW l, Call(main, l, Resting, Resting, Resting)
      PROVE  Rights(main, l \o <<Update(c)>> \o goTo(st), Resting)
  <2>1. Call(main, l \o <<Update(c)>>, Resting, Resting, Resting)
    BY <1>4, CallUpdate, CallCat
  <2>2. Call(main, l \o <<Update(c)>> \o goTo(st), Resting, Resting, Resting)
    BY <2>1, CallWalks, CallCat
  <2> QED
    BY <2>2, Walked
<1>5. Call(main, <<>>, Resting, Resting, Resting)
  BY CallNone
<1> QED
  BY <1>1, <1>2, <1>3, <1>4, <1>5, CallWalks

-----------------------------------------------------------------------------
(* The scan thread.                                                        *)
LEMMA NotMain == None # main
BY DEF None, main

LEMMA EndRight ==
  /\ Rights(None, <<>>, Still)
  /\ \A r : IsList(r) => Rights(None, Then(Do("return"), r), Still)
<1>1. ASSUME NEW l, IsList(l), ~Busy(l), NEW a \in Still, l # <<>> => Head(l).do = "return"
      PROVE  Right(None, l, a)
  <2>1. \A c \in {a} : Here(None, l, c)
    BY <1>1, NotMain, StartIs DEF Here
  <2> QED
    BY <1>1, <2>1, NotMain, Unfold
<1>2. ASSUME NEW r, IsList(r) PROVE Rights(None, Then(Do("return"), r), Still)
  <2> DEFINE l == Then(Do("return"), r)
  <2>1. IsList(l) /\ l # <<>> /\ Head(l) = Do("return")
    BY <1>2, ListThen
  <2> HIDE DEF l
  <2>2. ~Busy(l) /\ Head(l).do = "return"
    BY <2>1, Talking DEF Busy
  <2> QED
    BY <1>1, <2>1, <2>2 DEF Rights, l
<1>3. Rights(None, <<>>, Still)
  BY <1>1, ListNone, Idles DEF Rights
<1> QED
  BY <1>2, <1>3

LEMMA WhileRight == Rights(None, <<Do("while")>>, Held)
<1> DEFINE x == Do("while")
           l == <<x>>
<1>1. x.do = "while" /\ IsList(l) /\ l # <<>> /\ Head(l) = x
  BY Talking, ListOne
<1> HIDE DEF x, l
<1>2. \A a \in Held : Here(None, l, a)
  BY <1>1, NotMain DEF Here, Busy, Held
<1>3. \A a \in Held : \A m, b : ~Reaches(None, l, a, m, b)
  BY <1>1 DEF Reaches, Leads, Throws
<1>4. \A a \in Held : Right(None, l, a)
  BY <1>2, <1>3, StableSets, Unfold
<1> QED
  BY <1>4 DEF Rights, l, x

LEMMA EndsRight == Rights(None, scanThreadEnds, Held)
<1> DEFINE P == Held
           T == Try(stopScanning, <<>>)
           S == Set("OPENED")
           D == <<Do("flush")>> \o laserOff
<1>0. Stable(None, P)
  BY StableSets
<1>1. Call(None, laserOff, P, P, P) /\ Call(None, D, P, P, P)
  <2>1. Call(None, laserOff, P, P, P) /\ Call(None, <<Do("flush")>>, P, P, P)
    BY <1>0, CallQueries
  <2> QED
    BY <2>1, CallCat
<1>2. stopScanning = <<Try(laserOff, D)>>
  BY DEF stopScanning
<1> HIDE DEF D
<1>3. Call(None, stopScanning, P, P, P)
  BY <1>0, <1>1, <1>2, CallTry
<1>4. Call(None, <<T>>, P, P, {})
  <2>1. Call(None, <<>>, P, P, {})
    BY CallNone
  <2> QED
    BY <1>0, <1>3, <2>1, CallTry
<1>5. ASSUME NEW a \in Held, [a EXCEPT !.state = "OPENED"] \in Conditions
      PROVE  [a EXCEPT !.state = "OPENED"] \in Still
  BY <1>5, StartIs, ConditionsAre DEF Still, Resting, Held
<1>6. Call(None, <<S>>, P, Still, {})
  BY <1>0, <1>5, CallSet
<1>7. scanThreadEnds = <<T, S>>
  BY DEF scanThreadEnds
<1> HIDE DEF T, S
<1>8. Call(None, scanThreadEnds, P, Still, {})
  BY <1>4, <1>6, <1>7, CallPair
<1>9. IsList(<<>>) /\ CaughtIn(None, <<>>, {}) /\ IsList(scanThreadEnds)
  BY <1>8, ListNone DEF CaughtIn, Rights, Call
<1>10. Rights(None, scanThreadEnds \o <<>>, P)
  BY <1>8, <1>9, EndRight DEF Call
<1> QED
  BY <1>9, <1>10, ListNone

(* The loop: a scan, or garbled data, and it goes on; or it ends, or the   *)
(* driver is closed.                                                       *)
LEMMA ScanRight == Rights(None, scanThread, Held)
<1> DEFINE x == ScanTry
           c == Catch(x)
           w == <<Do("while")>>
           d == Then(c, w)
           y == Do("useScan")
           u == Then(y, d)
<1>1. x.do = "try" /\ x.body = <<serviceScan, y>> /\ c.do = "catch"
      /\ c["other"] = doClose \o <<Do("return")>> /\ c["corrupted"] = <<>>
      /\ scanThread = <<x, Do("while")>>
  <2>1. ScanTry = [do |-> "try", body |-> <<serviceScan, Do("useScan")>>,
                   other |-> doClose \o <<Do("return")>>, corrupted |-> <<>>]
    BY DEF ScanTry, scanThread
  <2>2. Catch(ScanTry) = [do |-> "catch", other |-> ScanTry.other, corrupted |-> ScanTry.corrupted]
    BY DEF Catch
  <2> DEFINE h == doClose \o <<Do("return")>>
             b == <<serviceScan, Do("useScan")>>
  <2>3. ScanTry = [do |-> "try", body |-> b, other |-> h, corrupted |-> <<>>]
    BY <2>1
  <2> HIDE DEF h, b
  <2>4. /\ ScanTry.do = "try" /\ ScanTry.body = b /\ ScanTry.other = h
        /\ ScanTry.corrupted = <<>>
    BY <2>3
  <2>5. Catch(ScanTry).do = "catch" /\ Catch(ScanTry)["other"] = h /\ Catch(ScanTry)["corrupted"] = <<>>
    BY <2>2, <2>4
  <2> QED
    BY <2>4, <2>5, ScanTryIs DEF h, b
<1>2. IsList(w) /\ IsList(d) /\ \A kind : Landing(d, kind) = c[kind] \o w
  <2>1. IsList(w)
    BY ListOne
  <2>2. c.do = "catch"
    BY <1>1
  <2> HIDE DEF w, c
  <2>3. IsList(Then(c, w)) /\ \A kind : Landing(Then(c, w), kind) = c[kind] \o w
    BY <2>1, <2>2, ListThen
  <2> QED
    BY <2>1, <2>3
<1>3. Stable(None, Held)
  BY StableSets
<1>4. y.do = "useScan"
  BY Talking
<1> HIDE DEF w, x, c, y
<1>5. Rights(None, d, Held)
  BY <1>1, <1>2, <1>3, WhileRight, CatchRight DEF w
<1>6. Rights(None, c["corrupted"] \o w, Held)
  BY <1>1, <1>2, WhileRight, ListNone DEF w
<1>7. Rights(None, c["other"] \o w, Held)
  <2> DEFINE q == Do("return")
  <2>1. Call(None, doClose, Held, Done, {})
    BY CallClose
  <2>2. IsList(doClose) /\ IsList(<<q>>)
    BY <2>1, ListOne DEF Call
  <2>3. Then(q, w) = <<q>> \o w /\ IsList(Then(q, w)) /\ Rights(None, Then(q, w), Still)
    BY <1>2, ListThen, EndRight
  <2> HIDE DEF q
  <2>4. (doClose \o <<q>>) \o w = doClose \o Then(q, w)
    BY <1>2, <2>2, <2>3, ListAssoc
  <2>5. Rights(None, Then(q, w), Done) /\ CaughtIn(None, Then(q, w), {})
    BY <2>3, StableMain DEF Rights, CaughtIn
  <2>6. Rights(None, doClose \o Then(q, w), Held)
    BY <2>1, <2>3, <2>5 DEF Call
  <2> QED
    BY <1>1, <2>4, <2>6 DEF q
<1> HIDE DEF d
<1>8. IsList(u) /\ u # <<>> /\ Head(u) = y /\ Tail(u) = d
      /\ \A kind : Landing(u, kind) = Landing(d, kind)
  BY <1>2, <1>4, ListThen
<1>9. u = <<y>> \o d /\ <<>> \o d = d
  BY <1>2, ListThen, ListNone
<1> HIDE DEF u
<1>10. Rights(None, u, Held)
  <2>1. \A a \in Held : Here(None, u, a)
    BY <1>4, <1>8, NotMain DEF Here, Busy, Held
  <2>2. ASSUME NEW a \in Held, NEW m, NEW b, Reaches(None, u, a, m, b)
        PROVE  m \in {d, scanThreadEnds} /\ Right(None, m, b)
    <3>1. b = a /\ m \in {d, scanThreadEnds}
      BY <1>4, <1>8, <1>9, <2>2 DEF Reaches, Leads, Throws
    <3> QED
      BY <1>5, <3>1, EndsRight DEF Rights
  <2>3. \A a \in Held : Right(None, u, a)
    BY <1>3, <2>1, <2>2, Unfold
  <2> QED
    BY <2>3 DEF Rights
<1>11. CaughtIn(None, u, Held)
  BY <1>2, <1>6, <1>7, <1>8 DEF CaughtIn, Kinds
<1>12. Call(None, <<serviceScan>>, Held, Held, Held)
  BY <1>3, Talking, CallTalk DEF Talks, serviceScan
<1>13. Rights(None, <<serviceScan>> \o u, Held)
  BY <1>8, <1>10, <1>11, <1>12 DEF Call
<1>14. x.body \o d = <<serviceScan>> \o u
  <2>1. IsList(<<serviceScan>>) /\ IsList(<<y>>)
    BY ListOne
  <2>2. (<<serviceScan>> \o <<y>>) \o d = <<serviceScan>> \o (<<y>> \o d)
    <3> DEFINE f == <<serviceScan>>
               g == <<y>>
    <3> HIDE DEF f, g
    <3>1. IsList(f) /\ IsList(g) /\ IsList(d)
      BY <1>2, <2>1 DEF f, g
    <3>2. (f \o g) \o d = f \o (g \o d)
      BY <3>1, ListAssoc
    <3> QED
      BY <3>2 DEF f, g
  <2> QED
    BY <1>1, <1>9, <2>2, PairIs
<1>15. IsList(x.body)
  BY <1>1, ListOne, ListCat, PairIs
<1>16. Rights(None, <<x>> \o w, Held)
  BY <1>1, <1>2, <1>3, <1>13, <1>14, <1>15, TryRight DEF d, c
<1> QED
  BY <1>1, <1>16, PairIs DEF w

Fixed == UNCHANGED <<fd, scanner, state_, faults>>

Actions(t) ==
  /\ laserFlush(t) => At(t, "flush")
  /\ laserWrite(t) => At(t, "send")
  /\ laserReadline(t) \/ TooMuchSkipped(t) \/ ReadFails(t) => At(t, "read")
  /\ openPort(t) => At(t, "openPort")
  /\ closePort(t) => At(t, "closePort") \/ At(t, "dropPort")
  /\ ifPort(t) => At(t, "ifPort")
  /\ ControlStep(t) => Control(t)
  /\ Checked(t) => At(t, "require") \/ At(t, "status")
  /\ BeginOpen(t) => At(t, "doOpen")
  /\ getID(t) => At(t, "getID")
  /\ Calibrate(t) => At(t, "calibrate") \/ At(t, "calibrated")
  /\ SetState(t) => At(t, "set")
  /\ SetTheConfig(t) => At(t, "config")
  /\ useScan(t) => At(t, "useScan")

ControlNames == {"try", "catch", "throw", "return", "if", "while", "opened", "update",
                 "again", "doStart"}

StepNames == ControlNames \cup
  {"flush", "send", "read", "openPort", "closePort", "dropPort", "ifPort", "require", "status",
   "doOpen", "getID", "calibrate", "calibrated", "set", "config", "useScan"}

LEMMA ActionsAre == \A t : Actions(t)
BY DEF Actions, laserFlush, laserWrite, laserReadline, TooMuchSkipped, ReadFails, openPort,
       closePort, ifPort, ControlStep, Checked, BeginOpen, getID, Calibrate, SetState,
       SetTheConfig, useScan

LEMMA ControlAre == \A t : Control(t) => \E n \in ControlNames : At(t, n)
BY DEF Control, ControlNames

LEMMA StepOf ==
  ASSUME NEW t, Step(t)
  PROVE  LET n == Head(todo[t]).do IN
         /\ todo[t] # <<>> /\ node = "up" /\ n \in StepNames
         /\ n = "flush" => laserFlush(t)
         /\ n = "send" => laserWrite(t)
         /\ n = "read" => laserReadline(t) \/ TooMuchSkipped(t) \/ ReadFails(t)
         /\ n = "openPort" => openPort(t)
         /\ n \in {"closePort", "dropPort"} => closePort(t)
         /\ n = "ifPort" => ifPort(t)
         /\ n \in ControlNames => ControlStep(t)
         /\ n \in {"require", "status"} => Checked(t)
         /\ n = "doOpen" => BeginOpen(t)
         /\ n = "getID" => getID(t)
         /\ n \in {"calibrate", "calibrated"} => Calibrate(t)
         /\ n = "set" => SetState(t)
         /\ n = "config" => SetTheConfig(t)
         /\ n = "useScan" => useScan(t)
<1>1. Actions(t) /\ (Control(t) => \E n \in ControlNames : At(t, n))
  BY ActionsAre, ControlAre
<1>2. \A n : At(t, n) <=> node = "up" /\ todo[t] # <<>> /\ Head(todo[t]).do = n
  BY DEF At
<1> DEFINE n == Head(todo[t]).do
<1>3. \E m \in StepNames : At(t, m)
  BY <1>1 DEF Step, Actions, StepNames
<1> QED
  BY <1>1, <1>2, <1>3 DEF Step, Actions, StepNames, ControlNames

LEMMA ThrowIs == ASSUME NEW t, NEW kind, Throw(t, kind) PROVE Goto(t, Landing(todo[t], kind))
BY DEF Throw, Landing

(* What each thing does to the list, the port and the state.               *)
Thrown(t) == \E kind \in Kinds : Goto(t, Landing(todo[t], kind))

LEMMA Talked ==
  ASSUME NEW t, Step(t), NEW x, x = Head(todo[t])
  PROVE  /\ x.do = "flush" => Fixed /\ IF fd = "open" THEN Goto(t, Rest(t)) ELSE Thrown(t)
         /\ x.do = "send" =>
              /\ UNCHANGED <<fd, state_, faults>>
              /\ IF fd = "open"
                 THEN Goto(t, Rest(t)) /\ scanner' = [scanner EXCEPT !.streaming = Streams(x.cmd)]
                 ELSE Thrown(t) /\ UNCHANGED scanner
         /\ x.do = "read" => Fixed /\ (UNCHANGED todo \/ Goto(t, Rest(t)) \/ Thrown(t))
         /\ x.do = "require" => Fixed /\ (Goto(t, Rest(t)) \/ Thrown(t))
         /\ x.do = "throw" => Fixed /\ Thrown(t)
         /\ x.do = "openPort" =>
              /\ UNCHANGED <<scanner, state_, faults>>
              /\ \/ fd' = "open" /\ Goto(t, Rest(t))
                 \/ UNCHANGED fd /\ ~scanner.plugged /\ Thrown(t)
         /\ x.do \in {"closePort", "dropPort"} =>
              UNCHANGED <<scanner, state_, faults>> /\ fd' = "closed" /\ Goto(t, Rest(t))
         /\ x.do = "ifPort" =>
              Fixed /\ Goto(t, (IF fd = "closed" THEN <<>> ELSE x.then) \o Rest(t))
         /\ x.do = "status" =>
              Fixed /\ (Goto(t, Rest(t)) \/ Goto(t, doClose \o Beyond(todo[t])))
<1>1. (Except(t) => Thrown(t)) /\ (Throw(t, "corrupted") => Thrown(t))
  BY ThrowIs DEF Except, Kinds, Thrown
<1>3. x.do = "flush" => Fixed /\ IF fd = "open" THEN Goto(t, Rest(t)) ELSE Thrown(t)
  BY <1>1, StepOf DEF laserFlush, Continue, Fixed, driverVars
<1>4. x.do = "send" =>
        /\ UNCHANGED <<fd, state_, faults>>
        /\ IF fd = "open"
           THEN Goto(t, Rest(t)) /\ scanner' = [scanner EXCEPT !.streaming = Streams(x.cmd)]
           ELSE Thrown(t) /\ UNCHANGED scanner
  BY <1>1, StepOf DEF laserWrite, Continue, driverVars
<1>5. x.do = "read" => Fixed /\ (UNCHANGED todo \/ Goto(t, Rest(t)) \/ Thrown(t))
  BY <1>1, StepOf DEF laserReadline, TooMuchSkipped, ReadFails, Continue, Fixed, driverVars, ports
<1>6. x.do = "require" => Fixed /\ (Goto(t, Rest(t)) \/ Thrown(t))
  <2> SUFFICES ASSUME x.do = "require" PROVE Fixed /\ (Goto(t, Rest(t)) \/ Thrown(t))
    OBVIOUS
  <2>1. Checked(t) /\ ~At(t, "status")
    BY StepOf DEF At
  <2> QED
    BY <1>1, <2>1 DEF Checked, Continue, Fixed, driverVars, ports
<1>7. x.do = "throw" => Fixed /\ Thrown(t)
  <2> SUFFICES ASSUME x.do = "throw" PROVE Fixed /\ Thrown(t)
    OBVIOUS
  <2>1. ControlStep(t) /\ \A n : At(t, n) => n = "throw"
    BY StepOf DEF At, ControlNames
  <2> QED
    BY <1>1, <2>1 DEF ControlStep, Control, Fixed, driverVars, ports
<1>8. x.do = "openPort" =>
        /\ UNCHANGED <<scanner, state_, faults>>
        /\ \/ fd' = "open" /\ Goto(t, Rest(t))
           \/ UNCHANGED fd /\ ~scanner.plugged /\ Thrown(t)
  BY <1>1, StepOf DEF openPort, Continue, driverVars
<1>9. x.do \in {"closePort", "dropPort"} =>
        UNCHANGED <<scanner, state_, faults>> /\ fd' = "closed" /\ Goto(t, Rest(t))
  BY StepOf DEF closePort, Continue, driverVars
<1>10. x.do = "ifPort" => Fixed /\ Goto(t, (IF fd = "closed" THEN <<>> ELSE x.then) \o Rest(t))
  BY StepOf DEF ifPort, Fixed, driverVars, ports
<1>11. x.do = "status" => Fixed /\ (Goto(t, Rest(t)) \/ Goto(t, doClose \o Beyond(todo[t])))
  <2> SUFFICES ASSUME x.do = "status"
               PROVE  Fixed /\ (Goto(t, Rest(t)) \/ Goto(t, doClose \o Beyond(todo[t])))
    OBVIOUS
  <2>1. Checked(t) /\ ~At(t, "require")
    BY StepOf DEF At
  <2> QED
    BY <2>1 DEF Checked, Continue, Fixed, driverVars, ports
<1> QED
  BY <1>3, <1>4, <1>5, <1>6, <1>7, <1>8, <1>9, <1>10, <1>11

LEMMA Controlled ==
  ASSUME NEW t, Step(t)
  PROVE  LET x == Head(todo[t])
             r == Rest(t)
         IN  /\ x.do = "try" => Fixed /\ Goto(t, x.body \o <<Catch(x)>> \o r)
             /\ x.do = "catch" => Fixed /\ Goto(t, r)
             /\ x.do = "return" => Fixed /\ Goto(t, <<>>)
             /\ x.do = "if" =>
                  Fixed /\ Goto(t, (IF state_ = x.state THEN x.then ELSE <<>>) \o r)
             /\ x.do = "while" =>
                  Fixed /\ Goto(t, IF state_ = "RUNNING" THEN scanThread ELSE scanThreadEnds)
             /\ x.do = "opened" => Fixed /\ Goto(t, postOpenHook(config_) \o r)
             /\ x.do = "update" => Fixed /\ Goto(t, config_update(x.config) \o r)
             /\ x.do = "again" => Fixed /\ Goto(t, PluggedIn(x.retries) \o r)
             /\ x.do = "doStart" => Fixed /\ Goto(t, doStart(config_) \o r)
             /\ x.do = "doOpen" => Fixed /\ Goto(t, doOpen(device_id_) \o r)
             /\ x.do \in {"getID", "calibrated", "config"} => Fixed /\ Goto(t, r)
             /\ x.do = "calibrate" =>
                  Fixed /\ (Goto(t, r) \/ Goto(t, calcLatency \o <<Do("calibrated")>> \o r))
             /\ x.do = "set" =>
                  /\ UNCHANGED <<fd, scanner, faults>>
                  /\ state_' = x.state /\ Goto(t, r)
             /\ x.do = "useScan" => Fixed /\ (Goto(t, r) \/ Goto(t, scanThreadEnds))
<1> DEFINE x == Head(todo[t])
           r == Rest(t)
<1>1. CASE x.do \in ControlNames
  <2>1. ControlStep(t) /\ \A n : At(t, n) => n = x.do
    BY <1>1, StepOf DEF At
  <2>2. Control(t) /\ Fixed
    BY <2>1 DEF ControlStep, Fixed, driverVars, ports
  <2> QED
    BY <1>1, <2>1, <2>2 DEF Control, Continue, ControlNames
<1>2. CASE x.do = "doOpen"
  BY <1>2, StepOf DEF BeginOpen, Fixed, ports
<1>3. CASE x.do \in {"getID", "config"}
  BY <1>3, StepOf DEF getID, SetTheConfig, Continue, Fixed, ports
<1>4. CASE x.do \in {"calibrate", "calibrated"}
  <2>1. Calibrate(t) /\ \A n : At(t, n) => n = x.do
    BY <1>4, StepOf DEF At
  <2> QED
    BY <1>4, <2>1 DEF Calibrate, Continue, Fixed, ports
<1>5. CASE x.do = "set"
  BY <1>5, StepOf DEF SetState, Continue, ports
<1>6. CASE x.do = "useScan"
  BY <1>6, StepOf DEF useScan, Fixed, driverVars, ports
<1> QED
  BY <1>1, <1>2, <1>3, <1>4, <1>5, <1>6 DEF ControlNames

-----------------------------------------------------------------------------
(* The conditions as the variables have them.                              *)
Cond(b) ==
  [fd |-> fd, quiet |-> (faults > 0 \/ scanner.streaming = None), state |-> state_, busy |-> b]

PortInv ==
  /\ fd \in {"closed", "open", "dead"} /\ faults \in Nat /\ device_id_ \in BOOLEAN
  /\ scanner \in [plugged : BOOLEAN, streaming : {None, "MD", "ME"}]
  /\ faults = 0 => fd # "dead" /\ scanner.plugged

LEMMA CondIs ==
  ASSUME PortInv, state_ \in States, NEW c \in BOOLEAN
  PROVE  Cond(c) \in Conditions
<1> DEFINE q == faults > 0 \/ scanner.streaming = None
<1>1. fd \in {"closed", "open", "dead"} /\ q \in BOOLEAN /\ (fd = "dead" => q)
  BY DEF PortInv
<1>2. Cond(c) = [fd |-> fd, quiet |-> q, state |-> state_, busy |-> c]
  BY DEF Cond
<1> HIDE DEF q
<1> QED
  BY <1>1, <1>2 DEF Conditions

LEMMA StreamsAre ==
  ASSUME PortInv, NEW cmd
  PROVE  /\ Streams(cmd) \in {None, "MD", "ME"}
         /\ cmd \in {"RS", "QT"} => Streams(cmd) = None
         /\ cmd \notin {"MD", "ME"} => Streams(cmd) \in {None, scanner.streaming}
BY DEF Streams, PortInv

LEMMA Stepping ==
  ASSUME PortInv, PortInv', state_ \in States, state_' \in States, config_ \in Config,
         NEW k, NEW t, Step(t), IsList(todo[t]), NEW c \in BOOLEAN,
         Able(Head(todo[t]), Cond(c)), Head(todo[t]).do \notin {"while", "return"}
  PROVE  \/ UNCHANGED todo /\ Cond(c)' = Cond(c)
         \/ \E m : Goto(t, m) /\ Reaches(k, todo[t], Cond(c), m, Cond(c)')
<1>1. PICK a : a = Cond(c)
  OBVIOUS
<1>2. PICK b : b = Cond(c)'
  OBVIOUS
<1> DEFINE x == Head(todo[t])
           r == Rest(t)
           l == todo[t]
           Goal == (UNCHANGED todo /\ b = a) \/ \E m : Goto(t, m) /\ Reaches(k, l, a, m, b)
<1>3. a \in Conditions /\ b \in Conditions
  <2>1. a \in Conditions
    BY <1>1, CondIs
  <2>2. Cond(c)' \in Conditions
    <3> DEFINE q == faults' > 0 \/ scanner'.streaming = None
    <3>1. fd' \in {"closed", "open", "dead"} /\ q \in BOOLEAN /\ (fd' = "dead" => q)
      BY DEF PortInv
    <3>2. Cond(c)' = [fd |-> fd', quiet |-> q, state |-> state_', busy |-> c]
      BY DEF Cond
    <3> HIDE DEF q
    <3> QED
      BY <3>1, <3>2 DEF Conditions
  <2> QED
    BY <1>2, <2>1, <2>2
<1>4. /\ a.fd = fd /\ a.state = state_ /\ (a.quiet <=> faults > 0 \/ scanner.streaming = None)
      /\ b.fd = fd' /\ b.state = state_' /\ (b.quiet <=> faults' > 0 \/ scanner'.streaming = None)
      /\ b.busy = a.busy
  BY <1>1, <1>2 DEF Cond
<1>5. UNCHANGED <<fd, scanner, state_, faults>> => b = a
  BY <1>1, <1>2 DEF Cond
<1>6. l # <<>> /\ x.do \in StepNames /\ r = Tail(l) /\ IsList(r) /\ <<>> \o r = r
  <2>1. l # <<>> /\ x.do \in StepNames /\ r = Tail(l)
    BY StepOf DEF Rest
  <2>2. PICK S : l \in Seq(S)
    BY DEF IsList
  <2>3. Tail(l) \in Seq(S)
    BY <2>1, <2>2, TailIs
  <2>4. IsList(r)
    BY <2>1, <2>3 DEF IsList
  <2> QED
    BY <2>1, <2>4, ListNone
<1>7. Able(x, a)
  BY <1>1
<1> HIDE DEF x, r, l
<1>8. ASSUME NEW e, Leads(x, a, e, b), Goto(t, e \o r) PROVE Goal
  BY <1>6, <1>8 DEF Reaches, x, l
<1>9. ASSUME Leads(x, a, <<>>, b), Goto(t, r) PROVE Goal
  BY <1>6, <1>8, <1>9
<1>10. ASSUME Throws(x, a), b = a, \E kind \in Kinds : Goto(t, Landing(l, kind)) PROVE Goal
  BY <1>6, <1>10 DEF Reaches, x, l
<1> SUFFICES Goal
  BY <1>1, <1>2 DEF Goal, l
<1> HIDE DEF Goal
<1>11. Thrown(t) => \E kind \in Kinds : Goto(t, Landing(l, kind))
  BY DEF Thrown, l
<1>12. x = Head(todo[t]) /\ r = Rest(t)
  BY DEF x, r
<1>13. CASE x.do = "flush"
  <2>1. b = a /\ IF fd = "open" THEN Goto(t, r) ELSE Thrown(t)
    BY <1>5, <1>12, <1>13, Talked DEF Fixed
  <2>2. fd = "open" => Leads(x, a, <<>>, b)
    BY <1>3, <1>4, <1>7, <1>13, <2>1 DEF Leads
  <2>3. fd # "open" => Throws(x, a)
    BY <1>4, <1>7, <1>13 DEF Throws
  <2> QED
    BY <1>9, <1>10, <1>11, <2>1, <2>2, <2>3
<1>14. CASE x.do \in {"read", "require", "throw"}
  <2>1. Fixed /\ (Thrown(t) \/ (x.do # "throw" /\ Goto(t, r)) \/ UNCHANGED todo)
    BY <1>12, <1>14, Talked
  <2>5. b = a
    BY <1>5, <2>1 DEF Fixed
  <2>2. x.do # "throw" => Leads(x, a, <<>>, b)
    BY <1>3, <1>7, <1>14, <2>5 DEF Leads
  <2>3. Throws(x, a)
    BY <1>7, <1>14 DEF Throws
  <2>4. UNCHANGED todo => Goal
    BY <2>5 DEF Goal
  <2> QED
    BY <1>9, <1>10, <1>11, <2>1, <2>2, <2>3, <2>4, <2>5
<1>15. CASE x.do = "status"
  <2>1. b = a /\ (Goto(t, r) \/ Goto(t, doClose \o Beyond(l)))
    BY <1>5, <1>12, <1>15, Talked DEF Fixed, l
  <2>2. Leads(x, a, <<>>, b)
    BY <1>3, <1>7, <1>15, <2>1 DEF Leads
  <2>3. ASSUME Goto(t, doClose \o Beyond(l)) PROVE Goal
    BY <1>6, <1>7, <1>15, <2>1, <2>3 DEF Goal, Reaches, x, l
  <2> QED
    BY <1>9, <2>1, <2>2, <2>3
<1>16. CASE x.do = "ifPort"
  <2> DEFINE e == IF fd = "closed" THEN <<>> ELSE x.then
  <2>1. b = a /\ Goto(t, e \o r)
    BY <1>5, <1>12, <1>16, Talked DEF Fixed
  <2>2. Leads(x, a, e, b)
    BY <1>3, <1>4, <1>7, <1>16, <2>1 DEF Leads
  <2> QED
    BY <1>8, <2>1, <2>2
<1>17. CASE x.do = "send"
  <2>1. /\ UNCHANGED <<fd, state_, faults>>
        /\ IF fd = "open"
           THEN Goto(t, r) /\ scanner' = [scanner EXCEPT !.streaming = Streams(x.cmd)]
           ELSE Thrown(t) /\ UNCHANGED scanner
    BY <1>12, <1>17, Talked
  <2>2. CASE fd = "open"
    <3> DEFINE q == faults > 0 \/ Streams(x.cmd) = None
    <3>1. scanner'.streaming = Streams(x.cmd)
      BY <2>1, <2>2 DEF PortInv
    <3>2. q \in BOOLEAN /\ b = [a EXCEPT !.quiet = q]
      <4>1. b.quiet = q /\ b.fd = a.fd /\ b.state = a.state /\ b.busy = a.busy
        BY <1>3, <1>4, <2>1, <3>1, ConditionsAre
      <4> QED
        BY <1>3, <4>1, ConditionsAre
    <3>3. Sent(x.cmd, a, b)
      <4>1. x.cmd \in {"RS", "QT"} => q
        BY StreamsAre
      <4>2. x.cmd \notin {"MD", "ME"} => (a.quiet => q)
        BY <1>4, StreamsAre
      <4> HIDE DEF q
      <4> QED
        BY <3>2, <4>1, <4>2 DEF Sent
    <3>4. Leads(x, a, <<>>, b)
      BY <1>3, <1>4, <1>7, <1>17, <2>2, <3>3 DEF Leads
    <3> QED
      BY <1>9, <2>1, <2>2, <3>4
  <2>3. CASE fd # "open"
    <3>1. Throws(x, a) /\ b = a
      BY <1>4, <1>5, <1>7, <1>17, <2>1, <2>3 DEF Throws
    <3> QED
      BY <1>10, <1>11, <2>1, <2>3, <3>1
  <2> QED
    BY <2>2, <2>3
<1>18. CASE x.do \in {"closePort", "dropPort"}
  <2>1. UNCHANGED <<scanner, state_, faults>> /\ fd' = "closed" /\ Goto(t, r)
    BY <1>12, <1>18, Talked
  <2>2. b = [a EXCEPT !.fd = "closed"]
    <3>1. b.fd = "closed" /\ b.quiet = a.quiet /\ b.state = a.state /\ b.busy = a.busy
      BY <1>3, <1>4, <2>1, ConditionsAre
    <3> QED
      BY <1>3, <3>1, ConditionsAre
  <2>3. Leads(x, a, <<>>, b)
    BY <1>3, <1>7, <1>18, <2>2 DEF Leads
  <2> QED
    BY <1>9, <2>1, <2>3
<1>19. CASE x.do = "openPort"
  <2>1. /\ UNCHANGED <<scanner, state_, faults>>
        /\ \/ fd' = "open" /\ Goto(t, r)
           \/ UNCHANGED fd /\ ~scanner.plugged /\ Thrown(t)
    BY <1>12, <1>19, Talked
  <2>2. CASE fd' = "open" /\ Goto(t, r)
    <3>1. b = [a EXCEPT !.fd = "open"]
      <4>1. b.fd = "open" /\ b.quiet = a.quiet /\ b.state = a.state /\ b.busy = a.busy
        BY <1>3, <1>4, <2>1, <2>2, ConditionsAre
      <4> QED
        BY <1>3, <4>1, ConditionsAre
    <3>2. Leads(x, a, <<>>, b)
      BY <1>3, <1>7, <1>19, <3>1 DEF Leads
    <3> QED
      BY <1>9, <2>2, <3>2
  <2>3. CASE UNCHANGED fd /\ ~scanner.plugged /\ Thrown(t)
    <3>1. faults > 0
      BY <2>3 DEF PortInv
    <3>2. Throws(x, a) /\ b = a
      BY <1>4, <1>5, <1>7, <1>19, <2>1, <2>3, <3>1 DEF Throws
    <3> QED
      BY <1>10, <1>11, <2>3, <3>2
  <2> QED
    BY <2>1, <2>2, <2>3
<1>20. CASE x.do \in {"try", "catch", "getID", "calibrated", "config", "again"}
  <2>1. /\ b = a
        /\ x.do = "try" => Goto(t, x.body \o <<Catch(x)>> \o r)
        /\ x.do = "again" => Goto(t, PluggedIn(x.retries) \o r)
        /\ x.do \in {"catch", "getID", "calibrated", "config"} => Goto(t, r)
    BY <1>5, <1>12, <1>20, Controlled DEF Fixed
  <2>2. /\ x.do = "try" => Leads(x, a, x.body \o <<Catch(x)>>, b)
        /\ x.do = "again" => Leads(x, a, PluggedIn(x.retries), b)
        /\ x.do \in {"catch", "getID", "calibrated", "config"} => Leads(x, a, <<>>, b)
    BY <1>3, <1>7, <2>1 DEF Leads
  <2> QED
    BY <1>8, <1>9, <1>20, <2>1, <2>2
<1>21. CASE x.do \in {"if", "calibrate", "useScan"}
  <2> DEFINE e == IF state_ = x.state THEN x.then ELSE <<>>
  <2>1. /\ b = a
        /\ x.do = "if" => Goto(t, e \o r)
        /\ x.do = "calibrate" =>
             Goto(t, r) \/ Goto(t, calcLatency \o <<Do("calibrated")>> \o r)
        /\ x.do = "useScan" => Goto(t, r) \/ Goto(t, scanThreadEnds)
    BY <1>5, <1>12, <1>21, Controlled DEF Fixed
  <2>2. /\ x.do = "if" => Leads(x, a, e, b)
        /\ x.do = "calibrate" => Leads(x, a, calcLatency \o <<Do("calibrated")>>, b)
        /\ x.do \in {"calibrate", "useScan"} => Leads(x, a, <<>>, b)
    BY <1>3, <1>4, <1>7, <2>1 DEF Leads
  <2>3. ASSUME x.do = "useScan", Goto(t, scanThreadEnds) PROVE Goal
    BY <1>6, <1>7, <2>1, <2>3 DEF Goal, Reaches, x, l
  <2> HIDE DEF e
  <2> QED
    BY <1>8, <1>9, <1>21, <2>1, <2>2, <2>3
<1>22. CASE x.do \in {"opened", "update", "doStart", "doOpen"}
  <2>1. /\ b = a
        /\ x.do = "opened" => Goto(t, postOpenHook(config_) \o r)
        /\ x.do = "update" => Goto(t, config_update(x.config) \o r)
        /\ x.do = "doStart" => Goto(t, doStart(config_) \o r)
        /\ x.do = "doOpen" => Goto(t, doOpen(device_id_) \o r)
    BY <1>5, <1>12, <1>22, Controlled DEF Fixed
  <2>2. Updates(x.config, a, config_update(x.config))
    BY <1>4 DEF Updates, config_update
  <2>3. device_id_ \in BOOLEAN
    BY DEF PortInv
  <2>4. /\ x.do = "opened" => Leads(x, a, postOpenHook(config_), b)
        /\ x.do = "update" => Leads(x, a, config_update(x.config), b)
        /\ x.do = "doStart" => Leads(x, a, doStart(config_), b)
        /\ x.do = "doOpen" => Leads(x, a, doOpen(device_id_), b)
    BY <1>3, <1>7, <2>1, <2>2, <2>3 DEF Leads
  <2> QED
    BY <1>8, <1>22, <2>1, <2>4
<1>23. CASE x.do = "set"
  <2>1. UNCHANGED <<fd, scanner, faults>> /\ state_' = x.state /\ Goto(t, r)
    BY <1>12, <1>23, Controlled
  <2>2. b = [a EXCEPT !.state = x.state]
    <3>1. b.fd = a.fd /\ b.quiet = a.quiet /\ b.state = x.state /\ b.busy = a.busy
      BY <1>3, <1>4, <2>1, ConditionsAre
    <3> QED
      BY <1>3, <3>1, ConditionsAre
  <2>3. Leads(x, a, <<>>, b)
    BY <1>3, <1>7, <1>23, <2>2 DEF Leads
  <2> QED
    BY <1>9, <2>1, <2>3
<1>24. x.do \notin {"while", "return"}
  BY DEF x
<1> QED
  BY <1>6, <1>13, <1>14, <1>15, <1>16, <1>17, <1>18, <1>19, <1>20, <1>21, <1>22, <1>23, <1>24
     DEF StepNames, ControlNames

LEMMA PortInit == Init => PortInv
<1> SUFFICES ASSUME Init PROVE PortInv
  OBVIOUS
<1>1. PICK s \in {None, "MD"} : scanner = [plugged |-> TRUE, streaming |-> s]
  BY DEF Init
<1>2. scanner \in [plugged : BOOLEAN, streaming : {None, "MD", "ME"}] /\ scanner.plugged = TRUE
  BY <1>1
<1>3. fd = "closed" /\ device_id_ = FALSE /\ faults = 0
  BY DEF Init
<1> QED
  BY <1>2, <1>3 DEF PortInv

LEMMA IdStays == ASSUME NEW t, Step(t), device_id_ \in BOOLEAN PROVE device_id_' \in BOOLEAN
BY DEF Step, laserFlush, laserWrite, laserReadline, TooMuchSkipped, ReadFails, openPort,
       closePort, ifPort, ControlStep, Checked, BeginOpen, getID, Calibrate, SetState,
       SetTheConfig, useScan, driverVars

LEMMA PortStep == ASSUME PortInv, NEW t, Step(t) PROVE PortInv'
<1>1. device_id_' \in BOOLEAN
  BY IdStays DEF PortInv
<1> DEFINE x == Head(todo[t])
<1>2. x.do \in StepNames
  BY StepOf
<1>3. CASE UNCHANGED <<fd, scanner, faults>>
  BY <1>1, <1>3 DEF PortInv
<1>4. CASE x.do = "send"
  <2>1. UNCHANGED <<fd, faults>> /\ (UNCHANGED scanner \/ scanner' = [scanner EXCEPT !.streaming = Streams(x.cmd)])
    BY <1>4, Talked
  <2>2. Streams(x.cmd) \in {None, "MD", "ME"}
    BY StreamsAre
  <2> QED
    BY <1>1, <2>1, <2>2 DEF PortInv
<1>5. CASE x.do \in {"openPort", "closePort", "dropPort"}
  <2>1. UNCHANGED <<scanner, faults>> /\ fd' \in {"open", "closed", fd}
    BY <1>5, Talked
  <2> QED
    BY <1>1, <2>1 DEF PortInv
<1>6. CASE x.do \in {"flush", "read", "require", "throw", "ifPort", "status"}
  <2>1. Fixed
    BY <1>6, Talked
  <2> QED
    BY <1>3, <2>1 DEF Fixed
<1>7. CASE x.do \in (ControlNames \cup {"doOpen", "getID", "calibrate", "calibrated", "set",
                                      "config", "useScan"}) \ {"throw"}
  <2>1. Fixed \/ UNCHANGED <<fd, scanner, faults>>
    BY <1>7, Controlled DEF ControlNames
  <2> QED
    BY <1>3, <2>1 DEF Fixed
<1> QED
  BY <1>2, <1>4, <1>5, <1>6, <1>7 DEF StepNames

LEMMA PortFault == ASSUME PortInv, Fault PROVE PortInv'
<1>1. faults' = faults + 1 /\ device_id_' = device_id_ /\ (Unplug \/ Garble \/ Lose \/ Refuse \/ FallSilent)
  BY DEF Fault, driverVars
<1>2. scanner' \in [plugged : BOOLEAN, streaming : {None, "MD", "ME"}] /\ fd' \in {"dead", fd}
  <2>1. scanner \in [plugged : BOOLEAN, streaming : {None, "MD", "ME"}]
    BY DEF PortInv
  <2>2. CASE Unplug
    <3>1. scanner' = [plugged |-> FALSE, streaming |-> None] /\ fd' = IF fd = "open" THEN "dead" ELSE fd
      BY <2>2 DEF Unplug
    <3> QED
      BY <3>1
  <2>3. CASE Garble \/ Lose \/ Refuse
    BY <2>1, <2>3 DEF Garble, Lose, Refuse
  <2>4. CASE FallSilent
    <3>1. scanner' = [scanner EXCEPT !.streaming = None] /\ fd' = fd
      BY <2>4 DEF FallSilent
    <3> QED
      BY <2>1, <3>1
  <2> QED
    BY <1>1, <2>2, <2>3, <2>4
<1> QED
  BY <1>1, <1>2 DEF PortInv

LEMMA PortNext == PortInv /\ [Next]_vars => PortInv'
<1> SUFFICES ASSUME PortInv, [Next]_vars PROVE PortInv'
  OBVIOUS
<1>1. CASE UNCHANGED <<fd, scanner, faults, device_id_>>
  BY <1>1 DEF PortInv
<1>2. CASE MainStep
  <2>1. CASE Step(main)
    BY <2>1, PortStep
  <2> QED
    BY <1>1, <1>2, <2>1 DEF MainStep, Started, Stopping, Join, Spin, Exit, ports, driverVars
<1>3. CASE \E s \in Threads : Step(s)
  BY <1>3, PortStep
<1>4. CASE (\E new \in Configs : Reconfigure(new)) \/ SelfTest \/ Shutdown
  BY <1>1, <1>4 DEF Reconfigure, SelfTest, Shutdown, Request, ports, driverVars
<1>5. CASE Scan \/ UNCHANGED vars
  BY <1>1, <1>5 DEF Scan, driverVars, vars
<1>6. CASE Plug
  BY <1>6 DEF Plug, PortInv, driverVars
<1> QED
  BY <1>2, <1>3, <1>4, <1>5, <1>6, PortFault DEF Next

-----------------------------------------------------------------------------
(* What each thread has to do is right.  With the shapes of the lists      *)
(* (TurnInv) this is inductive: Released is what is left of it at rest.    *)
AtWork == \E s \in Threads : Busy(todo[s])

WorkRight ==
  lost = 0 => /\ \A c \in BOOLEAN : (c <=> AtWork) => Right(main, todo[main], Cond(c))
              /\ \A s \in Threads : Busy(todo[s]) => Right(None, todo[s], Cond(FALSE))

ReleasedInv == TurnInv /\ PortInv /\ WorkRight

LEMMA CondParts ==
  ASSUME NEW c \in BOOLEAN
  PROVE  /\ Cond(c).fd = fd /\ Cond(c).state = state_ /\ Cond(c).busy = c
         /\ Cond(c).quiet <=> faults > 0 \/ scanner.streaming = None
         /\ UNCHANGED <<fd, scanner, state_, faults>> => Cond(c)' = Cond(c)
         /\ UNCHANGED <<fd, scanner, faults>> => Cond(c)' = [Cond(c) EXCEPT !.state = state_']
         /\ Cond(c)'.fd = fd' /\ Cond(c)'.state = state_' /\ Cond(c)'.busy = c
         /\ Cond(c)'.quiet <=> faults' > 0 \/ scanner'.streaming = None
<1> DEFINE q == faults > 0 \/ scanner.streaming = None
           p == faults' > 0 \/ scanner'.streaming = None
<1>1. /\ Cond(c) = [fd |-> fd, quiet |-> q, state |-> state_, busy |-> c]
      /\ Cond(c)' = [fd |-> fd', quiet |-> p, state |-> state_', busy |-> c]
      /\ UNCHANGED <<scanner, faults>> => p = q
  BY DEF Cond
<1>2. p \in BOOLEAN /\ q \in BOOLEAN
  OBVIOUS
<1> HIDE DEF p, q
<1>3. /\ Cond(c).fd = fd /\ Cond(c).state = state_ /\ Cond(c).busy = c /\ Cond(c).quiet = q
      /\ UNCHANGED <<fd, scanner, state_, faults>> => Cond(c)' = Cond(c)
      /\ UNCHANGED <<fd, scanner, faults>> => Cond(c)' = [Cond(c) EXCEPT !.state = state_']
      /\ Cond(c)'.fd = fd' /\ Cond(c)'.state = state_' /\ Cond(c)'.busy = c /\ Cond(c)'.quiet = p
  BY <1>1
<1> QED
  BY <1>3 DEF p, q

LEMMA CondNext ==
  ASSUME PortInv', state_' \in States, NEW c \in BOOLEAN
  PROVE  Cond(c)' \in Conditions
<1> DEFINE q == faults' > 0 \/ scanner'.streaming = None
<1>1. fd' \in {"closed", "open", "dead"} /\ q \in BOOLEAN /\ (fd' = "dead" => q)
  BY DEF PortInv
<1>2. Cond(c)' = [fd |-> fd', quiet |-> q, state |-> state_', busy |-> c]
  BY DEF Cond
<1> HIDE DEF q
<1> QED
  BY <1>1, <1>2 DEF Conditions

(* The main thread goes on while it has right things to do.                *)
LEMMA RightMain ==
  ASSUME TurnInv, TurnInv', PortInv, PortInv', WorkRight, lost = 0, Step(main)
  PROVE  WorkRight'
<1>0. TRUE \in BOOLEAN /\ FALSE \in BOOLEAN
  OBVIOUS
<1>1. state_ \in States /\ state_' \in States /\ config_ \in Config /\ MainList(todo[main])
      /\ todo = [todo EXCEPT ![main] = todo[main]]
  BY DEF TurnInv, Lists
<1>2. PICK n : Moves(n)
  BY <1>1, MainSteps
<1>3. todo'[main] = n /\ \A s \in Threads : todo'[s] = todo[s]
  BY <1>2, MainGoes DEF Moves
<1>4. AtWork' <=> AtWork
  BY <1>3 DEF AtWork
<1> DEFINE x == Head(todo[main])
<1>5. At(main, x.do) /\ x.do \in StepNames
  BY StepOf DEF At
<1>6. x.do \notin {"while", "return", "join"}
  BY <1>1, <1>5, MainHead, MainNamed DEF StepNames, ControlNames
<1>7. AtWork => state_ = "RUNNING" /\ x.do \in {"if", "exit", "update", "catch", "config", "doStop", "set"}
  <2>1. AtWork => Work
    BY DEF AtWork, TurnInv, Turn
  <2> QED
    BY <1>1, <1>5, <1>6, <2>1, MainHead
<1>8. ASSUME NEW c \in BOOLEAN, c <=> AtWork PROVE Right(main, todo'[main], Cond(c)')
  <2>1. Right(main, todo[main], Cond(c))
    BY <1>8 DEF WorkRight
  <2>2. IsList(todo[main])
    BY <2>1, RightIs DEF Here
  <2>3. Able(x, Cond(c))
    BY <1>7, <1>8, CondParts DEF Able
  <2>4. CASE UNCHANGED todo /\ Cond(c)' = Cond(c)
    BY <2>1, <2>4
  <2>5. CASE \E m : Goto(main, m) /\ Reaches(main, todo[main], Cond(c), m, Cond(c)')
    <3>1. PICK m : Goto(main, m) /\ Reaches(main, todo[main], Cond(c), m, Cond(c)')
      BY <2>5
    <3>2. todo'[main] = m
      <4>1. main \in Thread /\ todo \in [Thread -> Seq(MainItem \cup ScanItem)]
        BY DEF Thread, TurnInv, Lists
      <4> QED
        BY <3>1, <4>1 DEF Goto
    <3>3. Right(main, m, Cond(c)')
      BY <2>1, <3>1, RightIs
    <3> QED
      BY <3>2, <3>3
  <2> QED
    BY <1>1, <1>6, <2>2, <2>3, <2>4, <2>5, Stepping
<1>9. ASSUME NEW s \in Threads, Busy(todo'[s]) PROVE Right(None, todo'[s], Cond(FALSE)')
  <2>1. Busy(todo[s]) /\ Right(None, todo[s], Cond(FALSE)) /\ AtWork
    BY <1>3, <1>9 DEF WorkRight, AtWork
  <2>2. x.do \in {"if", "exit", "update", "catch", "config", "doStop", "set"}
    BY <1>7, <2>1
  <2>3. UNCHANGED <<fd, scanner, faults>>
    BY <1>5, <2>2, Controlled DEF Fixed, StepNames, ControlNames
  <2>4. Meddles(None, Cond(FALSE), Cond(FALSE)')
    <3>1. Cond(FALSE)' \in Conditions
      BY <1>0, <1>1, CondNext
    <3>2. Cond(FALSE)' = [Cond(FALSE) EXCEPT !.state = state_']
      BY <1>0, <2>3, CondParts
    <3> QED
      BY <1>1, <3>1, <3>2, NotMain DEF Meddles
  <2>5. Right(None, todo[s], Cond(FALSE)')
    BY <2>1, <2>4, RightIs
  <2> QED
    BY <1>3, <2>5
<1> QED
  BY <1>4, <1>8, <1>9 DEF WorkRight

(* A scan thread that is at work, at its step.                             *)
LEMMA RightScan ==
  ASSUME TurnInv, TurnInv', PortInv, PortInv', WorkRight, lost = 0, NEW s \in Threads, Step(s)
  PROVE  WorkRight'
<1>0. TRUE \in BOOLEAN /\ FALSE \in BOOLEAN
  OBVIOUS
<1>1. /\ state_ \in States /\ state_' \in States /\ config_ \in Config /\ ScanList(todo[s])
      /\ todo = [todo EXCEPT ![s] = todo[s]] /\ todo \in [Thread -> Seq(MainItem \cup ScanItem)]
      /\ s \in Thread /\ s # main /\ main \in Thread /\ Threads \subseteq Thread
  BY HokuyoAssumption DEF TurnInv, Lists, Thread
<1>2. PICK n : Advances(s, n)
  BY <1>1, ScanSteps
<1>3. todo'[s] = n /\ \A t \in Thread : t # s => todo'[t] = todo[t]
  BY <1>1, <1>2 DEF Advances, Goto
<1> DEFINE x == Head(todo[s])
<1>4. At(s, x.do) /\ x.do \in StepNames /\ todo[s] # <<>>
  BY StepOf DEF At
<1>5. CASE ~Busy(todo[s])
  <2>1. x.do = "return"
    BY <1>4, <1>5 DEF Busy
  <2>2. Fixed /\ Goto(s, <<>>)
    BY <2>1, Controlled
  <2>3. todo'[s] = <<>>
    BY <1>1, <2>2 DEF Goto
  <2>4. \A t \in Threads : Busy(todo'[t]) <=> Busy(todo[t])
    BY <1>1, <1>3, <1>5, <2>3, Idles
  <2>5. \A c \in BOOLEAN : Cond(c)' = Cond(c)
    BY <2>2, CondParts DEF Fixed
  <2>6. todo'[main] = todo[main] /\ (AtWork' <=> AtWork)
    BY <1>1, <1>3, <2>4 DEF AtWork
  <2>7. \A c \in BOOLEAN : (c <=> AtWork') => Right(main, todo'[main], Cond(c)')
    BY <2>5, <2>6 DEF WorkRight
  <2>8. \A t \in Threads : Busy(todo'[t]) => Right(None, todo'[t], Cond(FALSE)')
    BY <1>0, <1>1, <1>3, <1>5, <2>4, <2>5 DEF WorkRight
  <2> QED
    BY <2>7, <2>8 DEF WorkRight
<1>6. CASE Busy(todo[s])
  <2>1. s = scan_thread_ /\ Work /\ AtWork
    BY <1>6 DEF TurnInv, Turn, AtWork
  <2>2. ASSUME NEW t \in Threads, t # s PROVE ~Busy(todo'[t]) /\ ~Busy(todo[t])
    BY <1>1, <1>3, <2>1, <2>2 DEF TurnInv, Turn
  <2>3. AtWork' <=> Busy(n)
    BY <1>1, <1>3, <2>2 DEF AtWork
  <2>4. Right(None, todo[s], Cond(FALSE)) /\ IsList(todo[s]) /\ Here(None, todo[s], Cond(FALSE))
    <3>1. Right(None, todo[s], Cond(FALSE))
      BY <1>6 DEF WorkRight
    <3> QED
      BY <3>1, RightIs DEF Here
  <2>5. Right(None, n, Cond(FALSE)')
    <3>1. CASE x.do = "while"
      <4>1. Cond(FALSE) \in Held
        BY <1>4, <2>4, <3>1 DEF Here
      <4>2. Fixed /\ Goto(s, IF state_ = "RUNNING" THEN scanThread ELSE scanThreadEnds)
        BY <3>1, Controlled
      <4>3. Cond(FALSE)' = Cond(FALSE)
        BY <1>0, <4>2, CondParts DEF Fixed
      <4>4. n \in {scanThread, scanThreadEnds}
        BY <1>1, <1>3, <4>2 DEF Goto
      <4> QED
        BY <4>1, <4>3, <4>4, ScanRight, EndsRight DEF Rights
    <3>2. CASE x.do # "while"
      <4>1. Able(x, Cond(FALSE))
        BY <1>0, CondParts DEF Able
      <4>2. x.do # "return"
        BY <1>6 DEF Busy
      <4>3. CASE UNCHANGED todo /\ Cond(FALSE)' = Cond(FALSE)
        BY <1>3, <2>4, <4>3
      <4>4. CASE \E m : Goto(s, m) /\ Reaches(None, todo[s], Cond(FALSE), m, Cond(FALSE)')
        <5>1. PICK m : Goto(s, m) /\ Reaches(None, todo[s], Cond(FALSE), m, Cond(FALSE)')
          BY <4>4
        <5>2. n = m
          BY <1>1, <1>3, <5>1 DEF Goto
        <5> QED
          BY <1>6, <2>4, <5>1, <5>2, RightIs
      <4> QED
        BY <1>0, <1>1, <2>4, <3>2, <4>1, <4>2, <4>3, <4>4, Stepping
    <3> QED
      BY <3>1, <3>2
  <2>6. Right(main, todo[main], Cond(TRUE))
    BY <1>0, <2>1 DEF WorkRight
  <2>7. ASSUME NEW c \in BOOLEAN, c <=> AtWork' PROVE Meddles(main, Cond(TRUE), Cond(c)')
    <3>1. Cond(c)' \in Conditions
      BY <1>1, CondNext
    <3>2. Cond(TRUE).busy /\ Cond(TRUE).state = state_ /\ Cond(c)'.state = state_' /\ Cond(c)'.busy = c
      BY <1>0, CondParts
    <3>3. CASE c
      <4>1. state_' = state_
        BY <1>2, <2>3, <2>7, <3>3 DEF Advances
      <4>2. Cond(c)' \in Resting
        BY <3>1, <3>2, <3>3 DEF Resting
      <4> QED
        BY <3>1, <3>2, <4>1, <4>2 DEF Meddles
    <3>4. CASE ~c
      <4>1. ~Busy(n) /\ Here(None, n, Cond(FALSE)')
        BY <2>3, <2>5, <2>7, <3>4, RightIs
      <4>2. Cond(FALSE)' \in Resting
        BY <4>1, NotMain DEF Here
      <4>3. Cond(c)' \in Resting
        <5>1. c = FALSE
          BY <3>4
        <5> QED
          BY <4>2, <5>1
      <4> QED
        BY <3>1, <3>2, <3>4, <4>3 DEF Meddles
    <3> QED
      BY <3>3, <3>4
  <2>8. \A c \in BOOLEAN : (c <=> AtWork') => Right(main, todo'[main], Cond(c)')
    BY <1>1, <1>3, <2>6, <2>7, RightIs
  <2>9. \A t \in Threads : Busy(todo'[t]) => Right(None, todo'[t], Cond(FALSE)')
    BY <1>3, <2>2, <2>5
  <2> QED
    BY <2>8, <2>9 DEF WorkRight
<1> QED
  BY <1>5, <1>6

(* Nothing of the conditions changes, and the main thread has another      *)
(* list.                                                                   *)
LEMMA RightGiven ==
  ASSUME TurnInv, WorkRight, lost = 0, UNCHANGED <<fd, scanner, state_, faults>>,
         NEW m, Goto(main, m),
         \A c \in BOOLEAN : (c <=> AtWork) => Right(main, m, Cond(c))
  PROVE  WorkRight'
<1>1. todo'[main] = m /\ \A s \in Threads : todo'[s] = todo[s]
  BY HokuyoAssumption DEF Goto, TurnInv, Lists, Thread
<1>2. \A c \in BOOLEAN : Cond(c)' = Cond(c)
  BY CondParts
<1>3. AtWork' <=> AtWork
  BY <1>1 DEF AtWork
<1>4. \A c \in BOOLEAN : (c <=> AtWork') => Right(main, todo'[main], Cond(c)')
  BY <1>1, <1>2, <1>3
<1>5. FALSE \in BOOLEAN
  OBVIOUS
<1>6. \A s \in Threads : Busy(todo'[s]) => Right(None, todo'[s], Cond(FALSE)')
  BY <1>1, <1>2, <1>5 DEF WorkRight
<1> QED
  BY <1>4, <1>6 DEF WorkRight

LEMMA RestList == ASSUME TurnInv, todo[main] # <<>> PROVE IsList(Rest(main)) /\ <<>> \o Rest(main) = Rest(main)
<1>1. todo[main] \in Seq(MainItem)
  BY DEF TurnInv, Lists, MainList
<1>2. Rest(main) \in Seq(MainItem)
  BY <1>1, TailIs DEF Rest
<1> QED
  BY <1>2, ListNone DEF IsList

LEMMA RightStarted ==
  ASSUME TurnInv, TurnInv', PortInv, PortInv', WorkRight, lost = 0, Started
  PROVE  WorkRight'
<1>0. TRUE \in BOOLEAN /\ FALSE \in BOOLEAN
  OBVIOUS
<1>1. /\ At(main, "started") /\ UNCHANGED <<fd, scanner, faults>>
      /\ MainList(todo[main]) /\ todo \in [Thread -> Seq(MainItem \cup ScanItem)]
      /\ \A s \in Threads : s \in Thread /\ s # main
      /\ main \in Thread /\ state_' \in States
  BY HokuyoAssumption DEF Started, ports, TurnInv, Lists, Thread
<1>2. todo[main] # <<>> /\ Head(todo[main]).do = "started"
  BY <1>1 DEF At
<1>3. ~AtWork
  <2>1. ~Work
    BY <1>1, MainHead
  <2> QED
    BY <2>1 DEF TurnInv, Turn, AtWork
<1>4. Right(main, todo[main], Cond(FALSE)) /\ Cond(FALSE) \in Held /\ Cond(FALSE).busy = FALSE
  <2>1. Right(main, todo[main], Cond(FALSE))
    BY <1>0, <1>3 DEF WorkRight
  <2>2. Here(main, todo[main], Cond(FALSE))
    BY <2>1, RightIs
  <2> QED
    BY <1>0, <1>2, <2>1, <2>2, CondParts DEF Here
<1>5. <<>> \o Rest(main) = Rest(main)
  BY <1>2, RestList
<1>6. ASSUME NEW b \in Conditions, b = Cond(FALSE) \/ b = [Cond(FALSE) EXCEPT !.state = "RUNNING", !.busy = TRUE]
      PROVE  Right(main, Rest(main), b)
  <2>1. Leads(Head(todo[main]), Cond(FALSE), <<>>, b)
    BY <1>2, <1>4, <1>6 DEF Leads, Able
  <2>2. Reaches(main, todo[main], Cond(FALSE), Rest(main), b)
    BY <1>2, <1>5, <2>1 DEF Reaches, Rest
  <2> QED
    BY <1>4, <2>2, RightIs
<1>7. CASE Continue(main) /\ UNCHANGED <<state_, scan_thread_>>
  <2>1. Cond(FALSE) \in Conditions
    BY <1>4 DEF Held
  <2>2. Right(main, Rest(main), Cond(FALSE))
    BY <1>6, <2>1
  <2>3. \A c \in BOOLEAN : (c <=> AtWork) => c = FALSE
    BY <1>3
  <2>4. \A c \in BOOLEAN : (c <=> AtWork) => Right(main, Rest(main), Cond(c))
    BY <2>2, <2>3
  <2> QED
    BY <1>1, <1>7, <2>4, RightGiven DEF Continue
<1>8. ASSUME NEW s \in Threads, state_' = "RUNNING",
             todo' = [todo EXCEPT ![main] = Rest(main), ![s] = <<Do("while")>>]
      PROVE  WorkRight'
  <2> DEFINE l == <<Do("while")>>
             r == Rest(main)
  <2>1. Right(None, l, Cond(FALSE)') /\ Busy(l)
    <3>1. Cond(FALSE)' = [Cond(FALSE) EXCEPT !.state = state_'] /\ Cond(FALSE)' \in Conditions
      BY <1>0, <1>1, CondParts, CondNext
    <3>2. Cond(FALSE)' \in Held
      BY <1>4, <3>1, ConditionsAre DEF Held
    <3>3. l # <<>> /\ Head(l) = Do("while")
      BY ListOne
    <3>4. Busy(l)
      BY <3>3, Talking DEF Busy
    <3> QED
      BY <3>2, <3>4, WhileRight DEF Rights
  <2>2. Right(main, r, Cond(TRUE)')
    <3>1. \A a, b \in Conditions :
            /\ b.fd = a.fd /\ b.quiet = a.quiet /\ b.state = "RUNNING" /\ b.busy = TRUE
            => b = [a EXCEPT !.state = "RUNNING", !.busy = TRUE]
      BY ConditionsAre
    <3>2. Cond(TRUE)' \in Conditions /\ Cond(FALSE) \in Conditions
      BY <1>0, <1>1, <1>4, CondNext DEF Held
    <3>3. /\ Cond(TRUE)'.fd = Cond(FALSE).fd /\ Cond(TRUE)'.quiet = Cond(FALSE).quiet
          /\ Cond(TRUE)'.state = "RUNNING" /\ Cond(TRUE)'.busy = TRUE
      <4> DEFINE q == faults > 0 \/ scanner.streaming = None
                 p == faults' > 0 \/ scanner'.streaming = None
      <4>1. p = q /\ fd' = fd /\ state_' = "RUNNING"
        BY <1>1, <1>8
      <4>2. \A c : /\ Cond(c) = [fd |-> fd, quiet |-> q, state |-> state_, busy |-> c]
                   /\ Cond(c)' = [fd |-> fd', quiet |-> p, state |-> state_', busy |-> c]
        BY DEF Cond
      <4> HIDE DEF p, q
      <4>3. \A c : Cond(c).quiet = q /\ Cond(c)'.quiet = p
        BY <4>2
      <4>4. Cond(TRUE)'.quiet = Cond(FALSE).quiet
        BY <4>1, <4>3
      <4> QED
        BY <1>0, <4>1, <4>4, CondParts
    <3>4. Cond(TRUE)' = [Cond(FALSE) EXCEPT !.state = "RUNNING", !.busy = TRUE]
      BY <3>1, <3>2, <3>3
    <3> QED
      BY <1>6, <3>2, <3>4
  <2> HIDE DEF l, r
  <2>3. todo' = [todo EXCEPT ![main] = r, ![s] = l]
    BY <1>8 DEF l, r
  <2>4. todo'[main] = r /\ todo'[s] = l /\ \A t \in Threads : t # s => todo'[t] = todo[t]
    BY <1>1, <2>3
  <2>5. AtWork' /\ \A t \in Threads : t # s => ~Busy(todo'[t])
    BY <1>3, <2>1, <2>4 DEF AtWork
  <2>6. \A c \in BOOLEAN : (c <=> AtWork') => c = TRUE
    BY <2>5
  <2>7. \A c \in BOOLEAN : (c <=> AtWork') => Right(main, todo'[main], Cond(c)')
    BY <2>2, <2>4, <2>6
  <2>8. \A t \in Threads : Busy(todo'[t]) => Right(None, todo'[t], Cond(FALSE)')
    BY <2>1, <2>4, <2>5
  <2> QED
    BY <2>7, <2>8 DEF WorkRight
<1> QED
  BY <1>7, <1>8 DEF Started

LEMMA RightStopping ==
  ASSUME TurnInv, WorkRight, lost = 0, Stopping
  PROVE  WorkRight'
<1> DEFINE e == IF state_ = "RUNNING" THEN <<Set("OPENED"), Do("join")>> ELSE <<>>
           r == Rest(main)
<1>1. At(main, "doStop") /\ Goto(main, e \o r) /\ UNCHANGED <<fd, scanner, state_, faults>>
  BY DEF Stopping, ports, driverVars
<1>2. todo[main] # <<>> /\ Head(todo[main]).do = "doStop" /\ MainList(todo[main])
  BY <1>1 DEF At, TurnInv, Lists
<1> HIDE DEF e
<1>3. ASSUME NEW c \in BOOLEAN, c <=> AtWork PROVE Right(main, e \o r, Cond(c))
  <2>1. Right(main, todo[main], Cond(c)) /\ Cond(c) \in Conditions
    <3>1. Right(main, todo[main], Cond(c))
      BY <1>3 DEF WorkRight
    <3> QED
      BY <3>1, RightIs DEF Here
  <2>2. c => state_ = "RUNNING"
    <3>1. AtWork => Work
      BY DEF AtWork, TurnInv, Turn
    <3> QED
      BY <1>1, <1>2, <1>3, <3>1, MainHead
  <2>3. Able(Head(todo[main]), Cond(c))
    BY <1>2, <2>2, CondParts DEF Able
  <2>4. Leads(Head(todo[main]), Cond(c), e, Cond(c))
    BY <1>2, <2>1, <2>3, CondParts DEF Leads, e
  <2>5. Reaches(main, todo[main], Cond(c), e \o r, Cond(c))
    BY <1>2, <2>4 DEF Reaches, Rest
  <2> QED
    BY <2>1, <2>5, RightIs
<1> QED
  BY <1>1, <1>3, RightGiven

LEMMA RightJoin ==
  ASSUME TurnInv, TurnInv', WorkRight, Join, lost' = 0
  PROVE  WorkRight'
<1>1. At(main, "join") /\ Goto(main, Rest(main)) /\ UNCHANGED <<fd, scanner, state_, faults>>
  BY DEF Join, Continue, ports
<1>2. todo[main] # <<>> /\ Head(todo[main]).do = "join" /\ MainList(todo[main])
  BY <1>1 DEF At, TurnInv, Lists
<1>3. lost = 0 /\ (scan_thread_ = None \/ Idle(scan_thread_))
  BY DEF Join, TurnInv
<1>4. ~AtWork
  <2> SUFFICES ASSUME NEW s \in Threads, Busy(todo[s]) PROVE FALSE
    BY DEF AtWork
  <2>1. s = scan_thread_ /\ s # None
    BY <1>3, HokuyoAssumption DEF TurnInv, Turn
  <2> QED
    BY <1>3, <2>1 DEF Idle, Busy
<1>5. ASSUME NEW c \in BOOLEAN, c <=> AtWork PROVE Right(main, Rest(main), Cond(c))
  <2>1. Right(main, todo[main], Cond(c)) /\ Cond(c) \in Conditions
    <3>1. Right(main, todo[main], Cond(c))
      BY <1>3, <1>5 DEF WorkRight
    <3> QED
      BY <3>1, RightIs DEF Here
  <2>2. ~Cond(c).busy
    BY <1>4, <1>5, CondParts
  <2>3. Leads(Head(todo[main]), Cond(c), <<>>, Cond(c))
    BY <1>2, <2>1, <2>2 DEF Leads, Able
  <2>4. Reaches(main, todo[main], Cond(c), Rest(main), Cond(c))
    BY <1>2, <2>3, RestList DEF Reaches, Rest
  <2> QED
    BY <2>1, <2>4, RightIs
<1> QED
  BY <1>1, <1>3, <1>5, RightGiven

LEMMA RightExit ==
  ASSUME TurnInv, WorkRight, Exit, lost = 0
  PROVE  WorkRight'
<1>1. At(main, "exit") /\ Goto(main, <<>>) /\ UNCHANGED <<fd, scanner, state_, faults>>
  BY DEF Exit, ports, driverVars
<1>2. todo[main] # <<>> /\ Head(todo[main]).do = "exit" /\ MainList(todo[main])
  BY <1>1 DEF At, TurnInv, Lists
<1>3. ASSUME NEW c \in BOOLEAN, c <=> AtWork PROVE Right(main, <<>>, Cond(c))
  <2>1. Right(main, todo[main], Cond(c))
    BY <1>3 DEF WorkRight
  <2>2. c => state_ = "RUNNING"
    <3>1. AtWork => Work
      BY DEF AtWork, TurnInv, Turn
    <3> QED
      BY <1>1, <1>2, <1>3, <3>1, MainHead
  <2>3. Able(Head(todo[main]), Cond(c))
    BY <1>2, <2>2, CondParts DEF Able
  <2>4. Reaches(main, todo[main], Cond(c), <<>>, Cond(c))
    BY <1>2, <2>3 DEF Reaches
  <2> QED
    BY <2>1, <2>4, RightIs
<1> QED
  BY <1>1, <1>3, RightGiven

(* A node that has nothing to do is given a list by driver_base.           *)
LEMMA RightRequest ==
  ASSUME TurnInv, WorkRight, lost = 0, MainIdle, UNCHANGED <<fd, scanner, state_, faults>>,
         NEW m, Give(m), Rights(main, m, Resting)
  PROVE  WorkRight'
<1>1. todo[main] = <<>> /\ Goto(main, m)
  BY DEF MainIdle, Idle, Give, Goto
<1>2. ASSUME NEW c \in BOOLEAN, c <=> AtWork PROVE Right(main, m, Cond(c))
  <2>1. Right(main, <<>>, Cond(c))
    BY <1>1, <1>2 DEF WorkRight
  <2>2. Here(main, <<>>, Cond(c))
    BY <2>1, RightIs
  <2>3. Cond(c) \in Resting
    BY <2>2 DEF Here
  <2> QED
    BY <2>3 DEF Rights
<1> QED
  BY <1>1, <1>2, RightGiven

LEMMA RightRequests ==
  ASSUME TurnInv, WorkRight, lost = 0,
         Spin \/ (\E new \in Configs : Reconfigure(new)) \/ SelfTest \/ Shutdown
  PROVE  WorkRight'
<1>0. state_ \in States
  BY DEF TurnInv
<1>1. ASSUME NEW m, Request(m), Rights(main, m, Resting) PROVE WorkRight'
  <2>1. MainIdle /\ Give(m) /\ UNCHANGED <<fd, scanner, state_, faults>>
    BY <1>1 DEF Request, ports, driverVars
  <2> QED
    BY <1>1, <2>1, RightRequest
<1>2. CASE Spin
  <2>1. MainIdle /\ Give(goRunning) /\ UNCHANGED <<fd, scanner, state_, faults>>
    BY <1>2 DEF Spin, ports, driverVars
  <2>2. Rights(main, goRunning, Resting)
    BY RequestsRight, StartIs DEF Rights
  <2> QED
    BY <2>1, <2>2, RightRequest
<1>3. ASSUME NEW new \in Configs, Reconfigure(new) PROVE WorkRight'
  <2>1. Level(new) \in States
    BY DEF Level, States
  <2>2. CASE state_ = "CLOSED"
    <3>1. Request(<<>> \o <<Update(new)>> \o goTo(state_))
      BY <1>3, <2>2 DEF Reconfigure, Update
    <3> QED
      BY <1>0, <1>1, <3>1, RequestsRight
  <2>3. CASE state_ # "CLOSED"
    <3>1. Request(goTo(Level(new)) \o <<Update(new)>> \o goTo(state_))
      BY <1>3, <2>3 DEF Reconfigure, Update
    <3> QED
      BY <1>0, <1>1, <2>1, <3>1, RequestsRight
  <2> QED
    BY <2>2, <2>3
<1>4. CASE SelfTest
  BY <1>0, <1>1, <1>4, RequestsRight DEF SelfTest
<1>5. CASE Shutdown
  BY <1>1, <1>5, RequestsRight DEF Shutdown
<1> QED
  BY <1>2, <1>3, <1>4, <1>5

(* A failure, and the cable put back in.                                   *)
LEMMA RightFault ==
  ASSUME TurnInv, TurnInv', PortInv, PortInv', WorkRight, lost = 0, Fault \/ Plug \/ Scan \/ UNCHANGED vars
  PROVE  WorkRight'
<1>0. FALSE \in BOOLEAN
  OBVIOUS
<1>1. UNCHANGED <<state_, todo>> /\ state_ \in States
  BY DEF Fault, Plug, Scan, vars, driverVars, TurnInv
<1>2. AtWork' <=> AtWork
  BY <1>1 DEF AtWork
<1>3. ASSUME NEW k, NEW l, NEW c \in BOOLEAN, Right(k, l, Cond(c)), k = main \/ Busy(l)
      PROVE  Right(k, l, Cond(c)')
  <2>1. PICK a : a = Cond(c)
    OBVIOUS
  <2>2. PICK b : b = Cond(c)'
    OBVIOUS
  <2>3. a \in Conditions /\ b \in Conditions
    BY <1>1, <2>1, <2>2, CondIs, CondNext
  <2>4. /\ a.fd = fd /\ a.state = state_ /\ (a.quiet <=> faults > 0 \/ scanner.streaming = None)
        /\ b.fd = fd' /\ b.state = state_' /\ (b.quiet <=> faults' > 0 \/ scanner'.streaming = None)
        /\ b.busy = a.busy
    BY <2>1, <2>2, CondParts
  <2>5. CASE Fault
    <3>1. faults' > 0
      BY <2>5 DEF Fault, PortInv
    <3>2. fd' = fd \/ (fd = "open" /\ fd' = "dead")
      BY <2>5 DEF Fault, Unplug, Garble, Lose, Refuse, FallSilent
    <3>3. CASE fd' = fd
      <4>1. b.fd = a.fd /\ b.quiet = TRUE /\ b.state = a.state /\ b.busy = a.busy
        BY <1>1, <2>3, <2>4, <3>1, <3>3, ConditionsAre
      <4>2. b = [a EXCEPT !.quiet = TRUE]
        BY <2>3, <4>1, ConditionsAre
      <4>3. Meddles(k, a, b)
        BY <2>3, <4>2 DEF Meddles
      <4> QED
        BY <1>3, <2>1, <2>2, <4>3, RightIs
    <3>4. CASE fd = "open" /\ fd' = "dead"
      <4>1. b.fd = "dead" /\ b.quiet = TRUE /\ b.state = a.state /\ b.busy = a.busy /\ a.fd = "open"
        BY <1>1, <2>3, <2>4, <3>1, <3>4, ConditionsAre
      <4>2. b = [a EXCEPT !.fd = "dead", !.quiet = TRUE]
        BY <2>3, <4>1, ConditionsAre
      <4>3. Meddles(k, a, b)
        BY <2>3, <4>1, <4>2 DEF Meddles
      <4> QED
        BY <1>3, <2>1, <2>2, <4>3, RightIs
    <3> QED
      BY <3>2, <3>3, <3>4
  <2>6. CASE Plug
    <3>1. faults > 0 /\ faults' = faults /\ fd' = fd
      BY <2>6 DEF Plug, PortInv
    <3>2. b.fd = a.fd /\ b.quiet = a.quiet /\ b.state = a.state /\ b.busy = a.busy
      BY <1>1, <2>3, <2>4, <3>1, ConditionsAre
    <3>3. b = a
      BY <2>3, <3>2, ConditionsAre
    <3> QED
      BY <1>3, <2>1, <2>2, <3>3
  <2>7. CASE Scan \/ UNCHANGED vars
    <3>1. UNCHANGED <<fd, scanner, state_, faults>>
      BY <2>7 DEF Scan, vars, driverVars
    <3> QED
      BY <1>3, <3>1, CondParts
  <2> QED
    BY <2>5, <2>6, <2>7
<1>4. \A c \in BOOLEAN : (c <=> AtWork') => Right(main, todo'[main], Cond(c)')
  BY <1>1, <1>2, <1>3 DEF WorkRight
<1>5. \A s \in Threads : Busy(todo'[s]) => Right(None, todo'[s], Cond(FALSE)')
  BY <1>0, <1>1, <1>3 DEF WorkRight
<1> QED
  BY <1>4, <1>5 DEF WorkRight

LEMMA LostStays ==
  ASSUME TurnInv, [Next]_vars
  PROVE  lost' = lost \/ (Join /\ lost \in Nat /\ lost' \in {lost, lost + 1})
<1>1. ASSUME NEW t, Step(t) PROVE lost' = lost
  BY <1>1 DEF Step, laserFlush, laserWrite, laserReadline, TooMuchSkipped, ReadFails, openPort,
       closePort, ifPort, ControlStep, Checked, BeginOpen, getID, Calibrate, SetState,
       SetTheConfig, useScan, driverVars
<1>2. CASE MainStep
  BY <1>1, <1>2 DEF MainStep, Started, Stopping, Join, Spin, Exit, driverVars, TurnInv
<1>3. CASE (\E new \in Configs : Reconfigure(new)) \/ SelfTest \/ Shutdown
  BY <1>3 DEF Reconfigure, SelfTest, Shutdown, Request, driverVars
<1>4. CASE Scan \/ Fault \/ Plug \/ UNCHANGED vars
  BY <1>4 DEF Scan, Fault, Plug, vars, driverVars
<1> QED
  BY <1>1, <1>2, <1>3, <1>4 DEF Next

LEMMA ReleasedInit == Init => ReleasedInv
<1> SUFFICES ASSUME Init PROVE ReleasedInv
  OBVIOUS
<1>1. TurnInv /\ PortInv
  BY TurnInit, PortInit
<1>2. todo = [t \in Thread |-> IF t = main THEN goRunning ELSE <<>>]
  BY DEF Init
<1>3. \A s \in Threads : s \in Thread /\ s # main
  BY HokuyoAssumption DEF Thread
<1>4. todo[main] = goRunning /\ \A s \in Threads : todo[s] = <<>>
  BY <1>2, <1>3 DEF Thread
<1>5. ~AtWork /\ \A s \in Threads : ~Busy(todo[s])
  BY <1>4, Idles DEF AtWork
<1>6. ASSUME NEW c \in BOOLEAN, c <=> AtWork PROVE Right(main, todo[main], Cond(c))
  <2>1. Cond(c) \in Conditions /\ ~Cond(c).busy /\ Cond(c).fd = "closed" /\ Cond(c).state = "CLOSED"
    BY <1>1, <1>5, <1>6, CondIs, CondParts DEF Init, TurnInv
  <2>2. Cond(c) \in Start
    BY <2>1 DEF Start, Fresh
  <2> QED
    BY <1>4, <2>2, RequestsRight DEF Rights
<1> QED
  BY <1>1, <1>5, <1>6 DEF ReleasedInv, WorkRight

LEMMA ReleasedNext == ReleasedInv /\ [Next]_vars => ReleasedInv'
<1> SUFFICES ASSUME ReleasedInv, [Next]_vars PROVE ReleasedInv'
  OBVIOUS
<1>1. TurnInv /\ TurnInv' /\ PortInv /\ PortInv' /\ WorkRight
  BY TurnStep, PortNext DEF ReleasedInv
<1>2. CASE lost' # 0
  BY <1>1, <1>2 DEF ReleasedInv, WorkRight
<1>3. CASE lost' = 0
  <2>1. lost = 0
    BY <1>1, <1>3, LostStays
  <2>2. CASE MainStep
    BY <1>1, <1>3, <2>1, <2>2, RightMain, RightStarted, RightStopping, RightJoin, RightRequests, RightExit
       DEF MainStep, ReleasedInv
  <2>3. CASE \E s \in Threads : Step(s)
    BY <1>1, <2>1, <2>3, RightScan DEF ReleasedInv
  <2>4. CASE (\E new \in Configs : Reconfigure(new)) \/ SelfTest \/ Shutdown
    BY <1>1, <2>1, <2>4, RightRequests DEF ReleasedInv
  <2>5. CASE Scan \/ Fault \/ Plug \/ UNCHANGED vars
    BY <1>1, <2>1, <2>5, RightFault DEF ReleasedInv
  <2> QED
    BY <2>2, <2>3, <2>4, <2>5 DEF Next
<1> QED
  BY <1>2, <1>3

LEMMA ReleasedAtRest == ReleasedInv => Released
<1> SUFFICES ASSUME ReleasedInv, state_ = "CLOSED", lost = 0, \A t \in Thread : Idle(t)
             PROVE  fd = "closed" /\ (faults = 0 => scanner.streaming = None)
  BY DEF Released
<1>1. todo[main] = <<>> /\ \A s \in Threads : ~Busy(todo[s])
  BY Idles DEF Idle, Thread, Busy
<1>2. FALSE \in BOOLEAN /\ ~AtWork
  BY <1>1 DEF AtWork
<1>3. Right(main, <<>>, Cond(FALSE))
  BY <1>1, <1>2 DEF ReleasedInv, WorkRight
<1>4. Cond(FALSE) \in Resting
  BY <1>3, RightIs DEF Here
<1>5. /\ Cond(FALSE).fd = fd /\ Cond(FALSE).state = state_ /\ Cond(FALSE).busy = FALSE
      /\ Cond(FALSE).quiet <=> faults > 0 \/ scanner.streaming = None
  BY <1>2, CondParts
<1>6. fd = "closed" /\ Cond(FALSE).quiet
  BY <1>4, <1>5 DEF Resting, Held
<1>7. faults > 0 \/ scanner.streaming = None
  BY <1>5, <1>6, Zenon
<1>8. faults = 0 => ~(faults > 0)
  OBVIOUS
<1> QED
  BY <1>6, <1>7, <1>8

(* Whatever fails, and however the two threads and the requests meet: as   *)
(* long as doStop() has given up on no scan thread, a driver that comes to *)
(* rest in CLOSED has closed its port, and unless the scanner or its cable *)
(* failed it has stopped the scanner first (close, doClose, doOpen,        *)
(* doStart, scanThread, goClosed).                                         *)
THEOREM ClosesCleanly == Spec => []Released
<1>1. Spec => []ReleasedInv
  BY ReleasedInit, ReleasedNext, PTL DEF Spec
<1> QED
  BY <1>1, ReleasedAtRest, PTL

=============================================================================
