---------------------------- MODULE RoboteqProofs ----------------------------
(***************************************************************************)
(* Proofs about the two models of roboteq_driver.                          *)
(*                                                                         *)
(* Roboteq: a download that reports success left this version in the       *)
(* controller.  The driver takes any "+" for the acknowledgement of its    *)
(* line and any HLD for that of its own download; the proof says why       *)
(* neither misleads it while the controller answers promptly.              *)
(*                                                                         *)
(* RoboteqLink: the two threads garble each other's commands, but leave    *)
(* nothing behind, and a message that met no other is intact.              *)
(***************************************************************************)
EXTENDS Roboteq, RoboteqLink, SequenceTheorems, TLAPS

-----------------------------------------------------------------------------
(* Lines and commands on their way.                                        *)

Has(s, x) == \E i \in 1..Len(s) : s[i] = x

Single(s, x) == \A i, j \in 1..Len(s) : s[i] = x /\ s[j] = x => i = j

Ends(s, x) == s # <<>> /\ s[Len(s)] = x

Replies == {"+", "-", "HLD"}

OnlyReplies(s) == \A i \in 1..Len(s) : s[i] \in Replies

(* The script is silent once the controller has said HLD.                  *)
NoPrintAfter(s) == \A i, j \in 1..Len(s) : s[i] = "HLD" /\ i < j => s[j] \in Replies

(* What follows HLD is a refusal, but for the last line if last allows.    *)
RefusalAfter(s, last) ==
  \A i \in 1..Len(s) : s[i] = "HLD" => IF i = Len(s) THEN last ELSE s[i + 1] = "-"

Refused(s) == s # <<>> /\ s[1] = "-"

LEMMA None == \A x : ~Has(<<>>, x) /\ ~Ends(<<>>, x)
BY DEF Has, Ends

(* What a sequence knows of the one it grew into, by an element at its end. *)
Grown(s, e, t) ==
  /\ t # <<>>
  /\ \A x : Has(t, x) <=> Has(s, x) \/ x = e
  /\ \A x : Ends(t, x) <=> x = e
  /\ \A x : Single(s, x) /\ (x = e => ~Has(s, x)) => Single(t, x)
  /\ NoPrintAfter(s) /\ (Has(s, "HLD") => e \in Replies) => NoPrintAfter(t)
  /\ \A m, n \in BOOLEAN :
       RefusalAfter(s, m) /\ (Ends(s, "HLD") => e = "-") /\ (e = "HLD" => n) => RefusalAfter(t, n)
  /\ OnlyReplies(s) /\ e \in Replies => OnlyReplies(t)
  /\ Refused(s) => Refused(t)

LEMMA Put ==
  ASSUME NEW S, NEW s \in Seq(S), NEW e \in S, NEW t, t = Append(s, e)
  PROVE  t \in Seq(S) /\ Grown(s, e, t)
<1>1. /\ t \in Seq(S) /\ Len(t) = Len(s) + 1 /\ Len(s) \in Nat /\ t # <<>>
      /\ \A i \in 1..Len(s) : t[i] = s[i]
      /\ t[Len(s) + 1] = e
  <2>1. /\ Append(s, e) \in Seq(S) /\ Len(Append(s, e)) = Len(s) + 1 /\ Append(s, e) # <<>>
        /\ \A i \in 1..Len(s) : Append(s, e)[i] = s[i]
        /\ Append(s, e)[Len(s) + 1] = e
    BY AppendProperties
  <2>2. Len(s) \in Nat
    BY LenProperties
  <2> QED BY <2>1, <2>2
<1>2. \A x : Has(t, x) <=> Has(s, x) \/ x = e
  <2> TAKE x
  <2>1. ASSUME NEW i \in 1..Len(t), t[i] = x PROVE Has(s, x) \/ x = e
    <3>1. i = Len(s) + 1 \/ i \in 1..Len(s)
      BY <1>1
    <3> QED BY <1>1, <2>1, <3>1 DEF Has
  <2>2. ASSUME NEW i \in 1..Len(s), s[i] = x PROVE Has(t, x)
    <3>1. i \in 1..Len(t) /\ t[i] = x
      BY <1>1, <2>2
    <3> QED BY <3>1 DEF Has
  <2>3. Len(s) + 1 \in 1..Len(t)
    BY <1>1
  <2> QED BY <1>1, <2>1, <2>2, <2>3 DEF Has
<1>3. \A x : Ends(t, x) <=> x = e
  BY <1>1 DEF Ends
<1>4. \A x : Single(s, x) /\ (x = e => ~Has(s, x)) => Single(t, x)
  <2> SUFFICES ASSUME NEW x, Single(s, x), x = e => ~Has(s, x) PROVE Single(t, x)
    OBVIOUS
  <2> SUFFICES ASSUME NEW i \in 1..Len(t), NEW j \in 1..Len(t), t[i] = x, t[j] = x PROVE i = j
    BY DEF Single
  <2>1. /\ i = Len(s) + 1 \/ i \in 1..Len(s)
        /\ j = Len(s) + 1 \/ j \in 1..Len(s)
    BY <1>1
  <2>2. i \in 1..Len(s) => s[i] = x
    BY <1>1
  <2>3. j \in 1..Len(s) => s[j] = x
    BY <1>1
  <2>4. CASE i \in 1..Len(s) /\ j \in 1..Len(s)
    BY <2>2, <2>3, <2>4 DEF Single
  <2>5. CASE i = Len(s) + 1 /\ j \in 1..Len(s)
    BY <1>1, <2>3, <2>5 DEF Has
  <2>6. CASE j = Len(s) + 1 /\ i \in 1..Len(s)
    BY <1>1, <2>2, <2>6 DEF Has
  <2> QED BY <2>1, <2>4, <2>5, <2>6
<1>5. NoPrintAfter(s) /\ (Has(s, "HLD") => e \in Replies) => NoPrintAfter(t)
  <2> SUFFICES ASSUME NoPrintAfter(s), Has(s, "HLD") => e \in Replies,
                      NEW i \in 1..Len(t), NEW j \in 1..Len(t), t[i] = "HLD", i < j
               PROVE  t[j] \in Replies
    BY DEF NoPrintAfter
  <2>1. i \in 1..Len(s) /\ s[i] = "HLD"
    BY <1>1
  <2>2. CASE j = Len(s) + 1
    BY <1>1, <2>1, <2>2 DEF Has
  <2>3. CASE j \in 1..Len(s)
    BY <1>1, <2>1, <2>3 DEF NoPrintAfter
  <2> QED BY <1>1, <2>2, <2>3
<1>6. ASSUME NEW m \in BOOLEAN, NEW n \in BOOLEAN,
             RefusalAfter(s, m), Ends(s, "HLD") => e = "-", e = "HLD" => n
      PROVE  RefusalAfter(t, n)
  <2> SUFFICES ASSUME NEW i \in 1..Len(t), t[i] = "HLD"
               PROVE  IF i = Len(t) THEN n ELSE t[i + 1] = "-"
    BY DEF RefusalAfter
  <2>1. CASE i = Len(s) + 1
    BY <1>1, <1>6, <2>1
  <2>2. CASE i = Len(s)
    <3>1. s[Len(s)] = "HLD" /\ s # <<>>
      BY <1>1, <2>2
    <3>2. Ends(s, "HLD")
      BY <3>1 DEF Ends
    <3> QED BY <1>1, <1>6, <2>2, <3>2
  <2>3. CASE i \in 1..Len(s) /\ i # Len(s)
    BY <1>1, <1>6, <2>3 DEF RefusalAfter
  <2> QED BY <1>1, <2>1, <2>2, <2>3
<1>7. OnlyReplies(s) /\ e \in Replies => OnlyReplies(t)
  <2> SUFFICES ASSUME OnlyReplies(s), e \in Replies, NEW i \in 1..Len(t) PROVE t[i] \in Replies
    BY DEF OnlyReplies
  <2>1. i = Len(s) + 1 \/ i \in 1..Len(s)
    BY <1>1
  <2> QED BY <1>1, <2>1 DEF OnlyReplies
<1>8. Refused(s) => Refused(t)
  BY <1>1 DEF Refused
<1> QED BY <1>1, <1>2, <1>3, <1>4, <1>5, <1>6, <1>7, <1>8 DEF Grown

(* And of its tail.                                                        *)
Shrunk(s, t) ==
  /\ \A x : Has(s, x) <=> Has(t, x) \/ x = Head(s)
  /\ \A x : Ends(t, x) => Ends(s, x)
  /\ t = <<>> => Ends(s, Head(s))
  /\ \A x : Single(s, x) => Single(t, x)
  /\ Single(s, Head(s)) => ~Has(t, Head(s))
  /\ NoPrintAfter(s) => NoPrintAfter(t)
  /\ NoPrintAfter(s) /\ Head(s) = "HLD" => OnlyReplies(t)
  /\ \A m \in BOOLEAN : RefusalAfter(s, m) => RefusalAfter(t, m)
  /\ \A m \in BOOLEAN : RefusalAfter(s, m) /\ Head(s) = "HLD" => (t = <<>> /\ m) \/ Refused(t)
  /\ OnlyReplies(s) => OnlyReplies(t)

LEMMA Take ==
  ASSUME NEW S, NEW s \in Seq(S), s # <<>>, NEW t, t = Tail(s)
  PROVE  t \in Seq(S) /\ Head(s) \in S /\ Shrunk(s, t)
<1>1. /\ t \in Seq(S) /\ Len(s) \in Nat /\ Len(s) >= 1 /\ Len(t) = Len(s) - 1
      /\ Head(s) = s[1] /\ s[1] \in S
      /\ \A i \in 1..Len(t) : i + 1 \in 1..Len(s) /\ t[i] = s[i + 1]
      /\ t = <<>> <=> Len(s) = 1
  <2>1. /\ t \in Seq(S) /\ Len(s) \in Nat /\ Len(s) # 0 /\ Len(t) = Len(s) - 1
        /\ Head(s) = s[1] /\ Head(s) \in S
        /\ \A i \in 1..Len(t) : t[i] = s[i + 1]
    BY HeadTailProperties, LenProperties, EmptySeq
  <2>2. Len(t) \in Nat /\ (t = <<>> <=> Len(t) = 0)
    BY <2>1, LenProperties, EmptySeq
  <2> QED BY <2>1, <2>2
<1>2. \A i \in 1..Len(s) : i = 1 \/ (i - 1 \in 1..Len(t) /\ t[i - 1] = s[i])
  BY <1>1
<1>3. \A x : Has(s, x) <=> Has(t, x) \/ x = Head(s)
  BY <1>1, <1>2 DEF Has
<1>4. (\A x : Ends(t, x) => Ends(s, x)) /\ (t = <<>> => Ends(s, Head(s)))
  BY <1>1 DEF Ends
<1>5. \A x : Single(s, x) => Single(t, x)
  BY <1>1 DEF Single
<1>6. Single(s, Head(s)) => ~Has(t, Head(s))
  <2> SUFFICES ASSUME Single(s, Head(s)), NEW i \in 1..Len(t), t[i] = Head(s)
               PROVE  FALSE
    BY DEF Has
  <2> QED BY <1>1 DEF Single
<1>7. NoPrintAfter(s) => NoPrintAfter(t)
  BY <1>1 DEF NoPrintAfter
<1>8. NoPrintAfter(s) /\ Head(s) = "HLD" => OnlyReplies(t)
  BY <1>1 DEF NoPrintAfter, OnlyReplies
<1>9. ASSUME NEW m \in BOOLEAN, RefusalAfter(s, m) PROVE RefusalAfter(t, m)
  <2> SUFFICES ASSUME NEW i \in 1..Len(t), t[i] = "HLD"
               PROVE  IF i = Len(t) THEN m ELSE t[i + 1] = "-"
    BY DEF RefusalAfter
  <2>1. i + 1 \in 1..Len(s) /\ s[i + 1] = "HLD"
    BY <1>1
  <2>2. IF i + 1 = Len(s) THEN m ELSE s[i + 1 + 1] = "-"
    BY <1>9, <2>1 DEF RefusalAfter
  <2>3. i + 1 # Len(s) => i + 1 \in 1..Len(t)
    <3>1. \A n \in Nat : \A k \in 1..n - 1 : k + 1 # n => k + 1 \in 1..n - 1
      OBVIOUS
    <3>2. Len(t) = Len(s) - 1 /\ Len(s) \in Nat /\ i \in 1..Len(s) - 1
      BY <1>1
    <3> QED BY ONLY <3>1, <3>2
  <2>4. i + 1 # Len(s) => t[i + 1] = s[i + 1 + 1]
    BY <1>1, <2>3
  <2>5. i + 1 = Len(s) <=> i = Len(t)
    BY <1>1
  <2> QED BY <2>2, <2>4, <2>5
<1>10. ASSUME NEW m \in BOOLEAN, RefusalAfter(s, m), Head(s) = "HLD"
       PROVE  (t = <<>> /\ m) \/ Refused(t)
  <2>1. 1 \in 1..Len(s) /\ s[1] = "HLD"
    BY <1>1, <1>10
  <2>2. IF 1 = Len(s) THEN m ELSE s[1 + 1] = "-"
    BY <1>10, <2>1 DEF RefusalAfter
  <2>3. Len(s) # 1 => 1 \in 1..Len(t) /\ t[1] = s[1 + 1]
    BY <1>1
  <2> QED BY <1>1, <2>2, <2>3 DEF Refused
<1>11. OnlyReplies(s) => OnlyReplies(t)
  BY <1>1 DEF OnlyReplies
<1> QED BY <1>1, <1>3, <1>4, <1>5, <1>6, <1>7, <1>8, <1>9, <1>10, <1>11 DEF Shrunk

(* And of one whose head was spoilt.                                       *)
Spoilt(s, t) ==
  /\ \A x : Has(t, x) => Has(s, x) \/ x = "noise"
  /\ \A x : Ends(t, x) => Ends(s, x) \/ x = "noise"
  /\ NoPrintAfter(s) => NoPrintAfter(t)
  /\ \A m \in BOOLEAN : RefusalAfter(s, m) => RefusalAfter(t, m)

LEMMA Spoil ==
  ASSUME NEW S, NEW s \in Seq(S), s # <<>>, "noise" \in S, NEW t, t = <<"noise">> \o Tail(s)
  PROVE  t \in Seq(S) /\ Spoilt(s, t)
<1>1. /\ t \in Seq(S) /\ Len(s) \in Nat /\ Len(s) >= 1 /\ Len(t) = Len(s) /\ t # <<>>
      /\ t[1] = "noise"
      /\ \A i \in 1..Len(s) : i # 1 => t[i] = s[i]
  <2>1. /\ Tail(s) \in Seq(S) /\ Len(s) \in Nat /\ Len(s) >= 1 /\ Len(Tail(s)) = Len(s) - 1
        /\ \A i \in 1..Len(Tail(s)) : Tail(s)[i] = s[i + 1]
    BY HeadTailProperties, LenProperties, EmptySeq
  <2>2. <<"noise">> \in Seq(S) /\ Len(<<"noise">>) = 1 /\ <<"noise">>[1] = "noise"
    OBVIOUS
  <2>3. t \in Seq(S) /\ Len(t) = Len(s) /\ t[1] = "noise"
    BY <2>1, <2>2
  <2>4. ASSUME NEW i \in 1..Len(s), i # 1 PROVE t[i] = s[i]
    <3>1. t[i] = Tail(s)[i - 1]
      BY <2>1, <2>2, <2>4
    <3>2. i - 1 \in 1..Len(Tail(s)) /\ i - 1 + 1 = i
      BY <2>1, <2>4
    <3> QED BY <2>1, <3>1, <3>2
  <2> QED BY <2>1, <2>3, <2>4
<1>2. \A x : Has(t, x) => Has(s, x) \/ x = "noise"
  BY <1>1 DEF Has
<1>3. \A x : Ends(t, x) => Ends(s, x) \/ x = "noise"
  BY <1>1 DEF Ends
<1>4. NoPrintAfter(s) => NoPrintAfter(t)
  BY <1>1 DEF NoPrintAfter
<1>5. ASSUME NEW m \in BOOLEAN, RefusalAfter(s, m) PROVE RefusalAfter(t, m)
  <2> SUFFICES ASSUME NEW i \in 1..Len(t), t[i] = "HLD"
               PROVE  IF i = Len(t) THEN m ELSE t[i + 1] = "-"
    BY DEF RefusalAfter
  <2>1. i \in 1..Len(s) /\ s[i] = "HLD"
    BY <1>1
  <2>2. i # Len(s) => i + 1 \in 1..Len(s) /\ i + 1 # 1
    BY <2>1, LenProperties
  <2> QED BY <1>1, <1>5, <2>1, <2>2 DEF RefusalAfter
<1> QED BY <1>1, <1>2, <1>3, <1>4, <1>5 DEF Spoilt
-----------------------------------------------------------------------------
(* Types, and what they rest on.                                           *)

Commands == {"run", "halt", "SLD", "line", "B", "G"}

Bounded ==
  /\ mode = "download" => ~running /\ got < ScriptLines
  /\ running => script # "none"
  /\ pc = "find_ack" => find_ack < AckTries

Types == TypeOK /\ Bounded

LEMMA Counts ==
  /\ StartAttempts \in Nat /\ WrongLimit \in Nat /\ MaxStray \in Nat
  /\ AckTries \in Nat /\ AckTries >= 1 /\ ScriptLines \in Nat /\ ScriptLines >= 1
BY CountAssumption

LEMMA TypesStart == Init => Types
<1> SUFFICES ASSUME Init PROVE Types
  OBVIOUS
<1>1. cmds \in Seq(Commands) /\ rx \in Seq(Lines \ {"empty"})
  BY EmptySeq DEF Init
<1>2. script \in {"none", "old", "new"}
  BY LoadedAssumption DEF Init
<1>3. 0 \in 0..ScriptLines /\ 0 \in 0..ScriptLines - 1 /\ 0 \in 0..AckTries
      /\ 0 \in 0..StartAttempts /\ 0 \in 0..WrongLimit /\ 0 \in 0..MaxStray
  BY Counts
<1> QED BY <1>1, <1>2, <1>3, Counts DEF Init, Types, TypeOK, Bounded, Commands

LEMMA SendTypes ==
  ASSUME cmds \in Seq(Commands), NEW cmd \in Commands, Send(cmd)
  PROVE  cmds' \in Seq(Commands)
BY AppendProperties DEF Send

LEMMA PrintTypes ==
  ASSUME Types, PrintStatus \/ PrintFeedback
  PROVE  Types'
<1>1. rx \in Seq(Lines \ {"empty"}) /\ script \in Lines \ {"empty"}
  BY DEF Types, TypeOK, Bounded, PrintStatus, PrintFeedback, ScriptSays, Printing, Lines
<1>2. PICK line \in Lines \ {"empty"} : rx' = Append(rx, line)
  <2>1. rx' = Append(rx, script) \/ rx' = Append(rx, "feedback")
    BY DEF PrintStatus, PrintFeedback, ScriptSays
  <2>2. "feedback" \in Lines \ {"empty"}
    BY DEF Lines
  <2> QED BY <1>1, <2>1, <2>2
<1>3. rx' \in Seq(Lines \ {"empty"})
  BY <1>1, <1>2, AppendProperties
<1> QED BY <1>3 DEF Types, TypeOK, Bounded, PrintStatus, PrintFeedback, ScriptSays, controller,
                    download, static

LEMMA AnswerTypes ==
  ASSUME Types, NEW cmd, NEW answer \in Replies, Answer(cmd, answer)
  PROVE  /\ cmds' \in Seq(Commands) /\ rx' \in Seq(Lines \ {"empty"})
         /\ UNCHANGED <<pc, caller, line_num, find_ack, result, start_script_attempts,
                        receiving_script_messages, wrong_script_version_count, recent>>
<1>1. cmds \in Seq(Commands) /\ rx \in Seq(Lines \ {"empty"}) /\ answer \in Lines \ {"empty"}
  BY DEF Types, TypeOK, Commands, Replies, Lines
<1>2. cmds # <<>> /\ cmds' = Tail(cmds) /\ rx' = Append(rx, answer)
  BY DEF Answer
<1>3. cmds' \in Seq(Commands)
  BY <1>1, <1>2, HeadTailProperties
<1>4. rx' \in Seq(Lines \ {"empty"})
  <2>1. Append(rx, answer) \in Seq(Lines \ {"empty"})
    BY <1>1, AppendProperties
  <2> QED BY <1>2, <2>1
<1> QED BY <1>3, <1>4 DEF Answer, download, static

LEMMA ServeTypes ==
  ASSUME Types, Serve
  PROVE  Types'
<1>1. \E cmd : \E answer \in Replies : Answer(cmd, answer)
  <2>1. CASE RunScript
    BY <2>1 DEF RunScript, Replies
  <2>2. CASE HaltScript \/ SetBool \/ SetSpeed \/ EnterDownload
    BY <2>2 DEF HaltScript, SetBool, SetSpeed, EnterDownload, Replies
  <2>3. CASE TakeLine \/ RefuseLine \/ Refuse
    BY <2>3 DEF TakeLine, RefuseLine, Refuse, Replies
  <2> QED BY <2>1, <2>2, <2>3 DEF Serve
<1>2. /\ cmds' \in Seq(Commands) /\ rx' \in Seq(Lines \ {"empty"})
      /\ UNCHANGED <<pc, caller, line_num, find_ack, result, start_script_attempts,
                     receiving_script_messages, wrong_script_version_count, recent>>
  BY <1>1, AnswerTypes
<1>3. /\ script' \in {"none", "old", "new"} /\ running' \in BOOLEAN
      /\ mode' \in {"run", "download"} /\ got' \in 0..ScriptLines
      /\ bool1' \in BOOLEAN /\ stray' \in 0..MaxStray
      /\ mode' = "download" => ~running' /\ got' < ScriptLines
      /\ running' => script' # "none"
  <2>1. CASE RunScript
    BY <2>1 DEF RunScript, Types, TypeOK, Bounded
  <2>5. CASE HaltScript
    BY <2>5 DEF HaltScript, Types, TypeOK, Bounded
  <2>7. CASE SetBool
    BY <2>7 DEF SetBool, Types, TypeOK, Bounded
  <2>6. CASE SetSpeed \/ Refuse
    BY <2>6 DEF SetSpeed, Refuse, Types, TypeOK, Bounded, controller
  <2>2. CASE EnterDownload
    <3>1. 0 \in 0..ScriptLines /\ 0 < ScriptLines
      BY Counts
    <3> QED BY <2>2, <3>1 DEF EnterDownload, Types, TypeOK, Bounded
  <2>3. CASE TakeLine
    BY <2>3, Counts DEF TakeLine, Types, TypeOK, Bounded
  <2>4. CASE RefuseLine
    BY <2>4, Counts DEF RefuseLine, Types, TypeOK, Bounded, controller
  <2> QED BY <2>1, <2>2, <2>3, <2>4, <2>5, <2>6, <2>7 DEF Serve
<1> QED BY <1>2, <1>3 DEF Types, TypeOK, Bounded, Commands

LEMMA ChannelTypes ==
  ASSUME Types, timerCallback \/ cmdCallback \/ Expire
  PROVE  Types'
<1>1. CASE Expire
  BY <1>1 DEF Expire, Types, TypeOK, Bounded, controller, download, static
<1>2. ASSUME NEW cmd \in {"B", "G"}, ChannelSends(cmd) PROVE Types'
  <2>1. cmds' \in Seq(Commands)
    BY <1>2, SendTypes DEF ChannelSends, Types, TypeOK, Commands
  <2>2. stray' \in 0..MaxStray
    BY <1>2, Counts DEF ChannelSends, Types, TypeOK
  <2> QED BY <1>2, <2>1, <2>2 DEF ChannelSends, Types, TypeOK, Bounded, Commands, controller,
                                  download, static
<1> QED BY <1>1, <1>2 DEF timerCallback, cmdCallback

LEMMA NextTypes ==
  ASSUME Types, NEW line, NextLine(line)
  PROVE  rx' \in Seq(Lines \ {"empty"}) /\ rx # <<>> /\ line = Head(rx) /\ rx' = Tail(rx)
         /\ line \in Lines \ {"empty"}
<1>1. rx \in Seq(Lines \ {"empty"}) /\ rx # <<>> /\ rx' = Tail(rx) /\ line = Head(rx)
  BY DEF Types, TypeOK, NextLine
<1> QED BY <1>1, HeadTailProperties

LEMMA ReadTypes ==
  ASSUME Types, ReadOther \/ ReadFeedback \/ ReadStatus \/ ReadWrongStatus \/ StartScript
                \/ StartDownload \/ Nap
  PROVE  Types'
<1>1. ASSUME NEW line, Reads(line)
      PROVE  /\ rx' \in Seq(Lines \ {"empty"}) /\ pc = "read"
             /\ UNCHANGED <<script, running, mode, got, bool1, cmds, stray>>
  BY <1>1, NextTypes DEF Reads, controller
<1>2. CASE ReadOther
  BY <1>1, <1>2 DEF ReadOther, Types, TypeOK, Bounded, download, static
<1>3. CASE ReadFeedback
  BY <1>1, <1>3 DEF ReadFeedback, Types, TypeOK, Bounded, download
<1>4. CASE ReadStatus
  BY <1>1, <1>4, Counts DEF ReadStatus, Types, TypeOK, Bounded, download
<1>5. CASE ReadWrongStatus
  <2>1. /\ wrong_script_version_count' \in 0..WrongLimit /\ receiving_script_messages' \in BOOLEAN
        /\ pc' \in {"read", "halt"} /\ caller' \in {"none", "silence", "status"}
        /\ (caller' = "none" <=> pc' \in {"read", "nap"})
        /\ UNCHANGED <<line_num, find_ack, result, start_script_attempts, recent>>
    <3>1. pc = "read" /\ caller = "none" /\ wrong_script_version_count \in 0..WrongLimit
          /\ receiving_script_messages \in BOOLEAN
      BY <1>1, <1>5 DEF ReadWrongStatus, Types, TypeOK
    <3>2. CASE wrong_script_version_count >= WrongLimit
      BY <1>5, <3>1, <3>2 DEF ReadWrongStatus
    <3>3. CASE ~(wrong_script_version_count >= WrongLimit)
      BY <1>5, <3>1, <3>3, Counts DEF ReadWrongStatus
    <3> QED BY <3>2, <3>3
  <2> QED BY <1>1, <1>5, <2>1 DEF ReadWrongStatus, Types, TypeOK, Bounded
<1>6. CASE StartScript
  <2>1. cmds' \in Seq(Commands)
    BY <1>6, SendTypes DEF StartScript, Types, TypeOK, Commands
  <2> QED BY <1>6, <2>1, Counts DEF StartScript, Idle, Types, TypeOK, Bounded, Commands,
                                    controller, download
<1>7. CASE StartDownload
  BY <1>7 DEF StartDownload, Idle, Types, TypeOK, Bounded, controller, static
<1>8. CASE Nap
  BY <1>8 DEF Nap, Steps, Types, TypeOK, Bounded, controller, static
<1> QED BY <1>2, <1>3, <1>4, <1>5, <1>6, <1>7, <1>8

LEMMA DownloadTypes ==
  ASSUME Types, StopScript \/ ClearBuffer \/ SendSLD \/ SendLine
  PROVE  Types'
<1>1. CASE StopScript \/ SendSLD \/ SendLine
  <2>1. cmds' \in Seq(Commands)
    BY <1>1, SendTypes DEF StopScript, SendSLD, SendLine, Types, TypeOK, Commands
  <2>2. CASE StopScript
    BY <2>1, <2>2 DEF StopScript, Steps, Types, TypeOK, Bounded, Commands, controller, static
  <2>3. CASE SendSLD
    <3>1. 0 \in 0..AckTries /\ 0 < AckTries
      BY Counts
    <3> QED BY <2>1, <2>3, <3>1 DEF SendSLD, Steps, Types, TypeOK, Bounded, Commands, controller, static
  <2>4. CASE SendLine
    BY <2>1, <2>4 DEF SendLine, Steps, Types, TypeOK, Bounded, Commands, controller, static
  <2> QED BY <1>1, <2>2, <2>3, <2>4
<1>2. CASE ClearBuffer
  <2>1. rx' \in Seq(Lines \ {"empty"})
    BY <1>2, Spoil DEF ClearBuffer, Types, TypeOK, Lines
  <2> QED BY <1>2, <2>1 DEF ClearBuffer, Steps, Types, TypeOK, Bounded, controller, static
<1> QED BY <1>1, <1>2

LEMMA ReturnTypes ==
  ASSUME Types, NEW ok \in BOOLEAN, Return(ok), pc \notin {"read", "nap"}
  PROVE  /\ result' \in BOOLEAN /\ caller' = "none" /\ pc' \in {"read", "nap"}
         /\ receiving_script_messages' \in BOOLEAN
         /\ start_script_attempts' \in 0..StartAttempts
         /\ wrong_script_version_count' \in 0..WrongLimit
<1>1. /\ start_script_attempts \in 0..StartAttempts /\ wrong_script_version_count \in 0..WrongLimit
      /\ receiving_script_messages \in BOOLEAN
  BY DEF Types, TypeOK
<1>2. 0 \in 0..StartAttempts
  BY Counts
<1> QED BY <1>1, <1>2 DEF Return

LEMMA LineTypes ==
  ASSUME Types, NEW line, ReadLine(line)
  PROVE  /\ rx' \in Seq(Lines \ {"empty"})
         /\ UNCHANGED <<script, running, mode, got, bool1, cmds, recent, stray>>
<1>1. rx \in Seq(Lines \ {"empty"}) /\ (rx' = rx \/ (rx # <<>> /\ rx' = Tail(rx)))
  BY DEF Types, TypeOK, ReadLine
<1>2. rx' \in Seq(Lines \ {"empty"})
  BY <1>1, HeadTailProperties
<1> QED BY <1>2 DEF ReadLine, controller

(* The ways in which a line of the script is acknowledged.                 *)
LEMMA AckCases ==
  ASSUME ReadAck
  PROVE  \E line \in Lines :
           /\ pc = "ack" /\ ReadLine(line) /\ find_ack' = find_ack
           /\ \/ /\ line = "+" /\ line_num + 1 < ScriptLines
                 /\ pc' = "line" /\ line_num' = line_num + 1
                 /\ UNCHANGED <<result, caller, static>>
              \/ line = "+" /\ ~(line_num + 1 < ScriptLines) /\ Return(TRUE) /\ line_num' = line_num
              \/ line # "+" /\ Return(FALSE) /\ line_num' = line_num
<1>1. PICK line \in Lines :
        /\ ReadLine(line)
        /\ IF line \in Good /\ line_num + 1 < ScriptLines
           THEN pc' = "line" /\ line_num' = line_num + 1 /\ UNCHANGED <<result, caller, static>>
           ELSE Return(line \in Good) /\ UNCHANGED line_num
  BY DEF ReadAck
<1>2. pc = "ack" /\ find_ack' = find_ack /\ (line \in Good <=> line = "+")
  BY DEF ReadAck, Good
<1>3. CASE line = "+" /\ line_num + 1 < ScriptLines
  BY <1>1, <1>2, <1>3
<1>4. CASE line = "+" /\ ~(line_num + 1 < ScriptLines)
  <2>1. (line \in Good) = TRUE
    BY <1>2, <1>4
  <2>2. Return(line \in Good) /\ line_num' = line_num
    BY <1>1, <1>4
  <2>3. Return(TRUE)
    BY <2>1, <2>2
  <2> QED BY <1>1, <1>2, <1>4, <2>2, <2>3
<1>5. CASE line # "+"
  <2>1. (line \in Good) = FALSE
    BY <1>2, <1>5
  <2>2. Return(line \in Good) /\ line_num' = line_num
    BY <1>1, <1>2, <1>5
  <2>3. Return(FALSE)
    BY <2>1, <2>2
  <2> QED BY <1>1, <1>2, <1>5, <2>2, <2>3
<1> QED BY <1>3, <1>4, <1>5

LEMMA AckTypes ==
  ASSUME Types, FoundAck \/ NoAck \/ ReadAck
  PROVE  Types'
<1>1. /\ rx' \in Seq(Lines \ {"empty"})
      /\ UNCHANGED <<script, running, mode, got, bool1, cmds, recent, stray>>
      /\ pc \in {"find_ack", "ack"}
  BY LineTypes DEF FoundAck, NoAck, ReadAck
<1>2. CASE FoundAck
  BY <1>1, <1>2, Counts DEF FoundAck, Types, TypeOK, Bounded, static
<1>3. CASE NoAck
  <2>1. CASE find_ack' < AckTries
    BY <1>1, <1>3, <2>1, Counts DEF NoAck, Types, TypeOK, Bounded, static
  <2>2. CASE Return(FALSE)
    <3>1. pc = "find_ack" /\ find_ack' = find_ack + 1 /\ line_num' = line_num
      BY <1>3 DEF NoAck
    <3>2. find_ack' \in 0..AckTries
      BY <3>1, Counts DEF Types, TypeOK, Bounded
    <3> QED BY <1>1, <2>2, <3>1, <3>2, ReturnTypes DEF Types, TypeOK, Bounded
  <2> QED BY <1>3, <2>1, <2>2 DEF NoAck
<1>4. CASE ReadAck
  <2>1. CASE pc' = "line" /\ line_num' = line_num + 1 /\ line_num + 1 < ScriptLines
             /\ UNCHANGED <<result, caller, static, find_ack>>
    BY <1>1, <1>4, <2>1, Counts DEF Types, TypeOK, Bounded, static
  <2>2. ASSUME NEW ok \in BOOLEAN, Return(ok), UNCHANGED <<line_num, find_ack>> PROVE Types'
    BY <1>1, <2>2, ReturnTypes DEF Types, TypeOK, Bounded
  <2> QED BY <1>4, <2>1, <2>2, AckCases
<1> QED BY <1>2, <1>3, <1>4

LEMMA TypesStep == Types /\ [Next]_vars => Types'
<1>1. ASSUME Types, UNCHANGED vars PROVE Types'
  BY <1>1 DEF vars, controller, download, static, Types, TypeOK, Bounded
<1> QED BY <1>1, PrintTypes, ServeTypes, ChannelTypes, ReadTypes, DownloadTypes, AckTypes
        DEF Next, read, Believe

(* Type correctness, and the counters below their limits, for any limits   *)
(* and any length of the script, whether or not the controller answers     *)
(* promptly.                                                               *)
THEOREM TypeCorrect == Spec => []TypeOK
<1>1. Types => TypeOK
  BY DEF Types
<1> QED BY <1>1, TypesStart, TypesStep, PTL DEF Spec
-----------------------------------------------------------------------------
(* Downloads of a controller that answers promptly. Lines and commands of  *)
(* one that failed may be on their way when the next one begins.           *)

Says(line) == Has(rx, line)

Waits(cmd) == Has(cmds, cmd)

(* Until the next download begins nothing can change the script.           *)
Succeeded ==
  result => /\ pc \in {"read", "nap", "halt"} /\ script = "new" /\ mode = "run"
            /\ ~Waits("SLD") /\ ~Waits("line")

(* The script is started only when nothing else is on the way.             *)
Starting ==
  /\ NoPrintAfter(rx)
  /\ Says("HLD") => ~running
  /\ Waits("run") => /\ pc = "read" /\ ~Says("HLD") /\ ~Says("old")
                     /\ ~Waits("SLD") /\ ~Waits("line")

JustEntered == mode = "download" /\ got = 0

(* Up to its acknowledgement, and before a download that an outdated       *)
(* version will cause, an HLD is followed by the refusal of the command    *)
(* that stops the script, but for that of the last SLD.                    *)
Marked ==
  pc \in {"halt", "clear", "sld", "find_ack"} \/ Says("old") =>
    /\ ~Waits("line")
    /\ RefusalAfter(rx, JustEntered)
    /\ Single(cmds, "SLD")
    /\ Waits("SLD") => ~Ends(rx, "HLD")

Cleared ==
  /\ pc = "clear" => /\ Ends(rx, "HLD") => cmds # <<>>
                     /\ ~Ends(cmds, "SLD")
  /\ pc = "sld" => ~Waits("SLD") /\ ~Ends(rx, "HLD")

(* With the HLD of this download the controller counts the lines with the  *)
(* driver: a line is on its way there, its acknowledgement on its way      *)
(* back, or it was the last one.                                           *)
Loading ==
  /\ ~Waits("SLD")
  /\ pc = "line" => mode = "download" /\ got = line_num /\ ~Says("+") /\ ~Waits("line")
  /\ pc = "ack" =>
       \/ mode = "download" /\ got = line_num /\ ~Says("+") /\ Single(cmds, "line")
       \/ mode = "download" /\ got = line_num + 1 /\ ~Waits("line") /\ Single(rx, "+")
       \/ mode = "run" /\ script = "new" /\ line_num + 1 = ScriptLines /\ ~Waits("line")

(* With that of an earlier one the first line is found refused.            *)
Acknowledged ==
  pc \in {"line", "ack"} =>
    /\ OnlyReplies(rx) /\ ~running
    /\ Refused(rx) \/ Loading

DownloadInv == Succeeded /\ Starting /\ Marked /\ Cleared /\ Acknowledged

LEMMA Marks ==
  ASSUME NEW S, NEW s \in Seq(S)
  PROVE  /\ \A x : ~Has(<<>>, x) /\ ~Ends(<<>>, x) /\ Single(<<>>, x)
         /\ ~Has(s, "HLD") => NoPrintAfter(s) /\ \A m \in BOOLEAN : RefusalAfter(s, m)
         /\ \A m \in BOOLEAN : RefusalAfter(s, m) /\ Ends(s, "HLD") => m
         /\ \A x : Ends(s, x) => Has(s, x)
         /\ Refused(s) => s # <<>> /\ Head(s) = "-"
<1>1. Len(s) \in Nat /\ (s # <<>> => Len(s) \in 1..Len(s) /\ Head(s) = s[1])
  BY LenProperties, EmptySeq
<1>2. \A x : ~Has(<<>>, x) /\ ~Ends(<<>>, x) /\ Single(<<>>, x)
  BY DEF Has, Ends, Single
<1>3. ~Has(s, "HLD") => NoPrintAfter(s) /\ \A m \in BOOLEAN : RefusalAfter(s, m)
  BY DEF Has, NoPrintAfter, RefusalAfter
<1>4. \A m \in BOOLEAN : RefusalAfter(s, m) /\ Ends(s, "HLD") => m
  BY <1>1 DEF RefusalAfter, Ends
<1>5. \A x : Ends(s, x) => Has(s, x)
  BY <1>1 DEF Has, Ends
<1> QED BY <1>1, <1>2, <1>3, <1>4, <1>5 DEF Refused

LEMMA OnWay ==
  ASSUME Types
  PROVE  cmds \in Seq(Commands) /\ rx \in Seq(Lines \ {"empty"})
BY DEF Types, TypeOK, Commands

LEMMA Sending ==
  ASSUME Types, NEW cmd \in Commands, Send(cmd)
  PROVE  Grown(cmds, cmd, cmds')
<1>1. cmds \in Seq(Commands) /\ cmds' = Append(cmds, cmd)
  BY OnWay DEF Send
<1> QED BY <1>1, Put

LEMMA Prints ==
  ASSUME Types, NEW line \in Lines \ {"empty"}, rx' = Append(rx, line)
  PROVE  Grown(rx, line, rx')
<1>1. rx \in Seq(Lines \ {"empty"})
  BY OnWay
<1> QED BY <1>1, Put

LEMMA Answering ==
  ASSUME Types, NEW cmd, NEW answer \in Replies, Answer(cmd, answer)
  PROVE  cmd = Head(cmds) /\ Shrunk(cmds, cmds') /\ Grown(rx, answer, rx')
<1>1. /\ cmds \in Seq(Commands) /\ rx \in Seq(Lines \ {"empty"})
      /\ cmds # <<>> /\ cmd = Head(cmds) /\ cmds' = Tail(cmds) /\ rx' = Append(rx, answer)
  BY OnWay DEF Answer
<1>2. answer \in Lines \ {"empty"}
  BY DEF Replies, Lines
<1>3. Shrunk(cmds, cmds')
  BY <1>1, Take
<1>4. Grown(rx, answer, rx')
  BY <1>1, <1>2, Put
<1> QED BY <1>1, <1>3, <1>4

LEMMA Reading ==
  ASSUME Types, rx # <<>>, rx' = Tail(rx)
  PROVE  Shrunk(rx, rx')
<1>1. rx \in Seq(Lines \ {"empty"})
  BY OnWay
<1> QED BY <1>1, Take

LEMMA StartsSafe == Init => DownloadInv
<1> SUFFICES ASSUME Init PROVE DownloadInv
  OBVIOUS
<1>1. cmds = <<>> /\ rx = <<>> /\ pc = "read" /\ ~result
  BY DEF Init
<1>2. /\ \A x : ~Has(<<>>, x)
      /\ NoPrintAfter(<<>>)
  BY None DEF NoPrintAfter
<1> QED BY <1>1, <1>2 DEF DownloadInv, Succeeded, Starting, Marked, Cleared, Acknowledged, Says, Waits

(* The controller prints and answers.                                      *)
LEMMA PrintSafe ==
  ASSUME Types, DownloadInv, Prompt, PrintStatus \/ PrintFeedback
  PROVE  DownloadInv'
<1>1. PICK line \in {script, "feedback"} :
        /\ running /\ mode = "run" /\ cmds = <<>> /\ cmds' = cmds /\ rx' = Append(rx, line)
        /\ UNCHANGED <<script, running, mode, got, pc, line_num, result>>
  BY DEF PrintStatus, PrintFeedback, ScriptSays, Printing, Answered, controller, download
<1>2. line \in Lines \ {"empty"} /\ line # "HLD"
  BY <1>1 DEF Types, TypeOK, Bounded, Lines
<1>3. /\ \A x : Has(rx', x) <=> Has(rx, x) \/ x = line
      /\ \A x : Ends(rx', x) <=> x = line
  BY <1>1, <1>2, Prints DEF Grown
<1>4. /\ rx' \in Seq(Lines \ {"empty"})
      /\ \A x : ~Has(cmds', x) /\ ~Ends(cmds', x) /\ Single(cmds', x)
  BY <1>1, <1>2, OnWay, Marks, AppendProperties
<1>5. ~Has(rx', "HLD") /\ NoPrintAfter(rx') /\ \A m \in BOOLEAN : RefusalAfter(rx', m)
  BY <1>1, <1>2, <1>3, <1>4, Marks DEF DownloadInv, Starting, Says
<1>6. JustEntered' \in BOOLEAN
  BY DEF JustEntered
<1>7. Succeeded'
  BY <1>1, <1>4 DEF DownloadInv, Succeeded, Waits
<1>8. Starting'
  BY <1>4, <1>5 DEF Starting, Says, Waits
<1>9. Marked'
  BY <1>2, <1>3, <1>4, <1>5, <1>6 DEF Marked, Says, Waits
<1>10. Cleared'
  BY <1>2, <1>3, <1>4 DEF Cleared, Waits
<1>11. Acknowledged'
  BY <1>1 DEF DownloadInv, Acknowledged
<1> QED BY <1>7, <1>8, <1>9, <1>10, <1>11 DEF DownloadInv

(* What the controller does with a command.                                *)
Served(cmd, answer) ==
  \/ /\ cmd = "run" /\ mode = "run" /\ answer \in {"+", "-"} /\ UNCHANGED <<script, mode, got>>
  \/ /\ cmd \in {"halt", "B", "G"} /\ mode = "run" /\ answer = "+" /\ UNCHANGED <<script, mode, got>>
     /\ (running' => running)
  \/ /\ cmd = "SLD" /\ answer = "HLD" /\ mode' = "download" /\ got' = 0 /\ ~running'
     /\ UNCHANGED script
  \/ /\ cmd = "line" /\ mode = "download" /\ answer = "+" /\ got' = got + 1
     /\ IF got' = ScriptLines THEN script' = "new" /\ mode' = "run" ELSE mode' = mode
     /\ (running' => running)
  \/ /\ cmd = "line" /\ answer = "-" /\ UNCHANGED <<script, mode, got, running>>
  \/ /\ cmd \in {"run", "halt", "B", "G"} /\ mode = "download" /\ answer = "-"
     /\ UNCHANGED <<script, mode, got, running>>

LEMMA ServeCases ==
  ASSUME Types, Serve
  PROVE  /\ \E cmd, answer : answer \in Replies /\ Answer(cmd, answer) /\ Served(cmd, answer)
         /\ UNCHANGED <<pc, line_num, result>>
<1>1. CASE RunScript
  BY <1>1 DEF RunScript, Answer, Served, Replies, download
<1>2. CASE HaltScript
  BY <1>2 DEF HaltScript, Answer, Served, Replies, download
<1>3. CASE SetBool
  BY <1>3 DEF SetBool, Answer, Served, Replies, download
<1>4. CASE SetSpeed
  BY <1>4 DEF SetSpeed, Answer, Served, Replies, download, controller
<1>5. CASE EnterDownload
  BY <1>5 DEF EnterDownload, Answer, Served, Replies, download
<1>6. CASE TakeLine
  BY <1>6 DEF TakeLine, Answer, Served, Replies, download
<1>7. CASE RefuseLine
  BY <1>7 DEF RefuseLine, Answer, Served, Replies, download, controller
<1>8. CASE Refuse
  BY <1>8 DEF Refuse, Answer, Served, Replies, download, controller, Types, TypeOK
<1> QED BY <1>1, <1>2, <1>3, <1>4, <1>5, <1>6, <1>7, <1>8 DEF Serve

LEMMA ServeSafe ==
  ASSUME Types, DownloadInv, Serve
  PROVE  DownloadInv'
<1>1. UNCHANGED <<pc, line_num, result>>
  BY ServeCases
<1>2. PICK cmd, answer : answer \in Replies /\ Answer(cmd, answer) /\ Served(cmd, answer)
  BY ServeCases
<1>3. /\ \A x : Has(cmds, x) <=> Has(cmds', x) \/ x = cmd
      /\ \A x : Ends(cmds', x) => Ends(cmds, x)
      /\ cmds' = <<>> => Ends(cmds, cmd)
      /\ \A x : Single(cmds, x) => Single(cmds', x)
      /\ Single(cmds, cmd) => ~Has(cmds', cmd)
  BY <1>2, Answering DEF Shrunk
<1>4. /\ \A x : Has(rx', x) <=> Has(rx, x) \/ x = answer
      /\ \A x : Ends(rx', x) <=> x = answer
      /\ \A x : Single(rx, x) /\ (x = answer => ~Has(rx, x)) => Single(rx', x)
      /\ NoPrintAfter(rx) => NoPrintAfter(rx')
      /\ OnlyReplies(rx) => OnlyReplies(rx')
      /\ Refused(rx) => Refused(rx')
  BY <1>2, Answering DEF Grown
<1>5. answer = "HLD" <=> cmd = "SLD"
  BY <1>2 DEF Served
<1>6. Succeeded'
  BY <1>1, <1>2, <1>3 DEF DownloadInv, Succeeded, Waits, Served
<1>7. Starting'
  BY <1>1, <1>2, <1>3, <1>4, <1>5 DEF DownloadInv, Starting, Says, Waits, Served, Replies
<1>8. ASSUME pc \in {"halt", "clear", "sld", "find_ack"} \/ Says("old")
      PROVE  RefusalAfter(rx', JustEntered')
  <2>1. RefusalAfter(rx, JustEntered) /\ ~Waits("line") /\ (Waits("SLD") => ~Ends(rx, "HLD"))
    BY <1>8 DEF DownloadInv, Marked
  <2>2. JustEntered \in BOOLEAN /\ JustEntered' \in BOOLEAN
    BY DEF JustEntered
  <2>3. Ends(rx, "HLD") => JustEntered
    BY <2>1, <2>2, OnWay, Marks
  <2>4. Ends(rx, "HLD") => answer = "-"
    BY <1>2, <1>3, <2>1, <2>3 DEF JustEntered, Waits, Served
  <2>5. answer = "HLD" => JustEntered'
    BY <1>2 DEF JustEntered, Served
  <2>6. \A m, n \in BOOLEAN :
          RefusalAfter(rx, m) /\ (Ends(rx, "HLD") => answer = "-") /\ (answer = "HLD" => n)
            => RefusalAfter(rx', n)
    BY <1>2, Answering DEF Grown
  <2> QED BY <2>1, <2>2, <2>4, <2>5, <2>6
<1>9. Marked'
  BY <1>1, <1>2, <1>3, <1>4, <1>5, <1>8 DEF DownloadInv, Marked, Says, Waits, Replies
<1>10. Cleared'
  BY <1>1, <1>3, <1>4, <1>5 DEF DownloadInv, Cleared, Waits
<1>11. Acknowledged'
  <2> SUFFICES ASSUME pc \in {"line", "ack"}
               PROVE  OnlyReplies(rx') /\ ~running' /\ (Refused(rx') \/ Loading')
    BY <1>1 DEF Acknowledged
  <2>1. OnlyReplies(rx) /\ ~running /\ (Refused(rx) \/ Loading) /\ cmd # "run"
    BY <1>3 DEF DownloadInv, Acknowledged, Starting, Waits
  <2>2. OnlyReplies(rx') /\ ~running'
    BY <1>2, <1>4, <2>1 DEF Served
  <2>3. ASSUME Loading PROVE Loading'
    <3>1. ~Waits("SLD") /\ cmd # "SLD" /\ ~Waits("SLD")'
      BY <1>3, <2>3 DEF Loading, Waits
    <3>2. CASE pc = "line"
      BY <1>1, <1>2, <1>3, <1>4, <2>3, <3>1, <3>2 DEF Loading, Says, Waits, Served
    <3>3. CASE pc = "ack" /\ mode = "download" /\ got = line_num /\ ~Says("+") /\ Single(cmds, "line")
      <4>1. CASE cmd = "line" /\ answer = "+"
        <5>1. got' = got + 1 /\ IF got' = ScriptLines THEN script' = "new" /\ mode' = "run" ELSE mode' = mode
          BY <1>2, <4>1 DEF Served
        <5>2. ~Waits("line")' /\ Single(rx', "+")
          <6>1. Single(rx, "+")
            BY <3>3 DEF Says, Has, Single
          <6> QED BY <1>3, <1>4, <3>3, <4>1, <6>1 DEF Says, Waits
        <5>3. CASE got' = ScriptLines
          BY <1>1, <3>1, <3>3, <5>1, <5>2, <5>3 DEF Loading
        <5>4. CASE got' # ScriptLines
          BY <1>1, <3>1, <3>3, <5>1, <5>2, <5>4 DEF Loading
        <5> QED BY <5>3, <5>4
      <4>2. CASE answer = "-"
        BY <1>1, <1>2, <1>3, <1>4, <2>1, <3>1, <3>3, <4>2 DEF Loading, Says, Waits, Served
      <4> QED BY <1>2, <2>1, <3>1, <3>3, <4>1, <4>2 DEF Served
    <3>4. CASE pc = "ack" /\ mode = "download" /\ got = line_num + 1 /\ ~Waits("line") /\ Single(rx, "+")
      BY <1>1, <1>2, <1>3, <1>4, <2>1, <3>1, <3>4 DEF Loading, Says, Waits, Served
    <3>5. CASE pc = "ack" /\ mode = "run" /\ script = "new" /\ line_num + 1 = ScriptLines
               /\ ~Waits("line")
      BY <1>1, <1>2, <1>3, <1>4, <2>1, <3>1, <3>5 DEF Loading, Says, Waits, Served
    <3> QED BY <2>3, <3>2, <3>3, <3>4, <3>5 DEF Loading
  <2> QED BY <1>4, <2>1, <2>2, <2>3
<1> QED BY <1>6, <1>7, <1>9, <1>10, <1>11 DEF DownloadInv
(* The channels, and lines read outside a download.                        *)
LEMMA ChannelSafe ==
  ASSUME Types, DownloadInv, timerCallback \/ cmdCallback \/ Expire
  PROVE  DownloadInv'
<1>1. CASE Expire
  BY <1>1 DEF Expire, controller, download, DownloadInv, Succeeded, Starting, Marked, Cleared,
              Acknowledged, Loading, JustEntered, Says, Waits
<1>2. ASSUME NEW cmd \in {"B", "G"}, ChannelSends(cmd) PROVE DownloadInv'
  <2>1. UNCHANGED <<script, running, mode, got, rx, pc, line_num, result>>
    BY <1>2 DEF ChannelSends, controller, download
  <2>2. /\ cmds' # <<>>
        /\ \A x : Has(cmds', x) <=> Has(cmds, x) \/ x = cmd
        /\ \A x : Ends(cmds', x) <=> x = cmd
        /\ \A x : Single(cmds, x) /\ (x = cmd => ~Has(cmds, x)) => Single(cmds', x)
    BY <1>2, Sending DEF ChannelSends, Commands, Grown
  <2>3. Succeeded' /\ Starting'
    BY <1>2, <2>1, <2>2 DEF DownloadInv, Succeeded, Starting, Says, Waits
  <2>4. Marked' /\ Cleared'
    BY <1>2, <2>1, <2>2 DEF DownloadInv, Marked, Cleared, JustEntered, Says, Waits
  <2>5. Acknowledged'
    BY <1>2, <2>1, <2>2 DEF DownloadInv, Acknowledged, Loading, Says, Waits
  <2> QED BY <2>3, <2>4, <2>5 DEF DownloadInv
<1> QED BY <1>1, <1>2 DEF timerCallback, cmdCallback

LEMMA ReadSafe ==
  ASSUME Types, DownloadInv, ReadOther \/ ReadFeedback \/ ReadStatus \/ ReadWrongStatus
  PROVE  DownloadInv'
<1>1. /\ pc = "read" /\ rx # <<>> /\ rx' = Tail(rx)
      /\ UNCHANGED <<script, running, mode, got, cmds, line_num, result>>
      /\ pc' = "read" \/ (pc' = "halt" /\ Head(rx) = "old")
  BY DEF ReadOther, ReadFeedback, ReadStatus, ReadWrongStatus, Reads, NextLine, controller, download
<1>2. /\ \A x : Has(rx, x) <=> Has(rx', x) \/ x = Head(rx)
      /\ \A x : Ends(rx', x) => Ends(rx, x)
      /\ NoPrintAfter(rx) => NoPrintAfter(rx')
      /\ \A m \in BOOLEAN : RefusalAfter(rx, m) => RefusalAfter(rx', m)
  BY <1>1, Reading DEF Shrunk
<1>3. pc' = "halt" => Says("old")
  BY <1>1, <1>2 DEF Says
<1>4. JustEntered \in BOOLEAN /\ JustEntered' = JustEntered
  BY <1>1 DEF JustEntered
<1>5. Succeeded' /\ Starting'
  BY <1>1, <1>2, <1>3 DEF DownloadInv, Succeeded, Starting, Says, Waits
<1>6. Marked'
  BY <1>1, <1>2, <1>3, <1>4 DEF DownloadInv, Marked, Says, Waits
<1>7. Cleared' /\ Acknowledged'
  BY <1>1 DEF Cleared, Acknowledged
<1> QED BY <1>5, <1>6, <1>7 DEF DownloadInv

LEMMA IdleSafe ==
  ASSUME Types, DownloadInv, Prompt, StartScript \/ StartDownload
  PROVE  DownloadInv'
<1>1. /\ pc = "read" /\ rx = <<>> /\ cmds = <<>> /\ rx' = rx
      /\ UNCHANGED <<script, running, mode, got, line_num, result>>
  BY DEF StartScript, StartDownload, Idle, NoData, Answered, controller, download
<1>2. \A x : ~Has(<<>>, x) /\ ~Ends(<<>>, x) /\ Single(<<>>, x)
  BY OnWay, Marks
<1>3. NoPrintAfter(rx') /\ \A m \in BOOLEAN : RefusalAfter(rx', m)
  BY <1>1 DEF NoPrintAfter, RefusalAfter
<1>4. JustEntered' \in BOOLEAN
  BY DEF JustEntered
<1>5. CASE StartScript
  <2>1. \A x : Has(cmds', x) <=> Has(cmds, x) \/ x = "run"
    BY <1>5, Sending DEF StartScript, Commands, Grown
  <2>2. pc' = "read"
    BY <1>1, <1>5 DEF StartScript
  <2>3. Succeeded' /\ Starting'
    BY <1>1, <1>2, <1>3, <2>1, <2>2 DEF DownloadInv, Succeeded, Starting, Says, Waits
  <2>4. Marked' /\ Cleared' /\ Acknowledged'
    BY <1>1, <1>2, <2>2 DEF Marked, Cleared, Acknowledged, Says
  <2> QED BY <2>3, <2>4 DEF DownloadInv
<1>6. CASE StartDownload
  <2>1. pc' = "halt" /\ cmds' = cmds
    BY <1>6 DEF StartDownload
  <2>2. Succeeded' /\ Starting'
    BY <1>1, <1>2, <1>3, <2>1 DEF DownloadInv, Succeeded, Starting, Says, Waits
  <2>3. Marked' /\ Cleared' /\ Acknowledged'
    BY <1>1, <1>2, <1>3, <1>4, <2>1 DEF Marked, Cleared, Acknowledged, Says, Waits
  <2> QED BY <2>2, <2>3 DEF DownloadInv
<1> QED BY <1>5, <1>6

LEMMA NapSafe ==
  ASSUME DownloadInv, Nap
  PROVE  DownloadInv'
BY DEF Nap, Steps, controller, DownloadInv, Succeeded, Starting, Marked, Cleared,
       Acknowledged, JustEntered, Says, Waits

(* The steps of downloadScript().                                          *)
LEMMA BeginSafe ==
  ASSUME Types, DownloadInv, Prompt, StopScript \/ ClearBuffer \/ SendSLD
  PROVE  DownloadInv'
<1>1. UNCHANGED <<script, running, mode, got, line_num>> /\ JustEntered' = JustEntered
      /\ JustEntered \in BOOLEAN
  BY DEF StopScript, ClearBuffer, SendSLD, Steps, controller, JustEntered
<1>2. CASE StopScript
  <2>1. pc = "halt" /\ pc' = "clear" /\ rx' = rx /\ result' = FALSE
    BY <1>2 DEF StopScript, Steps
  <2>2. /\ cmds' # <<>>
        /\ \A x : Has(cmds', x) <=> Has(cmds, x) \/ x = "halt"
        /\ \A x : Ends(cmds', x) <=> x = "halt"
        /\ \A x : Single(cmds, x) /\ (x = "halt" => ~Has(cmds, x)) => Single(cmds', x)
    BY <1>2, Sending DEF StopScript, Commands, Grown
  <2>3. Succeeded' /\ Starting'
    BY <1>1, <2>1, <2>2 DEF DownloadInv, Succeeded, Starting, Says, Waits
  <2>4. Marked' /\ Cleared' /\ Acknowledged'
    BY <1>1, <2>1, <2>2 DEF DownloadInv, Marked, Cleared, Acknowledged, Says, Waits
  <2> QED BY <2>3, <2>4 DEF DownloadInv
<1>3. CASE ClearBuffer
  <2>1. /\ pc = "clear" /\ pc' = "sld" /\ cmds = <<>> /\ cmds' = cmds /\ result' = result
        /\ rx' = rx \/ (rx # <<>> /\ rx' = <<"noise">> \o Tail(rx))
    BY <1>3 DEF ClearBuffer, Steps, Answered
  <2>2. /\ \A x : Has(rx', x) => Has(rx, x) \/ x = "noise"
        /\ \A x : Ends(rx', x) => Ends(rx, x) \/ x = "noise"
        /\ NoPrintAfter(rx) => NoPrintAfter(rx')
        /\ \A m \in BOOLEAN : RefusalAfter(rx, m) => RefusalAfter(rx', m)
    <3>1. CASE rx' = rx
      BY <3>1
    <3>2. CASE rx # <<>> /\ rx' = <<"noise">> \o Tail(rx)
      <4>1. "noise" \in Lines \ {"empty"}
        BY DEF Lines
      <4>2. rx \in Seq(Lines \ {"empty"})
        BY OnWay
      <4>3. Spoilt(rx, rx')
        BY <3>2, <4>1, <4>2, Spoil
      <4> QED BY <4>3 DEF Spoilt
    <3> QED BY <2>1, <3>1, <3>2
  <2>3. \A x : ~Has(<<>>, x) /\ ~Ends(<<>>, x) /\ Single(<<>>, x)
    BY OnWay, Marks
  <2>4. Succeeded' /\ Starting'
    BY <1>1, <2>1, <2>2, <2>3 DEF DownloadInv, Succeeded, Starting, Says, Waits
  <2>5. Marked' /\ Cleared' /\ Acknowledged'
    BY <1>1, <2>1, <2>2, <2>3 DEF DownloadInv, Marked, Cleared, Acknowledged, Says, Waits
  <2> QED BY <2>4, <2>5 DEF DownloadInv
<1>4. CASE SendSLD
  <2>1. pc = "sld" /\ pc' = "find_ack" /\ rx' = rx /\ result' = result
    BY <1>4 DEF SendSLD, Steps
  <2>2. /\ \A x : Has(cmds', x) <=> Has(cmds, x) \/ x = "SLD"
        /\ \A x : Single(cmds, x) /\ (x = "SLD" => ~Has(cmds, x)) => Single(cmds', x)
    BY <1>4, Sending DEF SendSLD, Commands, Grown
  <2>3. Succeeded' /\ Starting'
    BY <1>1, <2>1, <2>2 DEF DownloadInv, Succeeded, Starting, Says, Waits
  <2>4. Marked' /\ Cleared' /\ Acknowledged'
    BY <1>1, <2>1, <2>2 DEF DownloadInv, Marked, Cleared, Acknowledged, Says, Waits
  <2> QED BY <2>3, <2>4 DEF DownloadInv
<1> QED BY <1>2, <1>3, <1>4

LEMMA FoundSafe ==
  ASSUME Types, DownloadInv, FoundAck
  PROVE  DownloadInv'
<1>1. /\ pc = "find_ack" /\ pc' = "line" /\ line_num' = 0
      /\ rx # <<>> /\ Head(rx) = "HLD" /\ rx' = Tail(rx)
      /\ UNCHANGED <<script, running, mode, got, cmds, result>>
  BY DEF FoundAck, ReadLine, controller
<1>2. /\ \A x : Has(rx, x) <=> Has(rx', x) \/ x = Head(rx)
      /\ rx' = <<>> => Ends(rx, Head(rx))
      /\ NoPrintAfter(rx) => NoPrintAfter(rx')
      /\ NoPrintAfter(rx) /\ Head(rx) = "HLD" => OnlyReplies(rx')
      /\ \A m \in BOOLEAN : RefusalAfter(rx, m) /\ Head(rx) = "HLD" =>
           (rx' = <<>> /\ m) \/ Refused(rx')
  BY <1>1, Reading DEF Shrunk
<1>3. /\ ~Waits("line") /\ ~Waits("run") /\ (Waits("SLD") => ~Ends(rx, "HLD"))
      /\ RefusalAfter(rx, JustEntered) /\ NoPrintAfter(rx) /\ ~running /\ ~result
  BY <1>1, <1>2 DEF DownloadInv, Succeeded, Starting, Marked, Says
<1>4. OnlyReplies(rx') /\ ~Has(rx', "old")
  BY <1>1, <1>2, <1>3 DEF OnlyReplies, Has, Replies
<1>5. JustEntered \in BOOLEAN
  BY DEF JustEntered
<1>6. CASE Refused(rx')
  BY <1>1, <1>2, <1>3, <1>4, <1>6 DEF DownloadInv, Succeeded, Starting, Marked, Cleared,
                                      Acknowledged, Says, Waits
<1>7. CASE rx' = <<>> /\ JustEntered
  <2>1. ~Waits("SLD") /\ ~Has(rx', "+")
    BY <1>1, <1>2, <1>3, <1>7, None
  <2>2. Loading'
    BY <1>1, <1>3, <1>7, <2>1 DEF Loading, JustEntered, Says, Waits
  <2> QED BY <1>1, <1>2, <1>3, <1>4, <2>2 DEF DownloadInv, Succeeded, Starting, Marked, Cleared,
                                              Acknowledged, Says, Waits
<1> QED BY <1>1, <1>2, <1>3, <1>5, <1>6, <1>7

(* What a line that was read, or silence, leaves.                          *)
LEMMA LineRead ==
  ASSUME Types, NEW line, ReadLine(line)
  PROVE  /\ UNCHANGED <<script, running, mode, got, cmds>>
         /\ \A x : Has(rx', x) => Has(rx, x)
         /\ \A x : Ends(rx', x) => Ends(rx, x)
         /\ NoPrintAfter(rx) => NoPrintAfter(rx')
         /\ \A m \in BOOLEAN : RefusalAfter(rx, m) => RefusalAfter(rx', m)
         /\ OnlyReplies(rx) => OnlyReplies(rx')
         /\ line # "empty" =>
              /\ rx # <<>> /\ line = Head(rx) /\ Has(rx, line)
              /\ Single(rx, line) => ~Has(rx', line)
<1>1. /\ UNCHANGED <<script, running, mode, got, cmds>>
      /\ (rx' = rx /\ line = "empty") \/ (rx # <<>> /\ line = Head(rx) /\ rx' = Tail(rx))
  BY DEF ReadLine, controller
<1>2. CASE rx' = rx /\ line = "empty"
  BY <1>1, <1>2
<1>3. CASE rx # <<>> /\ line = Head(rx) /\ rx' = Tail(rx)
  BY <1>1, <1>3, Reading DEF Shrunk
<1> QED BY <1>1, <1>2, <1>3

LEMMA NoAckSafe ==
  ASSUME Types, DownloadInv, NoAck
  PROVE  DownloadInv'
<1>1. PICK line \in Lines \ {"HLD"} : ReadLine(line)
  BY DEF NoAck
<1>2. pc = "find_ack" /\ ((pc' = pc /\ result' = result) \/ (pc' \in {"read", "nap"} /\ result' = FALSE))
  <2>1. pc = "find_ack" /\ ((pc' = pc /\ result' = result) \/ Return(FALSE))
    BY DEF NoAck
  <2> QED BY <2>1 DEF Return
<1>3. JustEntered \in BOOLEAN /\ JustEntered' = JustEntered
  BY <1>1, LineRead DEF JustEntered
<1>4. Succeeded' /\ Starting'
  BY <1>1, <1>2, LineRead DEF DownloadInv, Succeeded, Starting, Says, Waits
<1>5. Marked' /\ Cleared' /\ Acknowledged'
  BY <1>1, <1>2, <1>3, LineRead DEF DownloadInv, Marked, Cleared, Acknowledged, Says, Waits
<1> QED BY <1>4, <1>5 DEF DownloadInv

LEMMA NoneOld == ASSUME NEW s, OnlyReplies(s) PROVE ~Has(s, "old")
BY DEF OnlyReplies, Has, Replies

LEMMA SendLineSafe ==
  ASSUME Types, DownloadInv, SendLine
  PROVE  DownloadInv'
<1>1. /\ pc = "line" /\ pc' = "ack" /\ rx' = rx
      /\ UNCHANGED <<script, running, mode, got, line_num, result>>
  BY DEF SendLine, Steps, controller
<1>2. /\ \A x : Has(cmds', x) <=> Has(cmds, x) \/ x = "line"
      /\ \A x : Single(cmds, x) /\ (x = "line" => ~Has(cmds, x)) => Single(cmds', x)
  BY Sending DEF SendLine, Commands, Grown
<1>3. OnlyReplies(rx) /\ ~Has(rx, "old") /\ ~running /\ (Refused(rx) \/ Loading)
  BY <1>1, NoneOld DEF DownloadInv, Acknowledged
<1>4. ~result /\ ~Waits("run")
  BY <1>1 DEF DownloadInv, Succeeded, Starting
<1>5. Loading => Loading'
  <2>1. ~Has(cmds, "line") => Single(cmds, "line")
    BY DEF Has, Single
  <2> QED BY <1>1, <1>2, <2>1 DEF Loading, Says, Waits
<1>6. Succeeded' /\ Starting'
  BY <1>1, <1>2, <1>4 DEF DownloadInv, Succeeded, Starting, Says, Waits
<1>7. Marked' /\ Cleared' /\ Acknowledged'
  BY <1>1, <1>3, <1>5 DEF Marked, Cleared, Acknowledged, Says
<1> QED BY <1>6, <1>7 DEF DownloadInv

LEMMA AckSafe ==
  ASSUME Types, DownloadInv, ReadAck
  PROVE  DownloadInv'
<1>1. PICK line \in Lines :
        /\ pc = "ack" /\ ReadLine(line)
        /\ \/ /\ line = "+" /\ line_num + 1 < ScriptLines
              /\ pc' = "line" /\ line_num' = line_num + 1
              /\ UNCHANGED <<result, caller, static>>
           \/ line = "+" /\ ~(line_num + 1 < ScriptLines) /\ Return(TRUE) /\ line_num' = line_num
           \/ line # "+" /\ Return(FALSE) /\ line_num' = line_num
  BY AckCases
<1>2. UNCHANGED <<script, running, mode, got, cmds>>
  BY <1>1, LineRead
<1>3. /\ OnlyReplies(rx) /\ ~running /\ (Refused(rx) \/ Loading)
      /\ ~result /\ ~Waits("run") /\ NoPrintAfter(rx)
  BY <1>1 DEF DownloadInv, Acknowledged, Succeeded, Starting
<1>4. /\ \A x : Has(rx', x) => Has(rx, x)
      /\ OnlyReplies(rx') /\ NoPrintAfter(rx') /\ ~Has(rx', "old")
  BY <1>1, <1>3, LineRead, NoneOld
<1>5. ASSUME line = "+"
      PROVE  /\ Loading /\ Has(rx, "+")
             /\ Single(rx, "+") => ~Has(rx', "+")
  <2>1. rx # <<>> /\ Head(rx) = "+" /\ Has(rx, "+") /\ (Single(rx, "+") => ~Has(rx', "+"))
    BY <1>1, <1>5, LineRead
  <2>2. ~Refused(rx)
    BY <2>1, OnWay, Marks
  <2> QED BY <1>3, <2>1, <2>2
<1>6. Starting'
  BY <1>2, <1>3, <1>4 DEF Starting, Says, Waits
<1>7. pc' \in {"line", "read", "nap"}
  BY <1>1 DEF Return
<1>8. Marked' /\ Cleared'
  BY <1>4, <1>7 DEF Marked, Cleared, Says
<1>9. CASE line = "+" /\ pc' = "line" /\ line_num' = line_num + 1 /\ line_num + 1 < ScriptLines
           /\ result' = result
  <2>1. Loading'
    BY <1>1, <1>2, <1>5, <1>9 DEF Loading, Says, Waits
  <2> QED BY <1>2, <1>3, <1>4, <1>6, <1>8, <1>9, <2>1 DEF DownloadInv, Succeeded, Acknowledged
<1>10. CASE line = "+" /\ ~(line_num + 1 < ScriptLines) /\ Return(TRUE)
  <2>1. line_num \in 0..ScriptLines - 1 /\ (mode = "download" => got < ScriptLines)
    BY DEF Types, TypeOK, Bounded
  <2>2. mode = "run" /\ script = "new" /\ ~Waits("line") /\ ~Waits("SLD")
    BY <1>1, <1>5, <1>10, <2>1, Counts DEF Loading, Says
  <2>3. pc' \in {"read", "nap"}
    BY <1>10 DEF Return
  <2> QED BY <1>2, <1>6, <1>8, <2>2, <2>3 DEF DownloadInv, Succeeded, Acknowledged, Waits
<1>11. CASE Return(FALSE)
  <2>1. pc' \in {"read", "nap"} /\ result' = FALSE
    BY <1>11 DEF Return
  <2> QED BY <1>6, <1>8, <2>1 DEF DownloadInv, Succeeded, Acknowledged
<1> QED BY <1>1, <1>9, <1>10, <1>11

LEMMA DownloadStep == Prompt /\ Types /\ DownloadInv /\ [Next]_vars => DownloadInv'
<1> SUFFICES ASSUME Prompt, Types, DownloadInv, [Next]_vars PROVE DownloadInv'
  OBVIOUS
<1>1. CASE UNCHANGED vars
  BY <1>1 DEF vars, controller, download, DownloadInv, Succeeded, Starting, Marked, Cleared,
              Acknowledged, Loading, JustEntered, Says, Waits
<1>2. CASE read
  BY <1>2, ReadSafe, IdleSafe, NapSafe, BeginSafe, FoundSafe, NoAckSafe, SendLineSafe, AckSafe
     DEF read
<1> QED BY <1>1, <1>2, PrintSafe, ServeSafe, ChannelSafe DEF Next, Believe

(* A download that reports success left this version of the script in the  *)
(* controller (controller.cpp:210-242), for any limits, any length of the  *)
(* script and any commands of the channels, and whatever an earlier        *)
(* download that failed left on its way: if the controller answers within  *)
(* the 500 ms that readline() waits.                                       *)
THEOREM DownloadIsTrue == Prompt => (Spec => []DownloadTrue)
<1> SUFFICES ASSUME Prompt PROVE Spec => []DownloadTrue
  OBVIOUS
<1>1. Init => Types /\ DownloadInv
  BY TypesStart, StartsSafe
<1>2. Types /\ DownloadInv /\ [Next]_vars => (Types /\ DownloadInv)'
  BY TypesStep, DownloadStep
<1>3. DownloadInv => DownloadTrue
  BY DEF DownloadInv, Succeeded, DownloadTrue
<1> QED BY <1>1, <1>2, <1>3, PTL DEF Spec
-----------------------------------------------------------------------------
(* The two threads and the streams they share: RoboteqLink.                *)

Points == {"idle", "test", "separate", "insert", "send", "write", "eol", "clear_ss",
           "flush", "clear_tx"}

Inserting == {"test", "separate", "insert"}

(* What is left of a built message before a separator and before a value.  *)
Paired(w) ==
  /\ Len(w) \in {2, 4, 6}
  /\ Len(w) # 2 => w[3] = SPACE
  /\ Len(w) = 6 => w[5] = SPACE

Opened(w) ==
  /\ Len(w) \in {1, 3, 5}
  /\ Len(w) # 1 => w[2] = SPACE
  /\ Len(w) = 5 => w[4] = SPACE

LinkTypes ==
  /\ at \in [Thread -> Points]
  /\ words \in [Thread -> Seq(Word)]
  /\ mine \in [Thread -> Seq(Word)]
  /\ ss \in Seq(Word)
  /\ tx_buffer \in Seq(Word)
  /\ wire \in Seq(Word)
  /\ alone \in [Thread -> BOOLEAN]
  /\ \A t \in Thread : /\ at[t] \in {"test", "separate"} => Paired(words[t])
                       /\ at[t] = "insert" => Opened(words[t])

(* A thread that uses `command` is not sending a line of the script.       *)
BuiltNotPlain ==
  \A t \in Thread : at[t] \in Inserting \cup {"send", "clear_ss"} => mine[t] \notin Plain(t)

(* What is in the sender belongs to a thread that has yet to clear it.     *)
WillClearSender(t) ==
  \/ at[t] \in Inserting \cup {"send", "clear_ss"}
  \/ at[t] \in {"write", "eol"} /\ mine[t] \notin Plain(t)

SenderHeld == ss # <<>> => \E t \in Thread : WillClearSender(t)

(* What is in the buffer belongs to a thread that has yet to clear it.     *)
WillClearBuffer(t) == at[t] \in {"eol", "clear_ss", "flush", "clear_tx"}

BufferHeld == tx_buffer # <<>> => \E t \in Thread : WillClearBuffer(t)

LinkInv == LinkTypes /\ BuiltNotPlain /\ SenderHeld /\ BufferHeld

LEMMA BuiltMessage ==
  ASSUME NEW t \in Thread, NEW msg \in Built(t)
  PROVE  /\ msg \in Seq(Word) /\ Paired(msg) /\ Head(msg) = INIT
         /\ msg \notin Plain(t)
<1>0. /\ INIT \in Word /\ SPACE \in Word /\ "R" \in Word /\ "G" \in Word /\ "B" \in Word
      /\ "0" \in Word /\ "1" \in Word /\ Values \subseteq Word
  BY DEF Word
<1>1. ASSUME NEW a \in Word
      PROVE  /\ <<INIT, a>> \in Seq(Word) /\ Paired(<<INIT, a>>)
             /\ Head(<<INIT, a>>) = INIT /\ <<INIT, a>> # <<"line">>
  BY <1>0 DEF Paired
<1>2. ASSUME NEW a \in Word, NEW b \in Word
      PROVE  /\ <<INIT, a, SPACE, b>> \in Seq(Word) /\ Paired(<<INIT, a, SPACE, b>>)
             /\ Head(<<INIT, a, SPACE, b>>) = INIT /\ <<INIT, a, SPACE, b>> # <<"line">>
  BY <1>0 DEF Paired
<1>3. ASSUME NEW a \in Word, NEW b \in Word, NEW c \in Word
      PROVE  /\ <<INIT, a, SPACE, b, SPACE, c>> \in Seq(Word)
             /\ Paired(<<INIT, a, SPACE, b, SPACE, c>>)
             /\ Head(<<INIT, a, SPACE, b, SPACE, c>>) = INIT
  BY <1>0 DEF Paired
<1>4. CASE t = main
  <2>1. msg = <<INIT, "R">> \/ msg = <<INIT, "R", SPACE, "0">>
    BY <1>4 DEF Built
  <2>2. Plain(t) = {<<"line">>}
    BY <1>4 DEF Plain
  <2>3. CASE msg = <<INIT, "R">>
    BY <1>0, <1>1, <2>2, <2>3
  <2>4. CASE msg = <<INIT, "R", SPACE, "0">>
    BY <1>0, <1>2, <2>2, <2>4
  <2> QED
    BY <2>1, <2>3, <2>4
<1>5. CASE t = spinner
  <2>1. Plain(t) = {}
    BY <1>5 DEF Plain, main, spinner
  <2>2. Built(t) = {<<INIT, "G", SPACE, "1", SPACE, v>> : v \in Values}
                     \cup {<<INIT, "B", SPACE, "1", SPACE, "1">>}
    BY <1>5 DEF Built, main, spinner
  <2>3. CASE msg = <<INIT, "B", SPACE, "1", SPACE, "1">>
    BY <1>0, <1>3, <2>1, <2>3
  <2>4. ASSUME NEW v \in Values, msg = <<INIT, "G", SPACE, "1", SPACE, v>>
        PROVE  msg \in Seq(Word) /\ Paired(msg) /\ Head(msg) = INIT
    BY <1>0, <1>3, <2>4
  <2> QED
    BY <1>0, <1>3, <2>1, <2>2, <2>3, <2>4
<1> QED
  BY <1>4, <1>5 DEF Thread

LEMMA PlainMessage ==
  ASSUME NEW t \in Thread, NEW msg \in Plain(t)
  PROVE  msg \in Seq(Word) /\ msg # <<>>
<1>1. msg = <<"line">>
  BY DEF Plain
<1>2. <<"line">> \in Seq(Word)
  BY DEF Word
<1> QED
  BY <1>1, <1>2

(* A word is taken from what is left.                                      *)
LEMMA TakeWord ==
  ASSUME NEW w \in Seq(Word), Paired(w) \/ Opened(w)
  PROVE  /\ Head(w) \in Word /\ Tail(w) \in Seq(Word) /\ w # <<>>
         /\ Paired(w) => Opened(Tail(w))
         /\ Opened(w) /\ Len(w) # 1 => Paired(Tail(w)) /\ Head(Tail(w)) = SPACE
<1>1. Len(w) \in 1..6 /\ w # <<>>
  <2>1. Len(w) \in 1..6
    BY DEF Paired, Opened
  <2> QED
    BY <2>1, EmptySeq
<1>2. /\ Head(w) \in Word /\ Tail(w) \in Seq(Word) /\ Len(Tail(w)) = Len(w) - 1
      /\ \A i \in 1..Len(w) - 1 : Tail(w)[i] = w[i + 1]
  BY <1>1, HeadTailProperties
<1>3. ASSUME Paired(w) PROVE Opened(Tail(w))
  <2>1. Len(w) # 2 => Tail(w)[2] = w[3]
    BY <1>2, <1>3 DEF Paired
  <2>2. ASSUME Len(w) = 6 PROVE Tail(w)[4] = w[5]
    <3>1. 4 \in 1..Len(w) - 1 /\ 4 + 1 = 5
      BY <2>2
    <3> QED
      BY <1>2, <3>1
  <2> QED
    BY <1>2, <1>3, <2>1, <2>2 DEF Paired, Opened
<1>4. ASSUME Opened(w), Len(w) # 1 PROVE Paired(Tail(w)) /\ Head(Tail(w)) = SPACE
  <2>1. Tail(w)[1] = w[2] /\ Tail(w) # <<>>
    BY <1>2, <1>4, EmptySeq DEF Opened
  <2>2. Len(w) = 5 => Tail(w)[3] = w[4]
    BY <1>1, <1>2
  <2>3. Head(Tail(w)) = Tail(w)[1]
    BY <1>2, <2>1, HeadTailProperties
  <2> QED
    BY <1>2, <1>4, <2>1, <2>2, <2>3 DEF Paired, Opened
<1> QED
  BY <1>1, <1>2, <1>3, <1>4

(* The test puts another separator before the value, or the same.          *)
LEMMA TestWord ==
  ASSUME NEW w \in Seq(Word), Paired(w), NEW sep \in Word
  PROVE  /\ <<sep>> \o Tail(w) \in Seq(Word) /\ Paired(<<sep>> \o Tail(w))
         /\ Head(w) = sep => <<sep>> \o Tail(w) = w
<1> DEFINE x == <<sep>> \o Tail(w)
<1>1. /\ Len(w) \in 2..6 /\ w # <<>> /\ Head(w) = w[1]
      /\ Tail(w) \in Seq(Word) /\ Len(Tail(w)) = Len(w) - 1
      /\ \A i \in 1..Len(w) - 1 : Tail(w)[i] = w[i + 1]
  <2>1. Len(w) \in 2..6
    BY DEF Paired
  <2>2. w # <<>>
    BY <2>1, EmptySeq
  <2> QED
    BY <2>1, <2>2, HeadTailProperties
<1>2. /\ x \in Seq(Word) /\ Len(x) = Len(w) /\ x[1] = sep
      /\ \A i \in 2..Len(w) : x[i] = Tail(w)[i - 1]
  <2>1. <<sep>> \in Seq(Word) /\ Len(<<sep>>) = 1 /\ <<sep>>[1] = sep
    OBVIOUS
  <2> QED
    BY <1>1, <2>1, ConcatProperties
<1>3. \A i \in 2..Len(w) : x[i] = w[i]
  BY <1>1, <1>2
<1> HIDE DEF x
<1>4. Paired(x)
  BY <1>1, <1>2, <1>3 DEF Paired
<1>5. ASSUME Head(w) = sep PROVE x = w
  <2>1. \A i \in 1..Len(w) : x[i] = w[i]
    BY <1>1, <1>2, <1>3, <1>5
  <2> QED
    BY <1>2, <2>1, SeqEqual
<1> QED
  BY <1>2, <1>4, <1>5 DEF x

LEMMA BeginTypes ==
  ASSUME LinkTypes, NEW t \in Thread, NEW msg \in Seq(Word),
         NEW to \in {"test", "write"}, to = "test" => Paired(msg), Begin(t, msg, to)
  PROVE  LinkTypes'
<1>1. at' \in [Thread -> Points]
  BY DEF LinkTypes, Begin, At, Points
<1>2. words' \in [Thread -> Seq(Word)] /\ mine' \in [Thread -> Seq(Word)]
  BY DEF LinkTypes, Begin
<1>3. ss' \in Seq(Word) /\ tx_buffer' \in Seq(Word) /\ wire' \in Seq(Word)
  BY DEF LinkTypes, Begin
<1>4. alone' \in [Thread -> BOOLEAN]
  <2>1. \A u \in Thread : (IF u = t THEN at[Other(t)] = "idle"
                           ELSE alone[u] /\ at[u] = "idle") \in BOOLEAN
    OBVIOUS
  <2>2. alone' = [u \in Thread |-> IF u = t THEN at[Other(t)] = "idle"
                                   ELSE alone[u] /\ at[u] = "idle"]
    BY DEF Begin
  <2> QED
    BY <2>1, <2>2, Zenon
<1>5. \A u \in Thread : /\ at'[u] \in {"test", "separate"} => Paired(words'[u])
                        /\ at'[u] = "insert" => Opened(words'[u])
  BY DEF LinkTypes, Begin, At
<1> QED
  BY <1>1, <1>2, <1>3, <1>4, <1>5 DEF LinkTypes

LEMMA LinkNextTypes == LinkTypes /\ [LinkNext]_link_vars => LinkTypes'
<1> SUFFICES ASSUME LinkTypes, [LinkNext]_link_vars PROVE LinkTypes'
  OBVIOUS
<1>1. ASSUME NEW t \in Thread, NEW msg \in Built(t), BeginBuilt(t, msg) PROVE LinkTypes'
  BY <1>1, BuiltMessage, BeginTypes DEF BeginBuilt, Points
<1>2. ASSUME NEW t \in Thread, NEW msg \in Plain(t), BeginPlain(t, msg) PROVE LinkTypes'
  BY <1>2, PlainMessage, BeginTypes DEF BeginPlain, Points
<1>3. ASSUME NEW t \in Thread, Separate(t) \/ Insert(t) PROVE LinkTypes'
  <2>1. /\ PutWord(t) /\ words[t] \in Seq(Word)
        /\ \/ at[t] = "separate" /\ Paired(words[t])
           \/ at[t] = "insert" /\ Opened(words[t])
    BY <1>3 DEF LinkTypes, Separate, Insert, At
  <2>2. /\ Head(words[t]) \in Word /\ Tail(words[t]) \in Seq(Word)
        /\ at[t] = "separate" => Opened(Tail(words[t]))
        /\ at[t] = "insert" /\ Len(words[t]) # 1 => Paired(Tail(words[t]))
    BY <2>1, TakeWord
  <2>3. at' \in [Thread -> Points]
    BY <1>3 DEF LinkTypes, At, Separate, Insert, Points
  <2>4. words' \in [Thread -> Seq(Word)]
    BY <2>1, <2>2 DEF LinkTypes, PutWord
  <2>5. ss' \in Seq(Word)
    BY <2>1, <2>2 DEF LinkTypes, PutWord
  <2>6. \A u \in Thread : /\ at'[u] \in {"test", "separate"} => Paired(words'[u])
                          /\ at'[u] = "insert" => Opened(words'[u])
    BY <1>3, <2>1, <2>2 DEF LinkTypes, At, Separate, Insert, PutWord
  <2> QED
    BY <2>1, <2>3, <2>4, <2>5, <2>6 DEF LinkTypes, PutWord
<1>11. ASSUME NEW t \in Thread, Test(t) PROVE LinkTypes'
  <2> DEFINE sep == IF ss = <<>> THEN INIT ELSE SPACE
  <2>1. sep \in Word /\ words[t] \in Seq(Word) /\ Paired(words[t])
    BY <1>11 DEF LinkTypes, Test, At, Word
  <2>2. <<sep>> \o Tail(words[t]) \in Seq(Word) /\ Paired(<<sep>> \o Tail(words[t]))
    BY <2>1, TestWord
  <2>3. words' = [words EXCEPT ![t] = <<sep>> \o Tail(words[t])]
    BY <1>11 DEF Test
  <2> HIDE DEF sep
  <2>4. at' \in [Thread -> Points]
    BY <1>11 DEF LinkTypes, At, Test, Points
  <2>5. words' \in [Thread -> Seq(Word)]
    BY <2>2, <2>3 DEF LinkTypes
  <2>6. \A u \in Thread : /\ at'[u] \in {"test", "separate"} => Paired(words'[u])
                          /\ at'[u] = "insert" => Opened(words'[u])
    BY <1>11, <2>2, <2>3 DEF LinkTypes, At, Test
  <2> QED
    BY <1>11, <2>4, <2>5, <2>6 DEF LinkTypes, Test
<1>4. ASSUME NEW t \in Thread, Copy(t) PROVE LinkTypes'
  BY <1>4 DEF LinkTypes, At, Copy, Points
<1>5. ASSUME NEW t \in Thread, Write(t) PROVE LinkTypes'
  BY <1>5 DEF LinkTypes, At, Write, Points
<1>6. ASSUME NEW t \in Thread, WriteEol(t) PROVE LinkTypes'
  BY <1>6 DEF LinkTypes, At, WriteEol, Points, EOL, Word
<1>7. ASSUME NEW t \in Thread, ClearSender(t) PROVE LinkTypes'
  BY <1>7 DEF LinkTypes, At, ClearSender, Points
<1>8. ASSUME NEW t \in Thread, Flush(t) PROVE LinkTypes'
  BY <1>8 DEF LinkTypes, At, Flush, Points
<1>9. ASSUME NEW t \in Thread, ClearTxBuffer(t) PROVE LinkTypes'
  BY <1>9 DEF LinkTypes, At, ClearTxBuffer, Points
<1>10. CASE UNCHANGED link_vars
  BY <1>10 DEF LinkTypes, link_vars
<1> QED
  BY <1>1, <1>2, <1>3, <1>4, <1>5, <1>6, <1>7, <1>8, <1>9, <1>10, <1>11 DEF LinkNext

LEMMA NextBuilt == LinkInv /\ [LinkNext]_link_vars => BuiltNotPlain'
<1> SUFFICES ASSUME LinkInv, [LinkNext]_link_vars PROVE BuiltNotPlain'
  OBVIOUS
<1> USE DEF LinkInv, LinkTypes, BuiltNotPlain, Inserting, At
<1>1. ASSUME NEW t \in Thread, NEW msg \in Built(t), BeginBuilt(t, msg)
      PROVE  BuiltNotPlain'
  BY <1>1, BuiltMessage DEF BeginBuilt, Begin
<1>2. ASSUME NEW t \in Thread, NEW msg \in Plain(t), BeginPlain(t, msg)
      PROVE  BuiltNotPlain'
  BY <1>2 DEF BeginPlain, Begin
<1>3. ASSUME NEW t \in Thread, Test(t) \/ Separate(t) \/ Insert(t) PROVE BuiltNotPlain'
  BY <1>3 DEF Test, Separate, Insert, PutWord
<1>4. ASSUME NEW t \in Thread, Copy(t) PROVE BuiltNotPlain'
  BY <1>4 DEF Copy
<1>5. ASSUME NEW t \in Thread, Write(t) PROVE BuiltNotPlain'
  BY <1>5 DEF Write
<1>6. ASSUME NEW t \in Thread, WriteEol(t) PROVE BuiltNotPlain'
  BY <1>6 DEF WriteEol
<1>7. ASSUME NEW t \in Thread, ClearSender(t) PROVE BuiltNotPlain'
  BY <1>7 DEF ClearSender
<1>8. ASSUME NEW t \in Thread, Flush(t) PROVE BuiltNotPlain'
  BY <1>8 DEF Flush
<1>9. ASSUME NEW t \in Thread, ClearTxBuffer(t) PROVE BuiltNotPlain'
  BY <1>9 DEF ClearTxBuffer
<1>10. CASE UNCHANGED link_vars
  BY <1>10 DEF link_vars
<1> QED
  BY <1>1, <1>2, <1>3, <1>4, <1>5, <1>6, <1>7, <1>8, <1>9, <1>10 DEF LinkNext

(* Who holds the sender goes on holding it until it is cleared.            *)
LEMMA NextSender == LinkInv /\ [LinkNext]_link_vars => SenderHeld'
<1> SUFFICES ASSUME LinkInv, [LinkNext]_link_vars PROVE SenderHeld'
  OBVIOUS
<1> USE DEF LinkInv, LinkTypes, BuiltNotPlain, SenderHeld, WillClearSender, Inserting, At
<1>1. ASSUME NEW t \in Thread, NEW msg \in Built(t), BeginBuilt(t, msg)
      PROVE  SenderHeld'
  BY <1>1 DEF BeginBuilt, Begin
<1>2. ASSUME NEW t \in Thread, NEW msg \in Plain(t), BeginPlain(t, msg)
      PROVE  SenderHeld'
  BY <1>2 DEF BeginPlain, Begin
<1>3. ASSUME NEW t \in Thread, Test(t) \/ Separate(t) \/ Insert(t) PROVE SenderHeld'
  BY <1>3 DEF Test, Separate, Insert, PutWord
<1>4. ASSUME NEW t \in Thread, Copy(t) PROVE SenderHeld'
  BY <1>4 DEF Copy
<1>5. ASSUME NEW t \in Thread, Write(t) PROVE SenderHeld'
  BY <1>5 DEF Write
<1>6. ASSUME NEW t \in Thread, WriteEol(t) PROVE SenderHeld'
  BY <1>6 DEF WriteEol
<1>7. ASSUME NEW t \in Thread, ClearSender(t) PROVE SenderHeld'
  BY <1>7 DEF ClearSender
<1>8. ASSUME NEW t \in Thread, Flush(t) PROVE SenderHeld'
  BY <1>8 DEF Flush
<1>9. ASSUME NEW t \in Thread, ClearTxBuffer(t) PROVE SenderHeld'
  BY <1>9 DEF ClearTxBuffer
<1>10. CASE UNCHANGED link_vars
  BY <1>10 DEF link_vars
<1> QED
  BY <1>1, <1>2, <1>3, <1>4, <1>5, <1>6, <1>7, <1>8, <1>9, <1>10 DEF LinkNext

(* The same of the buffer.                                                 *)
LEMMA NextBuffer == LinkInv /\ [LinkNext]_link_vars => BufferHeld'
<1> SUFFICES ASSUME LinkInv, [LinkNext]_link_vars PROVE BufferHeld'
  OBVIOUS
<1> USE DEF LinkInv, LinkTypes, BufferHeld, WillClearBuffer, At
<1>1. ASSUME NEW t \in Thread, NEW msg \in Built(t), BeginBuilt(t, msg)
      PROVE  BufferHeld'
  BY <1>1 DEF BeginBuilt, Begin
<1>2. ASSUME NEW t \in Thread, NEW msg \in Plain(t), BeginPlain(t, msg)
      PROVE  BufferHeld'
  BY <1>2 DEF BeginPlain, Begin
<1>3. ASSUME NEW t \in Thread, Test(t) \/ Separate(t) \/ Insert(t) PROVE BufferHeld'
  BY <1>3 DEF Test, Separate, Insert, PutWord
<1>4. ASSUME NEW t \in Thread, Copy(t) PROVE BufferHeld'
  BY <1>4 DEF Copy
<1>5. ASSUME NEW t \in Thread, Write(t) PROVE BufferHeld'
  BY <1>5 DEF Write
<1>6. ASSUME NEW t \in Thread, WriteEol(t) PROVE BufferHeld'
  BY <1>6 DEF WriteEol
<1>7. ASSUME NEW t \in Thread, ClearSender(t) PROVE BufferHeld'
  BY <1>7 DEF ClearSender
<1>8. ASSUME NEW t \in Thread, Flush(t) PROVE BufferHeld'
  BY <1>8 DEF Flush
<1>9. ASSUME NEW t \in Thread, ClearTxBuffer(t) PROVE BufferHeld'
  BY <1>9 DEF ClearTxBuffer
<1>10. CASE UNCHANGED link_vars
  BY <1>10 DEF link_vars
<1> QED
  BY <1>1, <1>2, <1>3, <1>4, <1>5, <1>6, <1>7, <1>8, <1>9, <1>10 DEF LinkNext

LEMMA LinkInitInv == LinkInit => LinkInv
<1> SUFFICES ASSUME LinkInit PROVE LinkInv
  OBVIOUS
<1>1. LinkTypes
  BY DEF LinkInit, LinkTypes, Points
<1>2. BuiltNotPlain
  BY DEF LinkInit, BuiltNotPlain, Inserting
<1>3. SenderHeld /\ BufferHeld
  BY DEF LinkInit, SenderHeld, BufferHeld
<1> QED
  BY <1>1, <1>2, <1>3 DEF LinkInv

LEMMA LinkNextInv == LinkInv /\ [LinkNext]_link_vars => LinkInv'
BY LinkNextTypes, NextBuilt, NextSender, NextBuffer DEF LinkInv

(* However the two threads of the driver mix their words in the sender and *)
(* in tx_buffer_, nothing is left behind when neither is sending.          *)
THEOREM NothingLeft == LinkSpec => []NoDebris
<1>1. LinkInv => NoDebris
  BY DEF LinkInv, SenderHeld, BufferHeld, WillClearSender, WillClearBuffer, NoDebris,
         Inserting
<1> QED
  BY LinkInitInv, LinkNextInv, <1>1, PTL DEF LinkSpec

-----------------------------------------------------------------------------
(* How far a message has come that has the line for itself.                *)
Intact(t) ==
  alone[t] /\ at[t] # "idle" =>
    /\ at[Other(t)] = "idle"
    /\ at[t] \in Inserting => ss \o words[t] = mine[t]
    /\ at[t] = "test" => Head(words[t]) = IF ss = <<>> THEN INIT ELSE SPACE
    /\ at[t] = "send" => ss = mine[t]
    /\ at[t] = "write" => words[t] = mine[t]
    /\ at[t] \in Inserting \cup {"send", "write"} => tx_buffer = <<>>
    /\ at[t] = "eol" => tx_buffer = mine[t]
    /\ at[t] \in {"clear_ss", "flush"} => tx_buffer = Append(mine[t], EOL)
    /\ wire = IF at[t] = "clear_tx" THEN Append(mine[t], EOL) ELSE <<>>

AllIntact == \A t \in Thread : Intact(t)

LEMMA OneWordMore ==
  ASSUME NEW s \in Seq(Word), NEW w \in Seq(Word), w # <<>>
  PROVE  /\ Append(s, Head(w)) \o Tail(w) = s \o w
         /\ Len(w) = 1 => Append(s, Head(w)) = s \o w
<1>1. Len(w) >= 1 /\ Head(w) = w[1]
  OBVIOUS
<1>2. Len(Tail(w)) = Len(w) - 1
  BY <1>1
<1>3. \A i \in 1..Len(w) - 1 : Tail(w)[i] = w[i + 1]
  BY <1>1
<1> QED
  BY <1>1, <1>2, <1>3

(* The two threads of the link.                                            *)
LEMMA Others ==
  ASSUME NEW t \in Thread
  PROVE  /\ Other(t) \in Thread /\ Other(t) # t /\ Other(Other(t)) = t
         /\ \A u \in Thread : u = t \/ u = Other(t)
BY DEF Other, Thread, main, spinner

(* Only a step of a busy thread; it was not alone unless it is the one.    *)
LEMMA NotTheOther ==
  ASSUME LinkInv, AllIntact, NEW t \in Thread, at[t] # "idle",
         at' \in [Thread -> Points], at'[Other(t)] = at[Other(t)], alone' = alone,
         Intact(t)'
  PROVE  AllIntact'
<1>1. ~(alone[Other(t)] /\ at[Other(t)] # "idle")
  BY Others DEF AllIntact, Intact
<1>2. Intact(Other(t))'
  BY <1>1 DEF Intact
<1> QED
  BY <1>2, Others DEF AllIntact

LEMMA BeginIntact ==
  ASSUME LinkInv, AllIntact, NEW t \in Thread, NEW msg \in Seq(Word),
         NEW to \in {"test", "write"}, to = "test" => Head(msg) = INIT, Begin(t, msg, to)
  PROVE  AllIntact'
<1>1. at[t] = "idle" /\ at' = [at EXCEPT ![t] = to]
  BY DEF Begin, At
<1>2. at'[t] = to /\ at'[Other(t)] = at[Other(t)]
  BY <1>1, Others DEF LinkInv, LinkTypes
<1>3. alone'[t] <=> at[Other(t)] = "idle"
  <2>1. alone' = [u \in Thread |-> IF u = t THEN at[Other(t)] = "idle"
                                   ELSE alone[u] /\ at[u] = "idle"]
    BY DEF Begin
  <2> QED
    BY <2>1, Zenon
<1>4. alone'[Other(t)] <=> alone[Other(t)] /\ at[Other(t)] = "idle"
  <2>1. alone' = [u \in Thread |-> IF u = t THEN at[Other(t)] = "idle"
                                   ELSE alone[u] /\ at[u] = "idle"]
    BY DEF Begin
  <2> QED
    BY <2>1, Others, Zenon
<1>5. words'[t] = msg /\ mine'[t] = msg /\ wire' = <<>>
      /\ ss' = ss /\ tx_buffer' = tx_buffer
  BY DEF Begin, LinkInv, LinkTypes
<1>6. ASSUME at[Other(t)] = "idle"
      PROVE  ss = <<>> /\ tx_buffer = <<>>
  <2>1. \A u \in Thread : at[u] = "idle"
    BY <1>1, <1>6, Others
  <2> QED
    BY <2>1 DEF LinkInv, SenderHeld, BufferHeld, WillClearSender, WillClearBuffer, Inserting
<1>7. <<>> \o msg = msg
  OBVIOUS
<1>8. Intact(t)'
  <2> SUFFICES ASSUME at[Other(t)] = "idle"
      PROVE  /\ at'[Other(t)] = "idle"
             /\ at'[t] \in {"test", "write"}
             /\ at'[t] = "test" => Head(words'[t]) = INIT /\ ss' = <<>>
             /\ ss' \o words'[t] = mine'[t]
             /\ words'[t] = mine'[t]
             /\ tx_buffer' = <<>> /\ wire' = <<>>
    BY <1>2, <1>3 DEF Intact
  <2> QED
    BY <1>2, <1>5, <1>6, <1>7
<1>9. Intact(Other(t))'
  BY <1>2, <1>4 DEF Intact
<1> QED
  BY <1>8, <1>9, Others DEF AllIntact

LEMMA NextIntact == LinkInv /\ AllIntact /\ [LinkNext]_link_vars => AllIntact'
<1> SUFFICES ASSUME LinkInv, AllIntact, [LinkNext]_link_vars PROVE AllIntact'
  OBVIOUS
<1>0. LinkTypes'
  BY LinkNextTypes DEF LinkInv
<1>1. ASSUME NEW t \in Thread, NEW msg \in Built(t), BeginBuilt(t, msg)
      PROVE  AllIntact'
  BY <1>1, BuiltMessage, BeginIntact DEF BeginBuilt
<1>2. ASSUME NEW t \in Thread, NEW msg \in Plain(t), BeginPlain(t, msg)
      PROVE  AllIntact'
  BY <1>2, PlainMessage, BeginIntact DEF BeginPlain
<1>3. ASSUME NEW t \in Thread, NEW from \in Points \ {"idle"}, NEW to \in Points,
             At(t, from, to), alone' = alone, mine' = mine, Intact(t)'
      PROVE  AllIntact'
  <2>1. at[t] # "idle" /\ at'[Other(t)] = at[Other(t)]
    BY <1>3, Others DEF At, LinkInv, LinkTypes, Points
  <2> QED
    BY <1>0, <1>3, <2>1, NotTheOther DEF LinkTypes
<1> USE DEF LinkInv, LinkTypes, AllIntact, Intact, Inserting, At
<1>4. ASSUME NEW t \in Thread, Separate(t) \/ Insert(t) PROVE AllIntact'
  <2>1. Intact(t)'
    <3>1. /\ words[t] \in Seq(Word) /\ ss \in Seq(Word) /\ at[t] \in {"separate", "insert"}
          /\ Paired(words[t]) \/ Opened(words[t])
          /\ at[t] = "insert" => Opened(words[t])
      BY <1>4 DEF Separate, Insert
    <3>2. /\ words[t] # <<>>
          /\ at[t] = "insert" /\ Len(words[t]) # 1 => Head(Tail(words[t])) = SPACE
      BY <3>1, TakeWord
    <3>3. /\ Append(ss, Head(words[t])) \o Tail(words[t]) = ss \o words[t]
          /\ Len(words[t]) = 1 => Append(ss, Head(words[t])) = ss \o words[t]
      BY <3>1, <3>2, OneWordMore, Zenon
    <3>4. /\ ss' = Append(ss, Head(words[t])) /\ words'[t] = Tail(words[t])
          /\ UNCHANGED <<mine, tx_buffer, wire, alone>>
          /\ at'[Other(t)] = at[Other(t)]
          /\ IF at[t] = "separate" THEN at'[t] = "insert"
             ELSE at'[t] = IF Len(words[t]) = 1 THEN "send" ELSE "test"
      BY <1>4, Others DEF Separate, Insert, PutWord
    <3>5. SUFFICES ASSUME alone[t]
                   PROVE  Intact(t)'
      BY <3>4
    <3>6. /\ at[Other(t)] = "idle" /\ ss \o words[t] = mine[t]
          /\ tx_buffer = <<>> /\ wire = <<>>
      BY <3>1, <3>5
    <3>7. CASE at'[t] = "send"
      <4>1. ss' = mine'[t]
        BY <3>1, <3>3, <3>4, <3>6, <3>7
      <4> QED
        BY <4>1, <3>4, <3>6, <3>7
    <3>8. CASE at'[t] \in {"insert", "test"}
      <4>1. ss' \o words'[t] = mine'[t]
        BY <3>3, <3>4, <3>6
      <4>2. ss' # <<>>
        <5>1. Head(words[t]) \in Word
          BY <3>1, TakeWord
        <5>2. Append(ss, Head(words[t])) # <<>>
          <6> DEFINE e == Head(words[t])
          <6>1. ss \in Seq(Word) /\ e \in Word
            BY <3>1, <5>1
          <6> HIDE DEF e
          <6>2. Append(ss, e) # <<>>
            BY ONLY <6>1, AppendProperties
          <6> QED
            BY <6>2 DEF e
        <5> QED
          BY <3>4, <5>2
      <4>3. at'[t] = "test" => Head(words'[t]) = SPACE
        BY <3>1, <3>2, <3>4
      <4> QED
        BY <4>1, <4>2, <4>3, <3>4, <3>6, <3>8
    <3> QED
      BY <3>1, <3>4, <3>7, <3>8
  <2> QED
    BY <1>3, <1>4, <2>1 DEF Separate, Insert, PutWord, Points
<1>12. ASSUME NEW t \in Thread, Test(t) PROVE AllIntact'
  <2>1. Intact(t)'
    <3> DEFINE sep == IF ss = <<>> THEN INIT ELSE SPACE
    <3>1. words[t] \in Seq(Word) /\ Paired(words[t]) /\ sep \in Word
      BY <1>12 DEF Test, Word
    <3>2. Head(words[t]) = sep => <<sep>> \o Tail(words[t]) = words[t]
      BY <3>1, TestWord
    <3>3. /\ words'[t] = <<sep>> \o Tail(words[t])
          /\ UNCHANGED <<mine, ss, tx_buffer, wire, alone>>
          /\ at[t] = "test" /\ at'[t] = "separate" /\ at'[Other(t)] = at[Other(t)]
      BY <1>12, Others DEF Test
    <3>4. alone[t] => Head(words[t]) = sep
      BY <3>3
    <3> HIDE DEF sep
    <3> QED
      BY <3>2, <3>3, <3>4
  <2> QED
    BY <1>3, <1>12, <2>1 DEF Test, Points
<1>5. ASSUME NEW t \in Thread, Copy(t) PROVE AllIntact'
  <2>1. Intact(t)'
    BY <1>5, Others DEF Copy
  <2> QED
    BY <1>3, <1>5, <2>1 DEF Copy, Points
<1>6. ASSUME NEW t \in Thread, Write(t) PROVE AllIntact'
  <2>1. Intact(t)'
    <3>1. alone[t] => tx_buffer = <<>> /\ words[t] = mine[t] /\ words[t] \in Seq(Word)
      BY <1>6 DEF Write
    <3>2. <<>> \o words[t] = words[t]
      <4>1. words[t] \in Seq(Word)
        BY DEF LinkInv, LinkTypes
      <4> QED
        BY <4>1, ConcatEmptySeq
    <3>3. alone[t] => tx_buffer' = mine[t]
      BY <1>6, <3>1, <3>2 DEF Write
    <3> QED
      BY <1>6, <3>3, Others DEF Write
  <2> QED
    BY <1>3, <1>6, <2>1 DEF Write, Points
<1>7. ASSUME NEW t \in Thread, WriteEol(t) PROVE AllIntact'
  <2>1. Intact(t)'
    BY <1>7, Others DEF WriteEol
  <2> QED
    BY <1>3, <1>7, <2>1 DEF WriteEol, Points
<1>8. ASSUME NEW t \in Thread, ClearSender(t) PROVE AllIntact'
  <2>1. Intact(t)'
    BY <1>8, Others DEF ClearSender
  <2> QED
    BY <1>3, <1>8, <2>1 DEF ClearSender, Points
<1>9. ASSUME NEW t \in Thread, Flush(t) PROVE AllIntact'
  <2>1. Intact(t)'
    BY <1>9, Others DEF Flush, EOL
  <2> QED
    BY <1>3, <1>9, <2>1 DEF Flush, Points
<1>10. ASSUME NEW t \in Thread, ClearTxBuffer(t) PROVE AllIntact'
  <2>1. Intact(t)'
    BY <1>10, Others DEF ClearTxBuffer
  <2> QED
    BY <1>3, <1>10, <2>1 DEF ClearTxBuffer, Points
<1>11. CASE UNCHANGED link_vars
  BY <1>11 DEF link_vars
<1> QED
  BY <1>1, <1>2, <1>4, <1>5, <1>6, <1>7, <1>8, <1>9, <1>10, <1>11, <1>12 DEF LinkNext

(* A message whose thread had the line for itself reaches the port whole,  *)
(* as one line, whatever the threads did to each other's messages before.  *)
THEOREM UndisturbedIsIntact == LinkSpec => []AloneIntact
<1>1. LinkInit => AllIntact
  BY DEF LinkInit, AllIntact, Intact
<1>2. AllIntact => AloneIntact
  BY DEF AllIntact, Intact, AloneIntact
<1> QED
  BY LinkInitInv, LinkNextInv, NextIntact, <1>1, <1>2, PTL DEF LinkSpec
=============================================================================
