------------------------------- MODULE Roboteq -------------------------------
(***************************************************************************)
(* drivers/roboteq/roboteq_driver: how the driver gets its MicroBasic      *)
(* script to run on the motor controller and keeps the feedback coming.    *)
(* The main thread reads line after line (Controller::read).  When nothing *)
(* comes it starts or downloads the script; when the version is wrong it   *)
(* downloads it (downloadScript).  The other thread sends the commands and *)
(* the timer's requests of a channel (Channel) over the same line.         *)
(*                                                                         *)
(* One channel stands for both, and a line of text for its kind.  What the *)
(* two threads do to the words of a command is the subject of RoboteqLink; *)
(* here a line of the script that a command got into is one the controller *)
(* refuses.                                                                *)
(***************************************************************************)
EXTENDS Integers, Sequences

CONSTANTS
  StartAttempts,  \* starts before a download, line 120 (5 in the code)
  WrongLimit,     \* wrong versions before a download, line 163 (5)
  AckTries,       \* lines read in search of "HLD", line 221 (7)
  ScriptLines,    \* lines of the script
  MaxRx,          \* bound: lines waiting when script or channel adds one
  MaxCmds,        \* bound: commands waiting when a channel sends one
  MaxStray,       \* bound: commands of a channel that meet a download
  Prompt,         \* the controller answers within 500 ms and before it
                  \* prints again
  Loaded          \* the scripts the controller may hold at first

ASSUME CountAssumption ==
  /\ {StartAttempts, WrongLimit, MaxRx, MaxCmds, MaxStray} \subseteq Nat
  /\ {AckTries, ScriptLines} \subseteq Nat \ {0}
ASSUME PromptAssumption == Prompt \in BOOLEAN
ASSUME LoadedAssumption == Loaded \subseteq {"none", "old", "new"}

VARIABLES
  script, running, mode, got,  \* the controller: script, download mode, lines
  bool1,                       \* user boolean of the channel, set by "B"
  cmds, rx,                    \* commands and lines on their way
  pc, caller,                  \* main thread: where it is, who downloads
  line_num, find_ack,          \* its loop counters
  result,                      \* whether downloadScript() returned true
  start_script_attempts, receiving_script_messages,
  wrong_script_version_count,
  recent,                      \* last_feedback_time_ is at most 1 s old
  stray                        \* commands of a channel that met a download

controller == <<script, running, mode, got, bool1>>
static == <<start_script_attempts, receiving_script_messages,
            wrong_script_version_count>>
download == <<caller, line_num, find_ack, result>>
vars == <<controller, cmds, rx, pc, download, static, recent, stray>>

Init ==
  /\ script \in Loaded
  /\ running = FALSE /\ mode = "run" /\ got = 0 /\ bool1 = FALSE
  /\ cmds = <<>> /\ rx = <<>>
  /\ pc = "read" /\ caller = "none" /\ line_num = 0 /\ find_ack = 0
  /\ result = FALSE
  /\ start_script_attempts = 0
  /\ receiving_script_messages = FALSE
  /\ wrong_script_version_count = 0
  /\ recent = FALSE
  /\ stray = 0

-----------------------------------------------------------------------------
(* The motor controller.                                                   *)

Answered == Prompt => cmds = <<>>

Printing == running /\ mode = "run"

ScriptSays(line) ==
  /\ Printing /\ Answered /\ Len(rx) < MaxRx
  /\ rx' = Append(rx, line)
  /\ UNCHANGED <<controller, cmds, pc, download, static, recent, stray>>

(* script.mbs, lines 86-94: the status names the version of the script.    *)
PrintStatus == ScriptSays(script)

(* script.mbs, lines 59-63 and 72-84.                                      *)
PrintFeedback == bool1 /\ ScriptSays("feedback")

Answer(cmd, answer) ==
  /\ cmds # <<>> /\ cmd = Head(cmds)
  /\ cmds' = Tail(cmds)
  /\ rx' = Append(rx, answer)
  /\ UNCHANGED <<pc, download, static, recent>>

RunScript ==
  /\ mode = "run"
  /\ Answer("run", IF script = "none" THEN "-" ELSE "+")
  /\ running' = (script # "none")
  /\ UNCHANGED <<script, mode, got, bool1, stray>>

HaltScript ==
  /\ mode = "run"
  /\ Answer("halt", "+")
  /\ running' = FALSE
  /\ UNCHANGED <<script, mode, got, bool1, stray>>

SetBool ==
  /\ mode = "run"
  /\ Answer("B", "+")
  /\ bool1' = TRUE
  /\ UNCHANGED <<script, running, mode, got, stray>>

SetSpeed ==
  /\ mode = "run"
  /\ Answer("G", "+")
  /\ UNCHANGED <<controller, stray>>

EnterDownload ==
  /\ Answer("SLD", "HLD")
  /\ mode' = "download" /\ got' = 0 /\ running' = FALSE
  /\ UNCHANGED <<script, bool1, stray>>

(* The last line ends the download; until then there is no script.         *)
TakeLine ==
  /\ mode = "download"
  /\ Answer("line", "+")
  /\ got' = got + 1
  /\ IF got' = ScriptLines THEN script' = "new" /\ mode' = "run"
                           ELSE script' = "none" /\ mode' = mode
  /\ UNCHANGED <<running, bool1, stray>>

(* A line that a command of a channel got into.                            *)
RefuseLine ==
  /\ mode = "download" /\ stray < MaxStray
  /\ Answer("line", "-")
  /\ stray' = stray + 1
  /\ UNCHANGED controller

(* Anything else is refused: a command is no line, a line no command.      *)
Refuse ==
  /\ \E cmd \in IF mode = "run" THEN {"line"} ELSE {"run", "halt", "B", "G"} :
       Answer(cmd, "-")
  /\ UNCHANGED <<controller, stray>>

Serve == \/ RunScript \/ HaltScript \/ SetBool \/ SetSpeed
         \/ EnterDownload \/ TakeLine \/ RefuseLine \/ Refuse

-----------------------------------------------------------------------------
(* The thread of the callbacks: a timer every second, a subscription.      *)

Send(cmd) == cmds' = Append(cmds, cmd)

ChannelSends(cmd) ==
  /\ Len(cmds) < MaxCmds /\ Len(rx) < MaxRx
  /\ IF pc \in {"read", "nap"} THEN stray' = stray
                               ELSE stray < MaxStray /\ stray' = stray + 1
  /\ Send(cmd)
  /\ UNCHANGED <<controller, rx, pc, download, static, recent>>

(* Mutant: the comparison of line 84 is the other way round.               *)
timerCallback_recent == recent /\ ChannelSends("B")

(* Channel::timerCallback, channel.cpp, lines 83-89.                       *)
timerCallback == ~recent /\ ChannelSends("B")

(* Channel::cmdCallback, channel.cpp, lines 48-60.                         *)
cmdCallback == ChannelSends("G")

Expire ==
  /\ recent
  /\ recent' = FALSE
  /\ UNCHANGED <<controller, cmds, rx, pc, download, static, stray>>

-----------------------------------------------------------------------------
(* Controller::read(), lines 93-136.                                       *)

(* readline() gives up after 500 ms; a script that runs prints more often. *)
NoData == rx = <<>> /\ ~Printing /\ Answered

NextLine(line) == rx # <<>> /\ line = Head(rx) /\ rx' = Tail(rx)

Reads(line) ==
  pc = "read" /\ NextLine(line) /\ UNCHANGED <<controller, cmds, stray>>

(* Lines 99-103 and 113-116.  Nobody waits for the notification.           *)
ReadOther ==
  /\ \E line \in {"+", "-", "HLD", "noise"} : Reads(line)
  /\ UNCHANGED <<pc, download, static, recent>>

(* Lines 109-112, 188-208 and channel.cpp, line 64.                        *)
ReadFeedback ==
  /\ Reads("feedback")
  /\ recent' = TRUE
  /\ receiving_script_messages' = TRUE
  /\ UNCHANGED <<pc, download, start_script_attempts,
                 wrong_script_version_count>>

(* processStatus() with the right version, lines 160-161 and 172-185.      *)
ReadStatus ==
  /\ Reads("new")
  /\ receiving_script_messages' = TRUE
  /\ wrong_script_version_count' = 0
  /\ UNCHANGED <<pc, download, start_script_attempts, recent>>

(* processStatus() with another version, lines 162-170.  Past its limit    *)
(* the count only rises, to the same effect: the model leaves it there.    *)
ReadWrongStatus ==
  /\ Reads("old")
  /\ IF wrong_script_version_count >= WrongLimit
     THEN /\ pc' = "halt" /\ caller' = "status"
          /\ UNCHANGED <<wrong_script_version_count, receiving_script_messages>>
     ELSE /\ wrong_script_version_count' = wrong_script_version_count + 1
          /\ receiving_script_messages' = TRUE
          /\ UNCHANGED <<pc, caller>>
  /\ UNCHANGED <<line_num, find_ack, result, start_script_attempts, recent>>

Idle == pc = "read" /\ NoData /\ UNCHANGED <<controller, rx, recent, stray>>

(* Lines 119-124.                                                          *)
StartScript ==
  /\ Idle
  /\ ~receiving_script_messages /\ start_script_attempts < StartAttempts
  /\ start_script_attempts' = start_script_attempts + 1
  /\ Send("run")
  /\ UNCHANGED <<pc, download, receiving_script_messages,
                 wrong_script_version_count>>

(* Lines 125-127.                                                          *)
StartDownload ==
  /\ Idle
  /\ ~receiving_script_messages /\ start_script_attempts >= StartAttempts
  /\ pc' = "halt" /\ caller' = "silence"
  /\ UNCHANGED <<cmds, line_num, find_ack, result, static>>

(* Lines 132-134: the script is believed to run.                           *)
Believe == Idle /\ receiving_script_messages /\ UNCHANGED vars

-----------------------------------------------------------------------------
(* downloadScript(), lines 210-242.                                        *)

Steps(from, to) ==
  /\ pc = from /\ pc' = to
  /\ UNCHANGED <<controller, caller, static, recent, stray>>

(* Line 212.                                                               *)
StopScript ==
  /\ Steps("halt", "clear")
  /\ Send("halt")
  /\ result' = FALSE
  /\ UNCHANGED <<rx, line_num, find_ack>>

(* Lines 213-214: half a second later read() takes one byte, the head of   *)
(* the first line.                                                         *)
ClearBuffer ==
  /\ Answered
  /\ Steps("clear", "sld")
  /\ rx' = IF rx = <<>> THEN rx ELSE <<"noise">> \o Tail(rx)
  /\ UNCHANGED <<cmds, line_num, find_ack, result>>

(* Line 218.                                                               *)
SendSLD ==
  /\ Steps("sld", "find_ack")
  /\ find_ack' = 0
  /\ Send("SLD")
  /\ UNCHANGED <<rx, line_num, result>>

(* Mutant: the attempts are not counted from 0 after a download.           *)
Return_no_reset(ok) ==
  /\ result' = ok
  /\ caller' = "none"
  /\ IF caller = "status"
     THEN pc' = "read" /\ receiving_script_messages' = TRUE
     ELSE pc' = "nap" /\ UNCHANGED receiving_script_messages
  /\ UNCHANGED <<start_script_attempts, wrong_script_version_count>>

(* Back in read(): lines 127-130, or 112.                                  *)
Return(ok) ==
  /\ result' = ok
  /\ caller' = "none"
  /\ IF caller = "status"
     THEN pc' = "read" /\ receiving_script_messages' = TRUE
     ELSE pc' = "nap" /\ UNCHANGED receiving_script_messages
  /\ start_script_attempts' = IF ok /\ caller = "silence" THEN 0
                              ELSE start_script_attempts
  /\ UNCHANGED wrong_script_version_count

(* The line that readline() returns, "empty" when there is none.           *)
ReadLine(line) ==
  /\ \/ rx # <<>> /\ line = Head(rx) /\ rx' = Tail(rx)
     \/ NoData /\ line = "empty" /\ UNCHANGED rx
  /\ UNCHANGED <<controller, cmds, recent, stray>>

Lines == {"empty", "+", "-", "HLD", "noise", "feedback", "old", "new"}

(* Lines 221-227 and 231.                                                  *)
FoundAck ==
  /\ pc = "find_ack" /\ ReadLine("HLD")
  /\ pc' = "line" /\ line_num' = 0
  /\ UNCHANGED <<find_ack, result, caller, static>>

NoAck ==
  /\ pc = "find_ack"
  /\ \E line \in Lines \ {"HLD"} : ReadLine(line)
  /\ find_ack' = find_ack + 1
  /\ IF find_ack' < AckTries THEN UNCHANGED <<pc, result, caller, static>>
                             ELSE Return(FALSE)
  /\ UNCHANGED line_num

(* Lines 232-235.                                                          *)
SendLine ==
  /\ Steps("line", "ack")
  /\ Send("line")
  /\ UNCHANGED <<rx, line_num, find_ack, result>>

(* Mutant: only silence is bad.                                            *)
Good_any == {"+", "-"}

(* Line 238.                                                               *)
Good == {"+"}

(* Lines 236-241.                                                          *)
ReadAck ==
  /\ pc = "ack"
  /\ \E line \in Lines :
       /\ ReadLine(line)
       /\ IF line \in Good /\ line_num + 1 < ScriptLines
          THEN /\ pc' = "line" /\ line_num' = line_num + 1
               /\ UNCHANGED <<result, caller, static>>
          ELSE Return(line \in Good) /\ UNCHANGED line_num
  /\ UNCHANGED find_ack

(* Line 130.                                                               *)
Nap ==
  Steps("nap", "read") /\ UNCHANGED <<cmds, rx, line_num, find_ack, result>>

-----------------------------------------------------------------------------
read == \/ ReadOther \/ ReadFeedback \/ ReadStatus \/ ReadWrongStatus
        \/ StartScript \/ StartDownload \/ Nap
        \/ StopScript \/ ClearBuffer \/ SendSLD \/ FoundAck \/ NoAck
        \/ SendLine \/ ReadAck

Next == \/ PrintStatus \/ PrintFeedback \/ Serve
        \/ timerCallback \/ cmdCallback \/ Expire
        \/ read \/ Believe

Spec == Init /\ [][Next]_vars

(* The threads run, the timer fires, the controller answers and, each time *)
(* round its loop, the script prints whatever is due.                      *)
FairSpec == /\ Spec
            /\ WF_vars(read) /\ WF_vars(Serve) /\ SF_vars(timerCallback)
            /\ WF_vars(PrintStatus) /\ SF_vars(PrintFeedback)

(* The timers fire once a second and readline() waits for half a second:   *)
(* if commands are as rare, there is silence again and again.              *)
QuietSpec == /\ FairSpec
             /\ []<>(cmds = <<>> /\ rx = <<>>)
             /\ SF_vars(StartScript \/ StartDownload)

(* Types, and the counters below their limits.                             *)
TypeOK ==
  /\ script \in {"none", "old", "new"} /\ running \in BOOLEAN
  /\ mode \in {"run", "download"} /\ got \in 0..ScriptLines
  /\ bool1 \in BOOLEAN
  /\ cmds \in Seq({"run", "halt", "SLD", "line", "B", "G"})
  /\ rx \in Seq(Lines \ {"empty"})
  /\ pc \in {"read", "nap", "halt", "clear", "sld", "find_ack", "line", "ack"}
  /\ caller \in {"none", "silence", "status"}
  /\ caller = "none" <=> pc \in {"read", "nap"}
  /\ line_num \in 0..ScriptLines - 1 /\ find_ack \in 0..AckTries
  /\ result \in BOOLEAN
  /\ start_script_attempts \in 0..StartAttempts
  /\ receiving_script_messages \in BOOLEAN
  /\ wrong_script_version_count \in 0..WrongLimit
  /\ recent \in BOOLEAN /\ stray \in 0..MaxStray

(* A download that reports success left this version in the controller,    *)
(* whatever commands of a channel and their answers came in between.       *)
(* controller.cpp:230 says so: "checking for an ack from each line".  It   *)
(* takes prompt answers: one that comes after the driver gave up waiting   *)
(* passes for that of a later attempt.                                     *)
DownloadTrue == result => script = "new"

(* Once the channels leave a download alone the controller gets this       *)
(* version for good: it is not programmed again and again.  This leaves    *)
(* out the controller that is found with an outdated script, which         *)
(* announces itself: if the download then fails, nothing is sent again.    *)
LoadedForGood == script # "old" => <>[](mode = "run" /\ script = "new")

(* The script runs, the channel asks it for feedback, and feedback comes   *)
(* again and again. This leaves out the outdated script again: it has      *)
(* already been heard, so that its successor is never started (line 119).  *)
FeedbackFlows == script # "old" => []<>(recent /\ running)
=============================================================================
