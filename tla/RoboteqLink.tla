----------------------------- MODULE RoboteqLink -----------------------------
(***************************************************************************)
(* drivers/roboteq/roboteq_driver: how two threads share one serial line.  *)
(* The main thread runs Controller::read(), which may start or download    *)
(* the script; the thread of the AsyncSpinner runs the callbacks of the    *)
(* channels.  Both build their commands in the one MessageSender `command` *)
(* and put them into the one tx_buffer_, and no lock guards either.        *)
(*                                                                         *)
(* Each look at a stream and each insertion is one step; a message is the  *)
(* sequence of what is inserted.  What the main thread sends when is       *)
(* Roboteq's subject: here it may send any of its messages at any time.    *)
(***************************************************************************)
EXTENDS Integers, Sequences

CONSTANT Values  \* the arguments of a channel's G command

ASSUME ValueAssumption == Values \subseteq STRING

main == "main"
spinner == "spinner"
Thread == {main, spinner}

EOL == "eol"
INIT == "!"
SPACE == " "

(* Through `command` (controller.h 121-128): startScript, stopScript,      *)
(* cmdCallback's G and setUserBool, as they are to appear on the line; and *)
(* through write() alone, the lines of downloadScript.                     *)
Built(t) ==
  IF t = main THEN {<<INIT, "R">>, <<INIT, "R", SPACE, "0">>}
  ELSE {<<INIT, "G", SPACE, "1", SPACE, v>> : v \in Values}
         \cup {<<INIT, "B", SPACE, "1", SPACE, "1">>}

Plain(t) == IF t = main THEN {<<"line">>} ELSE {}

VARIABLES
  at, words,  \* of each thread: where it is, and the words still to insert
  mine,       \* of each thread: the message it is sending
  ss,         \* the stream of `command`
  tx_buffer,  \* tx_buffer_
  wire,       \* what went to the port since a message was last begun
  alone       \* history: of each thread, whether it has the line for itself

link_vars == <<at, words, mine, ss, tx_buffer, wire, alone>>

LinkInit ==
  /\ at = [t \in Thread |-> "idle"]
  /\ words = [t \in Thread |-> <<>>]
  /\ mine = [t \in Thread |-> <<>>]
  /\ ss = <<>>
  /\ tx_buffer = <<>>
  /\ wire = <<>>
  /\ alone = [t \in Thread |-> FALSE]

Other(t) == IF t = main THEN spinner ELSE main

At(t, from, to) == at[t] = from /\ at' = [at EXCEPT ![t] = to]

Begin(t, msg, to) ==
  /\ At(t, "idle", to)
  /\ words' = [words EXCEPT ![t] = msg]
  /\ mine' = [mine EXCEPT ![t] = msg]
  /\ wire' = <<>>
  /\ alone' = [u \in Thread |->
       IF u = t THEN at[Other(t)] = "idle" ELSE alone[u] /\ at[u] = "idle"]
  /\ UNCHANGED <<ss, tx_buffer>>

BeginBuilt(t, msg) == Begin(t, msg, "test")

BeginPlain(t, msg) == Begin(t, msg, "write")

(* operator<<(const T), controller.h 84-91.  The test of tellp() decides   *)
(* what is to precede the value, whatever belongs there.                   *)
Test(t) ==
  /\ At(t, "test", "separate")
  /\ words' = [words EXCEPT ![t] =
                 <<IF ss = <<>> THEN INIT ELSE SPACE>> \o Tail(@)]
  /\ UNCHANGED <<mine, ss, tx_buffer, wire, alone>>

PutWord(t) ==
  /\ ss' = Append(ss, Head(words[t]))
  /\ words' = [words EXCEPT ![t] = Tail(@)]
  /\ UNCHANGED <<mine, tx_buffer, wire, alone>>

(* Its first insertion, init_ or ' '.                                      *)
Separate(t) == At(t, "separate", "insert") /\ PutWord(t)

(* Its second insertion, of the value.                                     *)
Insert(t) ==
  /\ At(t, "insert", IF Len(words[t]) = 1 THEN "send" ELSE "test")
  /\ PutWord(t)

(* operator<<(EOMSend), line 95: ss.str() is copied for write().           *)
Copy(t) ==
  /\ At(t, "send", "write")
  /\ words' = [words EXCEPT ![t] = ss]
  /\ UNCHANGED <<mine, ss, tx_buffer, wire, alone>>

(* Controller::write(), line 139, its first insertion.                     *)
Write(t) ==
  /\ At(t, "write", "eol")
  /\ tx_buffer' = tx_buffer \o words[t]
  /\ words' = [words EXCEPT ![t] = <<>>]
  /\ UNCHANGED <<mine, ss, wire, alone>>

(* Mutant: the line end is forgotten.                                      *)
WriteEol_none(t) ==
  /\ At(t, "eol", IF mine[t] \in Plain(t) THEN "flush" ELSE "clear_ss")
  /\ UNCHANGED <<words, mine, ss, tx_buffer, wire, alone>>

(* Its second insertion.                                                   *)
WriteEol(t) ==
  /\ At(t, "eol", IF mine[t] \in Plain(t) THEN "flush" ELSE "clear_ss")
  /\ tx_buffer' = Append(tx_buffer, EOL)
  /\ UNCHANGED <<words, mine, ss, wire, alone>>

(* Line 96: ss.str("").                                                    *)
ClearSender(t) ==
  /\ At(t, "clear_ss", "flush")
  /\ ss' = <<>>
  /\ UNCHANGED <<words, mine, tx_buffer, wire, alone>>

(* flush(), line 144: what is in the buffer goes to the port.              *)
Flush(t) ==
  /\ At(t, "flush", "clear_tx")
  /\ wire' = wire \o tx_buffer
  /\ UNCHANGED <<words, mine, ss, tx_buffer, alone>>

(* Mutant: line 148 is missing.                                            *)
ClearTxBuffer_not(t) ==
  /\ At(t, "clear_tx", "idle")
  /\ UNCHANGED <<words, mine, ss, tx_buffer, wire, alone>>

(* Line 148: tx_buffer_.str("").                                           *)
ClearTxBuffer(t) ==
  /\ At(t, "clear_tx", "idle")
  /\ tx_buffer' = <<>>
  /\ UNCHANGED <<words, mine, ss, wire, alone>>

LinkNext == \E t \in Thread :
  \/ \E msg \in Built(t) : BeginBuilt(t, msg)
  \/ \E msg \in Plain(t) : BeginPlain(t, msg)
  \/ Test(t) \/ Separate(t) \/ Insert(t) \/ Copy(t) \/ Write(t) \/ WriteEol(t)
  \/ ClearSender(t) \/ Flush(t) \/ ClearTxBuffer(t)

LinkSpec == LinkInit /\ [][LinkNext]_link_vars

-----------------------------------------------------------------------------
Word == Values \cup {INIT, SPACE, "R", "G", "B", "0", "1", "line", EOL}

(* The sender never holds more than one message of each thread.            *)
LinkTypeOK ==
  /\ at \in [Thread -> {"idle", "test", "separate", "insert", "send", "write",
                        "eol", "clear_ss", "flush", "clear_tx"}]
  /\ words \in [Thread -> Seq(Word)]
  /\ mine \in [Thread -> Seq(Word)]
  /\ ss \in Seq(Word) /\ Len(ss) <= 10
  /\ tx_buffer \in Seq(Word)
  /\ wire \in Seq(Word)
  /\ alone \in [Thread -> BOOLEAN]

(* However the two threads mixed and lost each other's words, nothing of   *)
(* it is left behind: when neither is sending, the sender and the buffer   *)
(* are empty, so a race garbles the commands it meets and no later one.    *)
NoDebris ==
  (\A t \in Thread : at[t] = "idle") => ss = <<>> /\ tx_buffer = <<>>

(* A message whose thread had the line for itself from its first word to   *)
(* its flush is written once, whole and as one line, whatever races there  *)
(* were before it.                                                         *)
AloneIntact ==
  \A t \in Thread : at[t] = "clear_tx" /\ alone[t] =>
    wire = Append(mine[t], EOL)
=============================================================================
