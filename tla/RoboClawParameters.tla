-------------------------- MODULE RoboClawParameters --------------------------
(* The numbers of drivers/roboclaw/src/roboclaw.cpp and of its board that  *)
(* RoboClaw and EncoderOdometry share, and the bounds on the faults.       *)
EXTENDS Integers

CONSTANTS
  Half,      \* a count is an int in -Half .. Half - 1 (Half is 2^31)
  Jump,      \* the largest step the encoder filter accepts (50000)
  Position,  \* where a wheel may be, in ticks (bounded for model checking)
  Firmware,  \* length of the board's version string, below 32
  MaxLate,   \* bound on the reads that come before all bytes are there
  MaxLost    \* bound on the requests that get no answer

ASSUME CountAssumption ==
  /\ Half \in Nat \ {0}
  /\ Jump \in Nat
  /\ Position \subseteq Int
  /\ 0 \in Position
ASSUME ReplyAssumption == Firmware \in 1 .. 31
ASSUME FaultAssumption == MaxLate \in Nat /\ MaxLost \in Nat
===============================================================================
