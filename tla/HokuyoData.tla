----------------------------- MODULE HokuyoData -----------------------------
(***************************************************************************)
(* hokuyo_node/src/hokuyo.cpp: what the driver computes from the lines of  *)
(* an SCIP 2 scanner.  A character stands for its value less 0x30, a digit *)
(* of base Radix (64 in the code); a line is its characters and their sum. *)
(***************************************************************************)
EXTENDS Integers, Sequences, SequencesExt

CONSTANTS
  Radix,        \* 64: the values of a character
  LineSize,     \* 64: the characters of a full line of data
  ClockSpan,    \* 2^24: where the scanner's clock wraps
  MaxReadings,  \* MAX_READINGS
  SampleData,   \* the scans, as characters, that the properties try
  SampleSteps   \* the advances of the clock between reads that they try

ASSUME DataAssumption ==
  {Radix, LineSize, ClockSpan, MaxReadings} \subseteq Nat \ {0}

(* Any scan of no more readings than there may be, and any advances of     *)
(* less than the clock's span.                                             *)
ASSUME SampleAssumption ==
  /\ SampleData \subseteq {c \in Seq(0..(Radix - 1)) : Len(c) <= 3 * MaxReadings}
  /\ SampleSteps \subseteq Seq(0..(ClockSpan - 1))

Sum(chars) ==
  LET sum[i \in 0..Len(chars)] == IF i = 0 THEN 0 ELSE sum[i - 1] + chars[i]
  IN  sum[Len(chars)]

(* checkSum(): the sum of the characters, kept to one character. *)
checkSum(line) == Sum(line.chars) % Radix = line.sum

Line(chars) == [chars |-> chars, sum |-> Sum(chars) % Radix]

(* The scanner cuts its readings into lines wherever a line is full. *)
Lines(chars) ==
  [i \in 1..((Len(chars) + LineSize - 1) \div LineSize) |->
    LET upto == i * LineSize
    IN Line(SubSeq(chars, upto - LineSize + 1,
                   IF upto < Len(chars) THEN upto ELSE Len(chars)))]

(* The number that the characters from the i-th on stand for, three of     *)
(* them: (c0 << 12) | (c1 << 6) | c2.                                      *)
Number(chars, i) ==
  (chars[i] * Radix + chars[i + 1]) * Radix + chars[i + 2]

(* readData(): each line is appended to what the one before left over, and *)
(* as many readings are taken from it as it has in whole.  Three           *)
(* characters are a range; with has_intensity three more are its intensity.*)
DataSize(has_intensity) == IF has_intensity THEN 6 ELSE 3

(* The codes that stand for no distance, of the UTM-30LX and of the other  *)
(* scanners: what readData() stores for each; anything else is millimetres.*)
Distance(range, utm) ==
  LET far  == IF utm THEN {1} ELSE {0, 6}
      near == IF utm THEN {2} ELSE {}
      nan  == IF utm THEN {3, 4, 5} ELSE {1, 2} \cup 7..19
  IN CASE range \in far  -> "inf"
       [] range \in near -> "-inf"
       [] range \in nan  -> "nan"
       [] OTHER          -> range

(* The distance and the intensity of the reading that begins at the i-th.  *)
ReadingAt(chars, i, size, utm) ==
  <<Distance(Number(chars, i), utm)>> \o
    (IF size = 6 THEN <<Number(chars, i + 3)>> ELSE <<>>)

(* The characters of whole readings, and those readings. *)
Whole(chars, size) == Len(chars) - (Len(chars) % size)

Cut(chars, size, utm) ==
  [k \in 1..(Whole(chars, size) \div size) |->
    ReadingAt(chars, (k - 1) * size + 1, size, utm)]

(* Mutant: what a line leaves over is not kept for the next one. *)
NothingLeftOver(got, line, size, utm) ==
  IF got.corrupted \/ ~checkSum(line) THEN [got EXCEPT !.corrupted = TRUE]
  ELSE [got EXCEPT !.readings = got.readings \o Cut(line.chars, size, utm)]

ReadLine(got, line, size, utm) ==
  LET chars == got.left \o line.chars
      readings == got.readings \o Cut(chars, size, utm)
  IN IF got.corrupted \/ ~checkSum(line) \/ Len(readings) > MaxReadings
     THEN [got EXCEPT !.corrupted = TRUE]
     ELSE [got EXCEPT
             !.readings = readings,
             !.left = SubSeq(chars, Whole(chars, size) + 1, Len(chars))]

NothingRead == [corrupted |-> FALSE, readings |-> <<>>, left |-> <<>>]

readData(lines, has_intensity, utm) ==
  LET got[i \in 0..Len(lines)] ==
        IF i = 0 THEN NothingRead
        ELSE ReadLine(got[i - 1], lines[i], DataSize(has_intensity), utm)
  IN  got[Len(lines)]

----------------------------------------------------------------------------
(* readTime(): last_time_, wrapped_ and time_repeat_count_, and the time   *)
(* that it returns.                                                        *)
Clock == [last_time_ : 0..(ClockSpan - 1), wrapped_ : Nat, repeat : Nat,
          repeated : BOOLEAN]

(* After RS, whose answer clears last_time_ and wrapped_ but not the count.*)
ClockReset == [last_time_ |-> 0, wrapped_ |-> 0, repeat |-> 0, repeated |-> FALSE]

(* A third repetition throws RepeatedTimeException before last_time_ and   *)
(* wrapped_ are written.                                                   *)
readTime(clock, t) ==
  LET n == IF t = clock.last_time_ THEN clock.repeat + 1 ELSE 0
  IN IF n > 2 THEN [clock EXCEPT !.repeat = n, !.repeated = TRUE]
     ELSE [last_time_ |-> t,
           wrapped_ |-> clock.wrapped_ + (IF t < clock.last_time_ THEN 1 ELSE 0),
           repeat |-> n,
           repeated |-> FALSE]

Stamp(clock) == clock.wrapped_ * ClockSpan + clock.last_time_

(* A scanner's clock that goes on by each of the steps, read after each.   *)
TimeRead(read, d) ==
  [now |-> read.now + d,
   clock |-> IF read.clock.repeated THEN read.clock
             ELSE readTime(read.clock, (read.now + d) % ClockSpan)]

ReadTimes(steps) ==
  LET read[i \in 0..Len(steps)] ==
        IF i = 0 THEN [now |-> 0, clock |-> ClockReset] ELSE TimeRead(read[i - 1], steps[i])
  IN  read[Len(steps)]

----------------------------------------------------------------------------
(* Every reading of a scan arrives as it was sent, wherever a line's end   *)
(* cuts it, and with an intensity that belongs to it; and a single         *)
(* character changed on the way is noticed (readData, checkSum).           *)
Spoilt(lines, i, c) ==
  [lines EXCEPT ![i].chars[1] = (@ + c) % Radix]

ScanArrives ==
  \A chars \in SampleData, intensity, utm \in BOOLEAN :
    LET got == readData(Lines(chars), intensity, utm)
    IN /\ ~got.corrupted
       /\ got.readings = Cut(chars, DataSize(intensity), utm)
       /\ \A i \in 1..Len(Lines(chars)), c \in 1..(Radix - 1) :
            readData(Spoilt(Lines(chars), i, c), intensity, utm).corrupted

(* The clock wraps, stands still for a read or two and goes on: as long as *)
(* fewer than ClockSpan ticks pass between two reads the stamp is the time *)
(* that really passed (readTime).                                          *)
ClockUnwraps ==
  \A steps \in SampleSteps :
    LET read == ReadTimes(steps)
    IN read.clock.repeated \/ Stamp(read.clock) = read.now
=============================================================================
