------------------------------ MODULE MCUsbCam ------------------------------
(* Every way to get images and every format, the four buffers that are     *)
(* asked for, two of the events that disturb the loop.                     *)
EXTENDS UsbCam, TLC

(* A camera that can do all, with four or fewer buffers; one that has only *)
(* read(); one that streams no images; and no device.                      *)
All == {"capture", "readwrite", "streaming"}
MCDevices ==
  {[char |-> TRUE, caps |-> All, granted |-> n] : n \in {1, 2, 4}}
    \cup {[char |-> TRUE, caps |-> {"capture", "readwrite"}, granted |-> 4],
          [char |-> TRUE, caps |-> {"streaming"}, granted |-> 4],
          [char |-> FALSE, caps |-> All, granted |-> 4]}

Symmetry == Permutations(Buffer)

Levels == {0, 64, 128, 192, 255}
MCColours == Levels \X Levels \X Levels
MCLevels == {0, 1, 3, 4, 255, 256, 511, 513, 1020, 1023}
=============================================================================
