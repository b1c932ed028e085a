------------------------- MODULE MCRosserialParser -------------------------
(* Bytes to base 4 and an int of two of them, as bytes and a 16-bit int    *)
(* are to base 256.  The topic uses its high byte; messages may hold the   *)
(* bytes that start a frame and be larger than the buffer, and a request   *)
(* for the topics has none; the sum of <<3, 0>> is just what an int holds, *)
(* that of <<3, 2>> more.  A request for the topics whose first size byte  *)
(* is lost passes for a message of 12 bytes, which is -4 in an int; a      *)
(* frame whose first topic byte is lost, before the next frame, for one on *)
(* topic -3.                                                               *)
EXTENDS RosserialParser

MCTopics == {7}
MCPayloads == {<<3, 0>>, <<3, 2>>, <<0, 2, 1>>}
=============================================================================
