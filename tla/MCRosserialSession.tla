------------------------- MODULE MCRosserialSession --------------------------
EXTENDS RosserialSession

\* publishers[], then subscribers[], in the order of negotiateTopics(); vpub
\* and vsub are of one service of the device, cpub and csub of one it calls.
MCEndpoints == <<"pub", "vpub", "cpub", "sub", "vsub", "csub">>
=============================================================================
