------------------------------ MODULE MCAstra ------------------------------
(* Three drivers, as in multi_astra.launch, given serial numbers or one of *)
(* each kind of id; a camera with and without colour and registration; a   *)
(* mode that the camera has not.                                           *)
EXTENDS Astra

Serial == [kind |-> "serial"]
MCDeviceIds ==
  {<<Serial, Serial, Serial>>,
   <<[kind |-> "#", n |-> 1], Serial, [kind |-> "@", bus |-> "usb2", n |-> 1]>>}
MCBusOf == <<"usb1", "usb1", "usb2">>

MCConfigs ==
  {[ir |-> 5, color |-> 1, depth |-> 5, reg |-> TRUE],
   [ir |-> 12, color |-> 3, depth |-> 8, reg |-> FALSE]}

(* It comes up with modes of its own, colour in another pixel format.      *)
MCPowerOn ==
  {[ir |-> VideoMode("ir", 5), depth |-> VideoMode("depth", 5),
    color |-> [VideoMode("color", 1) EXCEPT !.pixel_format = "YUV422"]]}
MCSupported ==
  {VideoMode("ir", 5), VideoMode("color", 1), VideoMode("color", 3),
   VideoMode("depth", 5), VideoMode("depth", 8)}
MCCalibrated == [rgb |-> 1280, ir |-> 0]
=============================================================================
