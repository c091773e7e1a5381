--------------------------- MODULE MCGypsyServer ---------------------------
(* Instances of GypsyServer for TLC: two senders, a serial device, a Garmin  *)
(* and a path the configuration file refuses.  Shutdown is called with an    *)
(* object path, or with the device path, as gypsy_control_create's callers   *)
(* do.                                                                      *)
EXTENDS GypsyServer

CONSTANTS ttyS0, garmin0, refused, objTtyS0, objGarmin0

MCCreatePath ==
    [d \in Devices |-> IF d = garmin0 THEN objGarmin0 ELSE objTtyS0]

MCShutdownPath ==
    [a \in ShutdownArgs |-> IF a \in Devices THEN MCCreatePath[a] ELSE a]

MCAllowed == Devices \ {refused}
MCGarmin == Devices \cap {garmin0}
=============================================================================
