--------------------------- MODULE MCGypsyControl ---------------------------
(* GypsyControl for TLC: two programs, one of which uses the library; a device *)
(* that may be recognised as a Garmin, a second path to a device of the same  *)
(* base name, a Bluetooth address, and a path the configuration file refuses. *)
EXTENDS GypsyControl, TLC

CONSTANTS ttyUSB0, ttyUSB0Alias, bt0, refused, objTtyUSB0, objBt0, colons

const_CreatePath == [d \in Devices |-> IF d = bt0 THEN objBt0 ELSE objTtyUSB0]

const_ShutdownPath ==
    [a \in ShutdownArgs |-> IF a = bt0 THEN colons
                            ELSE IF a \in Devices THEN const_CreatePath[a] ELSE a]

const_Allowed == Devices \ {refused}
const_Garmin == {ttyUSB0}
=============================================================================
