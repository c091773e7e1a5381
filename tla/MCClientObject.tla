--------------------------- MODULE MCClientObject ---------------------------
(* A device that may be of any kind, and another one that is only held. *)
EXTENDS ClientObject

const_CreatePath == [d \in Devices |-> IF d = "dev_gps" THEN "obj_gps" ELSE "obj_other"]
const_ShutdownPath == [a \in ShutdownArgs |-> a]
=============================================================================
