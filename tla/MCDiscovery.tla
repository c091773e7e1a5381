---------------------------- MODULE MCDiscovery -----------------------------
(* Discovery for TLC. *)
EXTENDS Discovery, TLC

const_Names == {"ttyACM0", "ttyACM1"}
const_Addresses == {"00:11"}
=============================================================================
