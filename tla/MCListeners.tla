---------------------------- MODULE MCListeners ----------------------------
(* A program with a listener, and another program that shares the object.  *)
EXTENDS Listeners

CONSTANTS s1, s2, p1

MCSenders == {s1, s2}
MCListenersSet == {s1}
MCPaths == {p1}
=============================================================================
