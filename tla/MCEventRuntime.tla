--------------------------- MODULE MCEventRuntime ---------------------------
(* Instance of EventRuntime for TLC.                                       *)
EXTENDS EventRuntime

AllFaults == {"panic", "spawn"}
=============================================================================
