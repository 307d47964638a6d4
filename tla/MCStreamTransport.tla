------------------------- MODULE MCStreamTransport -------------------------
(* Instances of StreamTransport for TLC.                                   *)
EXTENDS StreamTransport
=============================================================================
