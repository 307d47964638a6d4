---------------------------- MODULE MCFrameWire ----------------------------
(* Instance of FrameWire for TLC.                                          *)
EXTENDS FrameWire

\* An empty payload, one the size of a header, and one a header's length cannot hold.
Lengths == {0, 2, 9}
=============================================================================
