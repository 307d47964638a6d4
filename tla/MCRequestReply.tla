--------------------------- MODULE MCRequestReply ---------------------------
(* Instances of RequestReply for TLC.                                      *)
EXTENDS RequestReply

Answered == {"ok"}
BothClients == {"persistent", "resilient"}
ResilientOnly == {"resilient"}
Mixed == {"ok", "rejected", "once", "oversized", "large"}
NoFaults == {}
Refusals == {"refuse"}
=============================================================================
