---------------------------- MODULE FrameChannel ----------------------------
(***************************************************************************)
(* What a Connection (transport/src/tcp/connection.rs) promises to the     *)
(* modules above it, which put frames on a wire and take them off: frames  *)
(* are received whole, each once, in the order in which they were sent,    *)
(* and none is received past one that the receiver refuses.  A frame that  *)
(* is never received is one that a broken connection, or an end that does  *)
(* not flush or read, keeps back with all that follow it.                  *)
(***************************************************************************)
EXTENDS Naturals, Sequences

CONSTANTS Frames,      \* the frames a caller may pass
          Accepted(_)  \* whether the receiver accepts a frame

VARIABLES sent,        \* the frames accepted from the sender's callers
          received     \* the frames returned to the receiver's callers

ChannelInit == sent = <<>> /\ received = <<>>

Send(f) == sent' = Append(sent, f) /\ UNCHANGED received

Receive ==
    /\ Len(received) < Len(sent)
    /\ LET f == sent[Len(received) + 1]
       IN  Accepted(f) /\ received' = Append(received, f)
    /\ UNCHANGED sent

ChannelNext == Receive \/ \E f \in Frames : Send(f)
ChannelSpec == ChannelInit /\ [][ChannelNext]_<<sent, received>>
=============================================================================
