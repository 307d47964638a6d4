------------------------------ MODULE FrameWire ------------------------------
(***************************************************************************)
(* One direction of a Connection (transport/src/tcp/connection.rs) with    *)
(* its codec (transport/src/frame): buffer_frame encodes into the write    *)
(* buffer, flush writes the buffer to the stream, recv_frame decodes from  *)
(* the read buffer and reads more of the stream when that is not enough.   *)
(* The stream delivers what was written in pieces of any size that have    *)
(* nothing to do with frames, and may break at any byte.                   *)
(*                                                                         *)
(* A byte is the place it has in a frame: the receiver sees the fields of  *)
(* a header only at the first byte of a frame, anywhere else it finds no   *)
(* magic.  A payload is its length.                                        *)
(***************************************************************************)
EXTENDS Naturals, Sequences

CONSTANTS
    HeaderSize,     \* HEADER_SIZE
    MaxFrameSize,   \* MAX_FRAME_SIZE
    MaxBuffer,      \* MAX_BUFFER_SIZE
    LengthModulus,  \* 2^32: a header holds the payload length as u32
    Payloads,       \* the payload lengths callers pass
    MaxFrames       \* bound on the frames sent

ASSUME WireAssumption ==
    /\ HeaderSize \in Nat \ {0}
    /\ MaxBuffer \in Nat /\ MaxFrameSize >= MaxBuffer /\ LengthModulus > MaxFrameSize
    /\ MaxFrameSize \in Nat /\ LengthModulus \in Nat
    /\ Payloads \subseteq Nat
    /\ MaxFrames \in Nat

VARIABLES
    write_buffer,   \* the sender's
    wire,           \* the bytes written and not yet read
    read_buffer,    \* the receiver's
    broken,         \* the stream takes no more bytes
    sent,           \* history: the frames buffer_frame accepted
    received        \* history: the frames recv_frame returned

vars == <<write_buffer, wire, read_buffer, broken, sent, received>>

\* Frame::new: the type, its flags and the payload.
ControlTypes == {"Ping", "Pong", "Settings", "Hello", "Welcome"}
DataTypes == {"Open", "Data", "Close", "Reset", "Window", "Error"}
NewFrame(frame_type, control, payload) ==
    [frame_type |-> frame_type, control |-> control, payload |-> payload,
     payload_length |-> payload % LengthModulus]

\* One type of each class; the doc example of Connection sends a Ping without the flag.
Frames == {NewFrame(t, c, n) : t \in {"Ping", "Data"}, c \in BOOLEAN, n \in Payloads}

Init ==
    /\ write_buffer = <<>> /\ wire = <<>> /\ read_buffer = <<>>
    /\ broken = FALSE
    /\ sent = <<>> /\ received = <<>>

-----------------------------------------------------------------------------
(* The codec.                                                              *)

Encoded(f) == [k \in 1 .. HeaderSize + f.payload |-> [frame |-> f, at |-> k]]
EncodeAccepts(f) == f.payload = f.payload_length

\* Header::validate, for the fields a caller can get wrong.
Validates(f) ==
    /\ f.payload_length <= MaxFrameSize
    /\ f.control <=> f.frame_type \in ControlTypes

\* Mutant: a frame is complete when there is a byte after it.
FrameSize(f) == HeaderSize + f.payload_length
CompleteLate(buffer) == Len(buffer) > FrameSize(buffer[1].frame)
Complete(buffer) == Len(buffer) >= FrameSize(buffer[1].frame)

\* What decode answers: a frame, that it needs more data, or an error.
Decode(buffer) ==
    IF Len(buffer) < HeaderSize THEN "NeedMoreData"
    ELSE IF buffer[1].at # 1 THEN "InvalidMagic"
    ELSE IF ~Validates(buffer[1].frame) THEN "InvalidFrame"
    ELSE IF Complete(buffer) THEN "Frame" ELSE "NeedMoreData"

-----------------------------------------------------------------------------
(* The sender.                                                             *)

HasRoom(f) == Len(write_buffer) + HeaderSize + f.payload <= MaxBuffer

BufferFrame(f) ==
    /\ Len(sent) < MaxFrames
    /\ EncodeAccepts(f) /\ HasRoom(f)
    /\ write_buffer' = write_buffer \o Encoded(f)
    /\ sent' = Append(sent, f)
    /\ UNCHANGED <<wire, read_buffer, broken, received>>

Flush ==
    /\ write_buffer # <<>> /\ ~broken
    /\ wire' = wire \o write_buffer
    /\ write_buffer' = <<>>
    /\ UNCHANGED <<read_buffer, broken, sent, received>>

\* write_all fails after some bytes: the buffer keeps them all.
FlushFails ==
    /\ write_buffer # <<>> /\ ~broken
    /\ \E n \in 0 .. Len(write_buffer) - 1 : wire' = wire \o SubSeq(write_buffer, 1, n)
    /\ broken' = TRUE
    /\ UNCHANGED <<write_buffer, read_buffer, sent, received>>

-----------------------------------------------------------------------------
(* The stream and the receiver.                                            *)

\* The connection ends: the receiver may still read some of what was written.
Break ==
    /\ ~broken
    /\ \E n \in 0 .. Len(wire) : wire' = SubSeq(wire, 1, n)
    /\ broken' = TRUE
    /\ UNCHANGED <<write_buffer, read_buffer, sent, received>>

\* Mutant: the bytes read with a frame are dropped with it.
RestDropped(f) == <<>>
Rest(f) == SubSeq(read_buffer, FrameSize(f) + 1, Len(read_buffer))

RecvFrame ==
    /\ Decode(read_buffer) = "Frame"
    /\ LET f == read_buffer[1].frame
       IN  read_buffer' = Rest(f) /\ received' = Append(received, f)
    /\ UNCHANGED <<write_buffer, wire, broken, sent>>

\* Any other answer of decode, a full read buffer and the end of the stream are
\* errors that change nothing.
RecvMore ==
    /\ Decode(read_buffer) = "NeedMoreData"
    /\ Len(read_buffer) < MaxFrameSize + HeaderSize
    /\ \E n \in 1 .. Len(wire) :
         /\ read_buffer' = read_buffer \o SubSeq(wire, 1, n)
         /\ wire' = SubSeq(wire, n + 1, Len(wire))
    /\ UNCHANGED <<write_buffer, broken, sent, received>>

Next ==
    \/ \E f \in Frames : BufferFrame(f)
    \/ Flush \/ FlushFails \/ Break
    \/ RecvFrame \/ RecvMore

WireSpec == Init /\ [][Next]_vars
\* The receiver's caller keeps calling recv_frame.
ReadingWireSpec == WireSpec /\ WF_vars(RecvFrame) /\ WF_vars(RecvMore)

-----------------------------------------------------------------------------
(* Properties.                                                             *)

Channel == INSTANCE FrameChannel WITH Accepted <- Validates

\* A frame is received whole, once and in order, whatever the pieces in which
\* its bytes arrive, and nothing after a frame that validate refuses; a frame
\* cut off by a broken stream is not received.
ImplementsFrameChannel == Channel!ChannelSpec

\* A frame that was flushed arrives without the help of later frames or bytes,
\* also when several arrive in one piece: unless the stream breaks or a frame
\* before it is refused.
FramesArrive ==
    \A n \in 1 .. MaxFrames :
        (/\ Len(sent) = n /\ write_buffer = <<>>
         /\ \A i \in 1 .. n : Validates(sent[i]))
        ~> (broken \/ Len(received) >= n)
=============================================================================
