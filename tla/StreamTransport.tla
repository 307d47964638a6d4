-------------------------- MODULE StreamTransport --------------------------
(***************************************************************************)
(* Two StreamManagers (transport/src/tcp) at the ends of one TCP           *)
(* connection: the Hello/Welcome handshake, the multiplexed streams with   *)
(* their half-close states and credit windows, and the write buffer of     *)
(* each Connection, which is flushed by size or on demand.  A manager is   *)
(* owned by one task, so a call is one step; what interleaves are the two  *)
(* ends and the frames between them.  TCP delivers in order; the frames a  *)
(* flush writes become readable together.  The connection may break: an    *)
(* operation on the socket fails, some of the frames being written still   *)
(* arrive, and the task drops its manager.                                 *)
(*                                                                         *)
(* A payload is its length.  Lengths, windows and buffer limits are in one *)
(* unit; only their order matters.                                         *)
(***************************************************************************)
EXTENDS Integers, Sequences, FiniteSetsExt

CONSTANTS DefaultWindow,   \* DEFAULT_WINDOW
          FlushThreshold,  \* FLUSH_THRESHOLD
          MaxBuffer,       \* MAX_BUFFER_SIZE
          HeaderSize,      \* bytes of a frame besides its payload
          PingSizes,       \* payloads of the pings applications send
          MaxId,           \* the largest stream id, u32::MAX in the code
          MaxOpen,         \* bound on the streams an end has opened and not let go of
          MaxFlight,       \* bound on the frames an end has in flight
          MaxPings,        \* bound on the calls of send_ping
          MayBreak         \* whether the connection may break

ASSUME TransportAssumption ==
    /\ DefaultWindow \in Nat \ {0}
    /\ HeaderSize \in Nat \ {0}
    /\ FlushThreshold \in Nat \ {0}
    /\ MaxBuffer \in Nat
    /\ MaxBuffer >= FlushThreshold + HeaderSize + DefaultWindow
    /\ PingSizes \subseteq Nat
    /\ MaxId \in Nat \ {0}
    /\ MaxOpen \in Nat
    /\ MaxFlight \in Nat
    /\ MaxPings \in Nat
    /\ MayBreak \in BOOLEAN

VARIABLES
    handshake_state,  \* of each end
    next_local_id,    \* of each end
    streams,          \* the map of each end; NoStream where it has no entry
    write_buffer,     \* frames buffered by each end and not flushed
    buffered,         \* their size in bytes
    wire,             \* frames each end has flushed and the other not read
    seen,             \* history: ids that have been in the map of each end
    pings,            \* history: the calls of send_ping, of both ends
    broken            \* ends whose socket has failed and whose manager is gone

connVars == <<write_buffer, buffered, wire>>
transportVars == <<handshake_state, next_local_id, streams, connVars, seen, pings, broken>>

Peers == {"Initiator", "Acceptor"}
Other(p) == IF p = "Initiator" THEN "Acceptor" ELSE "Initiator"

Ids == 1..MaxId
Sizes == 1..DefaultWindow
HandshakeStates == {"AwaitingHello", "AwaitingWelcome", "Established"}
StreamStates == {"Open", "HalfClosedLocal", "HalfClosedRemote"}
ControlTypes == {"Hello", "Welcome", "Ping", "Pong"}
FrameTypes == ControlTypes \cup {"Open", "Data", "Close", "Reset", "Window", "Error"}

Frame(type, i, n) == [type |-> type, id |-> i, n |-> n]
Control(type) == Frame(type, 0, 0)
Size(f) == HeaderSize + (IF f.type \in {"Data", "Ping", "Pong"} THEN f.n ELSE 0)

-----------------------------------------------------------------------------
(* Stream: a map entry.  Closed and Reset streams leave the map in the     *)
(* call that closes or resets them.                                        *)

NewStream ==
    [state |-> "Open", send_window |-> DefaultWindow,
     recv_window |-> DefaultWindow, recv_queue |-> << >>]

NoStream ==
    [state |-> "None", send_window |-> 0, recv_window |-> 0, recv_queue |-> << >>]

Has(p, i) == streams[p][i].state \in StreamStates
CanSend(s) == s.state \in {"Open", "HalfClosedRemote"}

CanReceive(s) == s.state \in {"Open", "HalfClosedLocal"}

\* Mutant: a first close leaves the stream open.
OnLocalCloseLate(s) == IF s.state = "HalfClosedRemote" THEN NoStream ELSE s

OnLocalClose(s) ==
    CASE s.state = "Open" -> [s EXCEPT !.state = "HalfClosedLocal"]
      [] s.state = "HalfClosedRemote" -> NoStream
      [] OTHER -> s

OnRemoteClose(s) ==
    CASE s.state = "Open" -> [s EXCEPT !.state = "HalfClosedRemote"]
      [] s.state = "HalfClosedLocal" -> NoStream
      [] OTHER -> s

\* Mutant: the window is checked but not consumed.
ConsumeNothing(s, n) == s

\* check_send_window has passed, so the clamp at 0 is never reached here.
ConsumeSendWindow(s, n) == [s EXCEPT !.send_window = @ - n]

AtLeastZero(n) == IF n < 0 THEN 0 ELSE n

PushRecv(s, n) ==
    [s EXCEPT !.recv_window = AtLeastZero(@ - n), !.recv_queue = Append(@, n)]

\* Mutant: the window is not restored.
PopRecvUnrestored(s) == [s EXCEPT !.recv_queue = Tail(@)]

PopRecv(s) ==
    [s EXCEPT !.recv_window = @ + Head(s.recv_queue), !.recv_queue = Tail(@)]

\* An i64 that CreditConserved keeps far from saturating.
ApplyWindow(s, n) == [s EXCEPT !.send_window = @ + n]

SetStream(p, i, s) == streams' = [streams EXCEPT ![p][i] = s]

-----------------------------------------------------------------------------
(* Connection: the write buffer.  buffer_frame refuses a frame that would  *)
(* take the buffer beyond MAX_BUFFER_SIZE with BufferOverflow and leaves   *)
(* the buffer alone; what the call did before to its stream remains.       *)

Fits(p, f) == buffered[p] + Size(f) <= MaxBuffer

\* Mutant: the size of the buffer is not reset.
FlushedUncounted(p, frames) ==
    /\ wire' = [wire EXCEPT ![p] = @ \o frames]
    /\ write_buffer' = [write_buffer EXCEPT ![p] = << >>]
    /\ UNCHANGED buffered

Flushed(p, frames) ==
    /\ wire' = [wire EXCEPT ![p] = @ \o frames]
    /\ write_buffer' = [write_buffer EXCEPT ![p] = << >>]
    /\ buffered' = [buffered EXCEPT ![p] = 0]

\* Mutant: the buffer is flushed on demand only.
BufferOnly(p, f) ==
    /\ write_buffer' = [write_buffer EXCEPT ![p] = Append(@, f)]
    /\ buffered' = [buffered EXCEPT ![p] = @ + Size(f)]
    /\ UNCHANGED wire

\* buffer_and_maybe_flush
BufferFrame(p, f) ==
    IF ~Fits(p, f) THEN UNCHANGED connVars
    ELSE IF buffered[p] + Size(f) >= FlushThreshold
    THEN Flushed(p, Append(write_buffer[p], f))
    ELSE /\ write_buffer' = [write_buffer EXCEPT ![p] = Append(@, f)]
         /\ buffered' = [buffered EXCEPT ![p] = @ + Size(f)]
         /\ UNCHANGED wire

\* Mutant: send_frame waits for the threshold like the others.
SendFrameLater(p, f) == BufferFrame(p, f)

\* send_frame: buffer, then flush all there is.
SendFrame(p, f) ==
    IF Fits(p, f) THEN Flushed(p, Append(write_buffer[p], f))
                  ELSE UNCHANGED connVars

\* A bound, not a condition of the code.
Room(p) == Len(wire[p]) + Len(write_buffer[p]) < MaxFlight

Established(p) == handshake_state[p] = "Established"

-----------------------------------------------------------------------------
(* The calls of the application, after StreamManager::new at both ends.    *)

TransportInit ==
    /\ handshake_state = [p \in Peers |-> "AwaitingHello"]
    /\ next_local_id = [p \in Peers |-> IF p = "Initiator" THEN 1 ELSE 2]
    /\ streams = [p \in Peers |-> [i \in Ids |-> NoStream]]
    /\ write_buffer = [p \in Peers |-> << >>]
    /\ buffered = [p \in Peers |-> 0]
    /\ wire = [p \in Peers |-> << >>]
    /\ seen = [p \in Peers |-> {}]
    /\ pings = 0
    /\ broken = [p \in Peers |-> FALSE]

\* Mutant: the initiator does not wait for the Welcome.
StartHandshakeEager(p) ==
    /\ p = "Initiator"
    /\ handshake_state[p] = "AwaitingHello"
    /\ SendFrame(p, Control("Hello"))
    /\ handshake_state' = [handshake_state EXCEPT ![p] = "Established"]
    /\ UNCHANGED <<next_local_id, streams, seen, pings>>

\* start_handshake, up to the frames it then waits for.
StartHandshake(p) ==
    /\ p = "Initiator"
    /\ handshake_state[p] = "AwaitingHello"
    /\ SendFrame(p, Control("Hello"))
    /\ handshake_state' = [handshake_state EXCEPT ![p] = "AwaitingWelcome"]
    /\ UNCHANGED <<next_local_id, streams, seen, pings>>

\* Mutants: the two ends' ids are not kept apart; an id is handed out again.
NextIdByOne(p) == next_local_id[p] + 1
NextIdAgain(p) == next_local_id[p]

NextId(p) == next_local_id[p] + 2

\* The ids of p's parity that are in its map: a bound, not a condition.
Own(p) == {i \in Ids : Has(p, i) /\ i % 2 = next_local_id[p] % 2}

\* The id whose successor does not fit is refused with StreamIdExhausted.
OpenStream(p) ==
    /\ Established(p)
    /\ NextId(p) <= MaxId
    /\ Cardinality(Own(p)) < MaxOpen
    /\ Room(p)
    /\ next_local_id' = [next_local_id EXCEPT ![p] = NextId(p)]
    /\ SetStream(p, next_local_id[p], NewStream)
    /\ seen' = [seen EXCEPT ![p] = @ \cup {next_local_id[p]}]
    /\ BufferFrame(p, Frame("Open", next_local_id[p], 0))
    /\ UNCHANGED <<handshake_state, pings>>

SendData(p, i, n) ==
    /\ Established(p)
    /\ Has(p, i)
    /\ CanSend(streams[p][i])
    /\ streams[p][i].send_window >= n
    /\ Room(p)
    /\ SetStream(p, i, ConsumeSendWindow(streams[p][i], n))
    /\ BufferFrame(p, Frame("Data", i, n))
    /\ UNCHANGED <<handshake_state, next_local_id, seen, pings>>

\* A stream that is already HalfClosedLocal may be closed again: a second
\* Close is sent.
CloseStream(p, i) ==
    /\ Established(p)
    /\ Has(p, i)
    /\ Room(p)
    /\ SetStream(p, i, OnLocalClose(streams[p][i]))
    /\ BufferFrame(p, Frame("Close", i, 0))
    /\ UNCHANGED <<handshake_state, next_local_id, seen, pings>>

ResetStream(p, i) ==
    /\ Established(p)
    /\ Has(p, i)
    /\ Room(p)
    /\ SetStream(p, i, NoStream)
    /\ SendFrame(p, Frame("Reset", i, 0))
    /\ UNCHANGED <<handshake_state, next_local_id, seen, pings>>

\* Mutant: the credit is not given back.
RecvDataUngranted(p, i) ==
    /\ Established(p)
    /\ Has(p, i)
    /\ streams[p][i].recv_queue # << >>
    /\ SetStream(p, i, PopRecv(streams[p][i]))
    /\ UNCHANGED <<connVars, handshake_state, next_local_id, seen, pings>>

\* The Window frame is buffered, not flushed.
RecvData(p, i) ==
    /\ Established(p)
    /\ Has(p, i)
    /\ streams[p][i].recv_queue # << >>
    /\ SetStream(p, i, PopRecv(streams[p][i]))
    /\ IF CanReceive(streams[p][i])
       THEN BufferFrame(p, Frame("Window", i, Head(streams[p][i].recv_queue)))
       ELSE UNCHANGED connVars
    /\ UNCHANGED <<handshake_state, next_local_id, seen, pings>>

\* No limit on the payload but that of the buffer.
SendPing(p, n) ==
    /\ pings < MaxPings
    /\ Room(p)
    /\ pings' = pings + 1
    /\ SendFrame(p, Frame("Ping", 0, n))
    /\ UNCHANGED <<handshake_state, next_local_id, streams, seen>>

Flush(p) ==
    /\ write_buffer[p] # << >>
    /\ Flushed(p, write_buffer[p])
    /\ UNCHANGED <<handshake_state, next_local_id, streams, seen, pings>>

-----------------------------------------------------------------------------
(* recv_frame: the handlers of manager.rs and receiver.rs.                 *)

Incoming(p) == Head(wire[Other(p)])

\* handle_open: the peer's parity, and no stream there yet.
OpenAccepted(p, i) ==
    /\ i % 2 = (IF p = "Acceptor" THEN 1 ELSE 0)
    /\ ~Has(p, i)

\* What a Ping or a Hello is answered with: a Pong repeats the payload.
Answer(f) == IF f.type = "Ping" THEN Frame("Pong", 0, f.n) ELSE Control("Welcome")

\* The error recv_frame returns for a frame, "none" when it handles it.  An
\* answer may find no room behind what is in the write buffer.
Refusal(p, f) ==
    IF f.type = "Error" THEN "HandshakeRejected"
    ELSE IF \/ f.type = "Hello" /\ (p # "Acceptor" \/ handshake_state[p] # "AwaitingHello")
            \/ f.type = "Welcome" /\ (p # "Initiator" \/ handshake_state[p] # "AwaitingWelcome")
            \/ f.type \notin ControlTypes /\ ~Established(p)
            \/ f.type = "Open" /\ ~OpenAccepted(p, f.id)
         THEN "InvalidFrame"
    ELSE IF f.type \in {"Data", "Close", "Window"} /\ ~Has(p, f.id) THEN "UnknownStream"
    ELSE IF f.type = "Data" /\ ~CanReceive(streams[p][f.id]) THEN "InvalidFrame"
    ELSE IF f.type \in {"Ping", "Hello"} /\ ~Fits(p, Answer(f)) THEN "BufferOverflow"
    ELSE "none"

\* The next frame is of this type and will be handled.
Accepts(p, type) ==
    /\ wire[Other(p)] # << >>
    /\ Incoming(p).type = type
    /\ Refusal(p, Incoming(p)) = "none"

TakeFrame(p) ==
    /\ wire' = [wire EXCEPT ![Other(p)] = Tail(@)]
    /\ UNCHANGED <<write_buffer, buffered>>

\* The frame is answered at once; the answer takes the write buffer along.
TakeAndAnswer(p, answer) ==
    /\ wire' = [wire EXCEPT ![Other(p)] = Tail(@),
                            ![p] = @ \o Append(write_buffer[p], answer)]
    /\ write_buffer' = [write_buffer EXCEPT ![p] = << >>]
    /\ buffered' = [buffered EXCEPT ![p] = 0]

RecvHello(p) ==
    /\ Accepts(p, "Hello")
    /\ TakeAndAnswer(p, Answer(Incoming(p)))
    /\ handshake_state' = [handshake_state EXCEPT ![p] = "Established"]
    /\ UNCHANGED <<next_local_id, streams, seen, pings>>

RecvWelcome(p) ==
    /\ Accepts(p, "Welcome")
    /\ TakeFrame(p)
    /\ handshake_state' = [handshake_state EXCEPT ![p] = "Established"]
    /\ UNCHANGED <<next_local_id, streams, seen, pings>>

RecvPing(p) ==
    /\ Accepts(p, "Ping")
    /\ TakeAndAnswer(p, Answer(Incoming(p)))
    /\ UNCHANGED <<handshake_state, next_local_id, streams, seen, pings>>

RecvPong(p) ==
    /\ Accepts(p, "Pong")
    /\ TakeFrame(p)
    /\ UNCHANGED <<handshake_state, next_local_id, streams, seen, pings>>

RecvOpen(p) ==
    /\ Accepts(p, "Open")
    /\ TakeFrame(p)
    /\ SetStream(p, Incoming(p).id, NewStream)
    /\ seen' = [seen EXCEPT ![p] = @ \cup {Incoming(p).id}]
    /\ UNCHANGED <<handshake_state, next_local_id, pings>>

\* handle_data, handle_close, handle_window
RecvOnStream(p, type, Handled(_, _)) ==
    /\ Accepts(p, type)
    /\ TakeFrame(p)
    /\ LET f == Incoming(p)
       IN  SetStream(p, f.id, Handled(streams[p][f.id], f.n))
    /\ UNCHANGED <<handshake_state, next_local_id, seen, pings>>

RecvStreamData(p) == RecvOnStream(p, "Data", PushRecv)
RecvClose(p) == RecvOnStream(p, "Close", LAMBDA s, n : OnRemoteClose(s))
RecvWindow(p) == RecvOnStream(p, "Window", ApplyWindow)

\* handle_reset does not mind an unknown stream.
RecvReset(p) == RecvOnStream(p, "Reset", LAMBDA s, n : NoStream)

\* recv_frame returns an error.  The frame is gone, the managers are as they
\* were, except that an acceptor answers a premature frame with an Error.
RecvRefused(p) ==
    /\ wire[Other(p)] # << >>
    /\ Refusal(p, Incoming(p)) # "none"
    /\ IF /\ p = "Acceptor" /\ ~Established(p)
          /\ Incoming(p).type \notin ControlTypes \cup {"Error"}
          /\ Fits(p, Control("Error"))
       THEN TakeAndAnswer(p, Control("Error"))
       ELSE TakeFrame(p)
    /\ UNCHANGED <<handshake_state, next_local_id, streams, seen, pings>>

RecvFrame(p) ==
    \/ RecvHello(p) \/ RecvWelcome(p) \/ RecvPing(p) \/ RecvPong(p)
    \/ RecvOpen(p) \/ RecvStreamData(p) \/ RecvClose(p) \/ RecvReset(p)
    \/ RecvWindow(p) \/ RecvRefused(p)

-----------------------------------------------------------------------------
\* A read or a write_all fails and p's task drops its manager: the frames of a
\* prefix of the write buffer have been written, and the buffer is not cleared.
\* write_buffer keeps those that never reach the wire.
ConnectionFails(p) ==
    /\ MayBreak
    /\ ~broken[p]
    /\ broken' = [broken EXCEPT ![p] = TRUE]
    /\ \E k \in 0..Len(write_buffer[p]) :
         /\ wire' = [wire EXCEPT ![p] = @ \o SubSeq(write_buffer[p], 1, k)]
         /\ write_buffer' =
              [write_buffer EXCEPT ![p] = SubSeq(@, k + 1, Len(@))]
    /\ UNCHANGED <<buffered, handshake_state, next_local_id, streams, seen, pings>>

Lives(p) == ~broken[p] /\ UNCHANGED broken

Call(p) ==
    \/ StartHandshake(p) \/ OpenStream(p) \/ Flush(p)
    \/ \E n \in PingSizes : SendPing(p, n)
    \/ \E i \in Ids :
         \/ CloseStream(p, i) \/ ResetStream(p, i) \/ RecvData(p, i)
         \/ \E n \in Sizes : SendData(p, i, n)

TransportNext ==
    \E p \in Peers : \/ Lives(p) /\ (Call(p) \/ RecvFrame(p))
                     \/ ConnectionFails(p)

TransportSpec == TransportInit /\ [][TransportNext]_transportVars

\* An application that keeps reading frames and taking the data they bring.
Reads(p) ==
    /\ WF_transportVars(Lives(p) /\ RecvFrame(p))
    /\ \A i \in Ids : WF_transportVars(Lives(p) /\ RecvData(p, i))

ReadingSpec == TransportSpec /\ \A p \in Peers : Reads(p)

\* One that also flushes after what it did.
Flushing == \A p \in Peers : WF_transportVars(Lives(p) /\ Flush(p))

-----------------------------------------------------------------------------
(* Properties.                                                             *)

\* What p has sent and its peer has not read, oldest first.
InFlight(p) == wire[p] \o write_buffer[p]

\* What the frames of this type and stream in s carry.
Share(f, type, i) == IF f.type = type /\ f.id = i THEN f.n ELSE 0
Carried(s, type, i) == SumFunction([k \in DOMAIN s |-> Share(s[k], type, i)])
FlightSum(p, type, i) == Carried(InFlight(p), type, i)

QueuedBytes(p, i) == SumFunction(streams[p][i].recv_queue)
SizeOf(s) == SumFunction([k \in DOMAIN s |-> Size(s[k])])

Underway(p, type, i) ==
    \E k \in DOMAIN InFlight(p) : InFlight(p)[k].type = type /\ InFlight(p)[k].id = i

StreamType ==
    [state : StreamStates, send_window : Nat, recv_window : Nat,
     recv_queue : Seq(Sizes)]
FrameType == [type : FrameTypes, id : Ids \cup {0}, n : Sizes \cup PingSizes \cup {0}]

\* Every variable has the type its declaration says; buffered is the size of
\* the write buffer.
TypeOK ==
    /\ handshake_state \in [Peers -> HandshakeStates]
    /\ next_local_id \in [Peers -> Nat]
    /\ \A p \in Peers, i \in Ids : streams[p][i] \in StreamType \cup {NoStream}
    /\ write_buffer \in [Peers -> Seq(FrameType)]
    /\ wire \in [Peers -> Seq(FrameType)]
    /\ buffered \in [Peers -> Nat]
    /\ \A p \in Peers : ~broken[p] => buffered[p] = SizeOf(write_buffer[p])
    /\ seen \in [Peers -> SUBSET Ids]
    /\ pings \in 0..MaxPings
    /\ broken \in [Peers -> BOOLEAN]

\* The credit of a direction is never created and, while the sender may still
\* send and no reset is coming, never lost: what the sender holds, the data
\* underway, the data queued at the receiver and the Window frames underway
\* back add up to the initial window.
CreditConserved ==
    \A p \in Peers, i \in Ids : Has(p, i) =>
        LET total == streams[p][i].send_window + FlightSum(p, "Data", i)
                     + QueuedBytes(Other(p), i) + FlightSum(Other(p), "Window", i)
        IN  /\ total <= DefaultWindow
            /\ CanSend(streams[p][i]) /\ ~Underway(Other(p), "Reset", i)
                 => total = DefaultWindow

\* recv_window is exactly the free part of the receive queue: the defensive
\* clamp at zero never hides bytes the peer should not have sent.
RecvWindowExact ==
    \A p \in Peers, i \in Ids : Has(p, i) =>
        streams[p][i].recv_window + QueuedBytes(p, i) = DefaultWindow

\* Only pings can be too much for the write buffer.  send_ping and the Pong
\* that repeats its payload know no limit but the buffer's and may meet
\* BufferOverflow; no frame of a stream or of the handshake ever does, whatever
\* pings were sent, answered or refused before: the largest, the data that
\* credit allows, still fits.
OnlyPingsOverflow ==
    \A p \in Peers, i \in Ids : Fits(p, Frame("Data", i, streams[p][i].send_window))

\* The only frames an end refuses are late ones, for a stream it has had and
\* has let go of, and pings whose answer does not fit its write buffer: never a
\* frame of a stream that was not opened, was opened twice or with the wrong
\* parity, nor data after a close, nor anything before the handshake.
OnlyLateFramesRefused ==
    \A p \in Peers :
        wire[Other(p)] # << >> =>
            LET f == Incoming(p)
            IN  \/ Refusal(p, f) = "none"
                \/ /\ Refusal(p, f) = "UnknownStream"
                   /\ f.id \in seen[p] /\ ~Has(p, f.id)
                \/ Refusal(p, f) = "BufferOverflow" /\ f.type = "Ping"

\* An end that believes its peer has finished is right: the peer cannot send
\* on the stream and nothing it sent before is still underway.
RemoteCloseIsFinal ==
    \A p \in Peers, i \in Ids :
        streams[p][i].state = "HalfClosedRemote" =>
            /\ ~Underway(Other(p), "Data", i)
            /\ ~CanSend(streams[Other(p)][i]) \/ ~Has(Other(p), i)

\* The initiator takes the connection for established only after the acceptor
\* does, and no stream exists at either end before that.
HandshakeFirst ==
    Established("Initiator") \/ (\E p \in Peers : seen[p] # {})
        => Established("Acceptor")

\* A stream id is never used twice, by either end, in the life of the
\* connection.
IdsNeverReused ==
    [][\A p \in Peers, i \in Ids :
         ~Has(p, i) /\ Has(p, i)' => i \notin seen[p]]_transportVars

Broken == \E p \in Peers : broken[p]

\* A sender out of credit gets some, or the stream ends for it, as long as
\* both applications read and flush and the connection holds, whatever else is
\* going on.
CreditReturns == Flushing =>
    \A p \in Peers, i \in Ids :
        Has(p, i) /\ streams[p][i].send_window = 0
            ~> ~Has(p, i) \/ streams[p][i].send_window > 0
                 \/ ~CanReceive(streams[Other(p)][i]) \/ Broken

\* The handshake completes as soon as both applications read, unless the
\* connection breaks: Hello and Welcome do not wait in a write buffer.
HandshakeCompletes ==
    handshake_state["Initiator"] = "AwaitingWelcome"
        ~> (\A p \in Peers : Established(p)) \/ Broken

\* A reset reaches the peer without anyone flushing, and frees its stream,
\* unless the connection breaks.
ResetReachesPeer ==
    \A p \in Peers, i \in Ids :
        i \in seen[p] /\ ~Has(p, i) /\ Underway(p, "Reset", i)
            ~> ~Has(Other(p), i) \/ Broken

-----------------------------------------------------------------------------
(* What the documentation says of the transport and the code does not do.  *)

\* stream.md: recv_data "immediately sends a Window frame to the peer", which
\* "keeps the flow-control loop running automatically without any
\* application-level intervention".  The frame waits in the write buffer for
\* a flush, and a sender out of credit waits with it.
GrantReachesSender ==
    \A p \in Peers, i \in Ids :
        (Has(p, i) /\ streams[p][i].send_window = 0 /\ Underway(Other(p), "Window", i))
            ~> ~Has(p, i) \/ streams[p][i].send_window > 0
=============================================================================
