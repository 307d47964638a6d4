------------------------ MODULE StreamTransportProofs ------------------------
(***************************************************************************)
(* Proofs about StreamTransport, for any windows, thresholds and bounds:   *)
(* the handshake comes first, no stream id is ever used again, a remote    *)
(* close is final, an end refuses no frame but one made late by the        *)
(* removal of its stream, credit is conserved, and what it allows to send  *)
(* fits the write buffer.                                                  *)
(***************************************************************************)
EXTENDS StreamTransport, SequenceTheorems, FiniteSetTheorems, WellFoundedInduction, TLAPS

-----------------------------------------------------------------------------
(* Types, without the sums of TypeOK.                                      *)

StreamFrames == {"Open", "Data", "Close", "Reset", "Window"}
WireFrame ==
    {f \in [type : FrameTypes, id : Ids \cup {0}, n : Int] :
        f.type \in StreamFrames => f.id \in Ids}
StreamRecord ==
    [state : StreamStates \cup {"None"}, send_window : Int, recv_window : Int,
     recv_queue : Seq(Int)]

FlightTyped ==
    /\ write_buffer \in [Peers -> Seq(WireFrame)]
    /\ wire \in [Peers -> Seq(WireFrame)]
StateTyped ==
    /\ handshake_state \in [Peers -> HandshakeStates]
    /\ next_local_id \in [Peers -> Nat \ {0}]
    /\ streams \in [Peers -> [Ids -> StreamRecord]]
    /\ seen \in [Peers -> SUBSET Ids]
TransportTyped == StateTyped /\ FlightTyped

LEMMA OtherPeer ==
    ASSUME NEW p \in Peers
    PROVE  Other(p) \in Peers /\ Other(p) # p /\ Other(Other(p)) = p
  BY DEF Other, Peers

LEMMA InitTyped == TransportInit => TransportTyped
  <1> SUFFICES ASSUME TransportInit PROVE TransportTyped
    OBVIOUS
  <1>1. NoStream \in StreamRecord
    BY DEF NoStream, StreamRecord
  <1> QED
    BY <1>1 DEF TransportInit, TransportTyped, StateTyped, FlightTyped, HandshakeStates, Peers

\* The frames the calls and answers put into a buffer.
LEMMA FramesTyped ==
    /\ \A type \in {"Hello", "Welcome", "Error"} : Control(type) \in WireFrame
    /\ \A type \in {"Ping", "Pong"}, n \in Int : Frame(type, 0, n) \in WireFrame
    /\ \A type \in StreamFrames, i \in Ids, n \in Int : Frame(type, i, n) \in WireFrame
  BY DEF Control, Frame, WireFrame, FrameTypes, ControlTypes, StreamFrames

-----------------------------------------------------------------------------
(* Room in the write buffers.                                              *)

\* A buffer that stays has not reached the threshold.
RoomInv ==
    buffered \in [Peers -> Nat] /\ \A p \in Peers : buffered[p] < FlushThreshold

\* Any frame but a ping fits behind such a buffer.
LEMMA SmallFits ==
    ASSUME RoomInv, NEW p \in Peers, NEW f,
           f.type = "Data" => f.n \in Sizes, f.type \notin {"Ping", "Pong"}
    PROVE  Fits(p, f)
  <1>1. buffered[p] \in Nat /\ buffered[p] < FlushThreshold
    BY DEF RoomInv
  <1>2. PICK n : n = f.n
    OBVIOUS
  <1>3. CASE f.type = "Data"
    <2>1. Size(f) = HeaderSize + n /\ n \in 1 .. DefaultWindow
      BY <1>2, <1>3 DEF Size, Sizes
    <2> QED
      BY <1>1, <2>1, TransportAssumption DEF Fits
  <1>4. CASE f.type # "Data"
    <2>1. Size(f) = HeaderSize + 0
      BY <1>4 DEF Size
    <2> QED
      BY <1>1, <2>1, TransportAssumption DEF Fits
  <1> QED
    BY <1>3, <1>4

LEMMA FitsOfType ==
    ASSUME RoomInv, NEW p \in Peers
    PROVE  /\ \A type \in {"Hello", "Welcome", "Error"} : Fits(p, Control(type))
           /\ \A type \in {"Open", "Close", "Reset", "Window"} :
                \A i, n : Fits(p, Frame(type, i, n))
           /\ \A i : \A n \in Sizes : Fits(p, Frame("Data", i, n))
  <1>1. \A type, i, n : Frame(type, i, n).type = type /\ Frame(type, i, n).n = n
    BY DEF Frame
  <1> QED
    BY <1>1, SmallFits DEF Control

\* A buffer is emptied, stays, or grows below the threshold.
LEMMA RoomMoves ==
    ASSUME RoomInv, NEW p \in Peers,
           \/ UNCHANGED buffered
           \/ buffered' = [buffered EXCEPT ![p] = 0]
           \/ \E f : Size(f) \in Nat /\ BufferFrame(p, f)
    PROVE  RoomInv'
  <1>1. buffered \in [Peers -> Nat] /\ FlushThreshold \in Nat /\ 0 < FlushThreshold
    BY TransportAssumption DEF RoomInv
  <1>2. CASE UNCHANGED buffered \/ buffered' = [buffered EXCEPT ![p] = 0]
    BY <1>1, <1>2 DEF RoomInv
  <1>3. ASSUME NEW f, Size(f) \in Nat, BufferFrame(p, f), ~UNCHANGED buffered,
               buffered' # [buffered EXCEPT ![p] = 0]
        PROVE  RoomInv'
    <2>1. PICK n : n = buffered[p] + Size(f)
      OBVIOUS
    <2>2. ~(n >= FlushThreshold) /\ buffered' = [buffered EXCEPT ![p] = n]
      BY <1>3, <2>1 DEF BufferFrame, Flushed, connVars
    <2>3. n \in Nat /\ n < FlushThreshold
      BY <1>1, <1>3, <2>1, <2>2
    <2> QED
      BY <1>1, <2>2, <2>3 DEF RoomInv
  <1> QED
    BY <1>2, <1>3

-----------------------------------------------------------------------------
(* What the operations of the buffers do to the frames in flight.          *)

Keeps(p) == InFlight(p)' = InFlight(p)
Sends(p, f) == InFlight(p)' = Append(InFlight(p), f)
Takes(p) == InFlight(p) # << >> /\ InFlight(p)' = Tail(InFlight(p))

LEMMA FlightIsSeq ==
    ASSUME FlightTyped, NEW p \in Peers
    PROVE  InFlight(p) \in Seq(WireFrame)
  BY DEF FlightTyped, InFlight

\* Flushing keeps what is in flight; with a new frame, the frame goes behind.
LEMMA FlushedFlight ==
    ASSUME FlightTyped, NEW p \in Peers, NEW s \in Seq(WireFrame), Flushed(p, s)
    PROVE  /\ InFlight(p)' = wire[p] \o s
           /\ Keeps(Other(p))
           /\ FlightTyped'
  <1>1. /\ wire[p] \in Seq(WireFrame)
        /\ wire[p] \o s \in Seq(WireFrame)
    BY DEF FlightTyped
  <1>2. wire'[p] = wire[p] \o s /\ write_buffer'[p] = << >>
    BY DEF Flushed, FlightTyped
  <1>3. InFlight(p)' = wire[p] \o s
    BY <1>1, <1>2 DEF InFlight
  <1>4. wire'[Other(p)] = wire[Other(p)] /\ write_buffer'[Other(p)] = write_buffer[Other(p)]
    BY OtherPeer DEF Flushed, FlightTyped
  <1>5. Keeps(Other(p))
    BY <1>4 DEF Keeps, InFlight
  <1>6. FlightTyped'
    BY <1>1 DEF Flushed, FlightTyped
  <1> QED
    BY <1>3, <1>5, <1>6

LEMMA BehindFlight ==
    ASSUME FlightTyped, NEW p \in Peers, NEW f \in WireFrame
    PROVE  /\ Append(write_buffer[p], f) \in Seq(WireFrame)
           /\ wire[p] \o Append(write_buffer[p], f) = Append(InFlight(p), f)
  BY DEF FlightTyped, InFlight

LEMMA SendFrameFlight ==
    ASSUME FlightTyped, NEW p \in Peers, NEW f \in WireFrame, SendFrame(p, f), Fits(p, f)
    PROVE  Sends(p, f) /\ Keeps(Other(p)) /\ FlightTyped'
  BY BehindFlight, FlushedFlight DEF SendFrame, Sends

LEMMA BufferFrameFlight ==
    ASSUME FlightTyped, NEW p \in Peers, NEW f \in WireFrame, BufferFrame(p, f), Fits(p, f)
    PROVE  Sends(p, f) /\ Keeps(Other(p)) /\ FlightTyped'
  <1>1. CASE Flushed(p, Append(write_buffer[p], f))
    BY <1>1, BehindFlight, FlushedFlight DEF Sends
  <1>2. CASE /\ write_buffer' = [write_buffer EXCEPT ![p] = Append(@, f)]
             /\ UNCHANGED wire
    <2>1. FlightTyped'
      BY <1>2 DEF FlightTyped
    <2>2. Sends(p, f)
      BY <1>2, BehindFlight DEF Sends, InFlight, FlightTyped
    <2>3. Keeps(Other(p))
      BY <1>2, OtherPeer DEF Keeps, InFlight, FlightTyped
    <2> QED
      BY <2>1, <2>2, <2>3
  <1> QED
    BY <1>1, <1>2 DEF BufferFrame

LEMMA FlushFlight ==
    ASSUME FlightTyped, NEW p \in Peers, Flushed(p, write_buffer[p])
    PROVE  Keeps(p) /\ Keeps(Other(p)) /\ FlightTyped'
  <1>1. write_buffer[p] \in Seq(WireFrame)
    BY DEF FlightTyped
  <1> QED
    BY <1>1, FlushedFlight DEF Keeps, InFlight

\* What a failing connection still lets through was in flight before.
LEMMA FailureFlight ==
    ASSUME FlightTyped, NEW p \in Peers, ConnectionFails(p)
    PROVE  Keeps(p) /\ Keeps(Other(p)) /\ FlightTyped'
  <1> DEFINE b == write_buffer[p]
  <1>1. PICK k \in 0 .. Len(b) :
          /\ wire' = [wire EXCEPT ![p] = @ \o SubSeq(b, 1, k)]
          /\ write_buffer' = [write_buffer EXCEPT ![p] = SubSeq(@, k + 1, Len(@))]
    BY DEF ConnectionFails
  <1>2. b \in Seq(WireFrame) /\ wire[p] \in Seq(WireFrame) /\ Len(b) \in Nat /\ k \in Int
    BY LenProperties DEF FlightTyped
  <1>3. PICK c, d : c = SubSeq(b, 1, k) /\ d = SubSeq(b, k + 1, Len(b))
    OBVIOUS
  <1>4. c \in Seq(WireFrame) /\ d \in Seq(WireFrame) /\ c \o d = b
    <2> HIDE DEF b
    <2>1. /\ 1 \in 1 .. Len(b) + 1 /\ k \in 1 - 1 .. Len(b) /\ k + 1 \in 1 .. Len(b) + 1
          /\ Len(b) \in k .. Len(b) /\ \A j \in 1 .. k : j \in 1 .. Len(b)
          /\ \A j \in k + 1 .. Len(b) : j \in 1 .. Len(b)
      BY <1>2
    <2>2. c \in Seq(WireFrame) /\ d \in Seq(WireFrame)
      BY <1>2, <1>3, <2>1, SubSeqProperties
    <2>3. c \o d = SubSeq(b, 1, Len(b))
      BY <1>2, <1>3, <2>1, ConcatAdjacentSubSeq
    <2> QED
      BY <1>2, <2>2, <2>3, SubSeqFull
  <1>5. /\ wire'[p] = wire[p] \o c /\ write_buffer'[p] = d
        /\ wire'[Other(p)] = wire[Other(p)] /\ write_buffer'[Other(p)] = write_buffer[Other(p)]
    BY <1>1, <1>3, OtherPeer DEF FlightTyped
  <1>6. FlightTyped'
    <2>1. wire[p] \o c \in Seq(WireFrame)
      BY <1>2, <1>4, ConcatProperties
    <2>2. /\ wire' = [wire EXCEPT ![p] = wire[p] \o c]
          /\ write_buffer' = [write_buffer EXCEPT ![p] = d]
      BY <1>1, <1>3 DEF FlightTyped
    <2> QED
      BY <1>4, <2>1, <2>2 DEF FlightTyped
  <1>7. (wire[p] \o c) \o d = wire[p] \o b
    <2>1. PICK a : a = wire[p]
      OBVIOUS
    <2>2. a \in Seq(WireFrame) /\ c \in Seq(WireFrame) /\ d \in Seq(WireFrame)
      BY <1>2, <1>4, <2>1
    <2>3. (a \o c) \o d = a \o (c \o d)
      BY ONLY <2>2, ConcatAssociative
    <2> QED
      BY <1>4, <2>1, <2>3, Zenon
  <1> QED
    BY <1>5, <1>6, <1>7 DEF Keeps, InFlight

\* The head of a concatenation, and what is behind it.
LEMMA ConcatHead ==
    ASSUME NEW S, NEW s \in Seq(S), NEW t \in Seq(S), s # << >>
    PROVE  /\ s \o t # << >>
           /\ Head(s) = (s \o t)[1]
           /\ Tail(s) \o t = Tail(s \o t)
  <1>1. Len(s) \in Nat \ {0} /\ Len(t) \in Nat
    BY EmptySeq, LenProperties
  <1>2. /\ s \o t \in Seq(S) /\ Len(s \o t) = Len(s) + Len(t)
        /\ \A i \in 1 .. Len(s) + Len(t) :
             (s \o t)[i] = IF i <= Len(s) THEN s[i] ELSE t[i - Len(s)]
    BY ConcatProperties
  <1>3. s \o t # << >>
    BY <1>1, <1>2, EmptySeq
  <1>4. Head(s) = (s \o t)[1]
    BY <1>1, <1>2, HeadTailProperties
  <1>5. /\ Tail(s) \in Seq(S) /\ Len(Tail(s)) = Len(s) - 1
        /\ \A i \in 1 .. Len(Tail(s)) : Tail(s)[i] = s[i + 1]
    BY HeadTailProperties
  <1>6. /\ Tail(s) \o t \in Seq(S) /\ Len(Tail(s) \o t) = Len(Tail(s)) + Len(t)
        /\ \A i \in 1 .. Len(Tail(s)) + Len(t) :
             (Tail(s) \o t)[i] = IF i <= Len(Tail(s)) THEN Tail(s)[i] ELSE t[i - Len(Tail(s))]
    BY <1>5, ConcatProperties
  <1>7. /\ Tail(s \o t) \in Seq(S) /\ Len(Tail(s \o t)) = Len(s \o t) - 1
        /\ \A i \in 1 .. Len(Tail(s \o t)) : Tail(s \o t)[i] = (s \o t)[i + 1]
    BY <1>2, <1>3, HeadTailProperties
  <1>8. Len(Tail(s) \o t) = Len(Tail(s \o t))
    BY <1>1, <1>2, <1>5, <1>6, <1>7
  <1>9. \A i \in 1 .. Len(Tail(s) \o t) : (Tail(s) \o t)[i] = Tail(s \o t)[i]
    BY <1>1, <1>2, <1>5, <1>6, <1>7
  <1>10. Tail(s) \o t = Tail(s \o t)
    BY <1>6, <1>7, <1>8, <1>9, SeqEqual
  <1> QED
    BY <1>3, <1>4, <1>10

\* The frame an end takes is the oldest in flight from its peer.
LEMMA OldestFlight ==
    ASSUME FlightTyped, NEW p \in Peers, wire[p] # << >>
    PROVE  /\ InFlight(p) # << >>
           /\ Head(wire[p]) = InFlight(p)[1]
           /\ Head(wire[p]) \in WireFrame
           /\ Tail(wire[p]) \in Seq(WireFrame)
           /\ Tail(wire[p]) \o write_buffer[p] = Tail(InFlight(p))
  <1>1. wire[p] \in Seq(WireFrame) /\ write_buffer[p] \in Seq(WireFrame)
    BY DEF FlightTyped
  <1>2. Tail(wire[p]) \in Seq(WireFrame) /\ Head(wire[p]) \in WireFrame
    BY <1>1, HeadTailProperties
  <1> QED
    BY <1>1, <1>2, ConcatHead DEF InFlight

LEMMA TakeFrameFlight ==
    ASSUME FlightTyped, NEW p \in Peers, wire[Other(p)] # << >>, TakeFrame(p)
    PROVE  /\ Takes(Other(p)) /\ Keeps(p) /\ FlightTyped'
           /\ Incoming(p) = InFlight(Other(p))[1] /\ Incoming(p) \in WireFrame
  <1> DEFINE q == Other(p)
  <1>1. q \in Peers /\ q # p
    BY OtherPeer
  <1>2. wire'[q] = Tail(wire[q]) /\ wire'[p] = wire[p] /\ write_buffer' = write_buffer
    BY <1>1 DEF TakeFrame, FlightTyped
  <1>3. Takes(q) /\ Keeps(p)
    BY <1>1, <1>2, OldestFlight DEF Takes, Keeps, InFlight
  <1>4. FlightTyped'
    BY <1>1, OldestFlight DEF TakeFrame, FlightTyped
  <1> QED
    BY <1>1, <1>3, <1>4, OldestFlight DEF Incoming

LEMMA TakeAndAnswerFlight ==
    ASSUME FlightTyped, NEW p \in Peers, NEW f \in WireFrame,
           wire[Other(p)] # << >>, TakeAndAnswer(p, f)
    PROVE  /\ Takes(Other(p)) /\ Sends(p, f) /\ FlightTyped'
           /\ Incoming(p) = InFlight(Other(p))[1] /\ Incoming(p) \in WireFrame
  <1> DEFINE q == Other(p)
             s == Append(write_buffer[p], f)
  <1>1. q \in Peers /\ q # p
    BY OtherPeer
  <1>2. s \in Seq(WireFrame) /\ wire[p] \o s = Append(InFlight(p), f)
    BY BehindFlight
  <1>3. wire[p] \o s \in Seq(WireFrame)
    BY <1>2, ConcatProperties DEF FlightTyped
  <1> HIDE DEF s
  <1>4. /\ wire'[q] = Tail(wire[q]) /\ wire'[p] = wire[p] \o s
        /\ write_buffer'[p] = << >> /\ write_buffer'[q] = write_buffer[q]
    BY <1>1 DEF TakeAndAnswer, FlightTyped, s
  <1>5. Takes(q)
    BY <1>1, <1>4, OldestFlight DEF Takes, InFlight
  <1>6. Sends(p, f)
    BY <1>2, <1>3, <1>4 DEF Sends, InFlight
  <1>7. FlightTyped'
    <2>1. wire[p] \o s \in Seq(WireFrame) /\ Tail(wire[q]) \in Seq(WireFrame)
      BY <1>1, <1>3, OldestFlight
    <2>2. wire' = [[wire EXCEPT ![q] = Tail(wire[q])] EXCEPT ![p] = wire[p] \o s]
      BY <1>1 DEF TakeAndAnswer, FlightTyped, s
    <2>3. wire' \in [Peers -> Seq(WireFrame)]
      BY <2>1, <2>2 DEF FlightTyped
    <2>4. write_buffer' \in [Peers -> Seq(WireFrame)]
      BY DEF TakeAndAnswer, FlightTyped
    <2> QED
      BY <2>3, <2>4 DEF FlightTyped
  <1> QED
    BY <1>1, <1>5, <1>6, <1>7, OldestFlight DEF Incoming

-----------------------------------------------------------------------------
(* The kinds of steps.  Of a stream only its state matters.                *)

Steady == UNCHANGED <<handshake_state, next_local_id, seen>>
TakesType(p, type) == Takes(Other(p)) /\ InFlight(Other(p))[1].type = type

\* The stream i of p is now in state st, and no other changed its state.
StateSet(p, i, st) ==
    /\ streams'[p][i].state = st
    /\ \A j \in Ids \ {i} : streams'[p][j].state = streams[p][j].state
    /\ \A j \in Ids : streams'[Other(p)][j].state = streams[Other(p)][j].state

Greets(p) ==
    /\ p = "Initiator" /\ handshake_state[p] = "AwaitingHello"
    /\ handshake_state' = [handshake_state EXCEPT ![p] = "AwaitingWelcome"]
    /\ UNCHANGED <<next_local_id, streams, seen>>
    /\ Sends(p, Control("Hello")) /\ Keeps(Other(p))

AnswersHello(p) ==
    /\ p = "Acceptor" /\ handshake_state[p] = "AwaitingHello"
    /\ handshake_state' = [handshake_state EXCEPT ![p] = "Established"]
    /\ UNCHANGED <<next_local_id, streams, seen>>
    /\ TakesType(p, "Hello") /\ Sends(p, Control("Welcome"))

TakesWelcome(p) ==
    /\ p = "Initiator" /\ handshake_state[p] = "AwaitingWelcome"
    /\ handshake_state' = [handshake_state EXCEPT ![p] = "Established"]
    /\ UNCHANGED <<next_local_id, streams, seen>>
    /\ TakesType(p, "Welcome") /\ Keeps(p)

Opens(p) ==
    /\ Established(p) /\ next_local_id[p] \in Ids
    /\ next_local_id' = [next_local_id EXCEPT ![p] = @ + 2]
    /\ StateSet(p, next_local_id[p], "Open")
    /\ seen' = [seen EXCEPT ![p] = @ \cup {next_local_id[p]}]
    /\ UNCHANGED handshake_state
    /\ Sends(p, Frame("Open", next_local_id[p], 0)) /\ Keeps(Other(p))

TakesOpen(p, i) ==
    /\ Established(p) /\ i \in Ids /\ OpenAccepted(p, i)
    /\ StateSet(p, i, "Open")
    /\ seen' = [seen EXCEPT ![p] = @ \cup {i}]
    /\ UNCHANGED <<handshake_state, next_local_id>>
    /\ TakesType(p, "Open") /\ InFlight(Other(p))[1].id = i /\ Keeps(p)

\* A call on a stream sends a frame of this type, or none.
Uses(p, i, type) ==
    /\ Established(p) /\ i \in Ids /\ Has(p, i) /\ Steady
    /\ \/ type = "Data" /\ CanSend(streams[p][i]) /\ StateSet(p, i, streams[p][i].state)
       \/ type = "Close" /\ StateSet(p, i, OnLocalClose(streams[p][i]).state)
       \/ type = "Reset" /\ StateSet(p, i, "None")
       \/ type = "Window" /\ StateSet(p, i, streams[p][i].state)
    /\ Keeps(p) \/ \E n \in Int : Sends(p, Frame(type, i, n))
    /\ Keeps(Other(p))

TakesUse(p, i, type) ==
    /\ Established(p) /\ i \in Ids /\ Steady
    /\ \/ type = "Close" /\ Has(p, i) /\ StateSet(p, i, OnRemoteClose(streams[p][i]).state)
       \/ type = "Reset" /\ StateSet(p, i, "None")
       \/ type \in {"Data", "Window"} /\ StateSet(p, i, streams[p][i].state)
    /\ TakesType(p, type) /\ InFlight(Other(p))[1].id = i /\ Keeps(p)

Idles(p) ==
    /\ Steady /\ UNCHANGED streams
    /\ \/ Keeps(p)
       \/ \E type \in {"Ping", "Pong"}, n \in Int : Sends(p, Frame(type, 0, n))
    /\ Keeps(Other(p)) \/ \E type \in {"Ping", "Pong"} : TakesType(p, type)

Refuses(p) ==
    /\ Steady /\ UNCHANGED streams
    /\ Takes(Other(p)) /\ Refusal(p, InFlight(Other(p))[1]) \notin {"none", "BufferOverflow"}
    /\ \/ Keeps(p)
       \/ /\ p = "Acceptor" /\ ~Established(p) /\ Sends(p, Control("Error"))
          /\ InFlight(Other(p))[1].type \in StreamFrames

Kind(p) ==
    \/ Greets(p) \/ AnswersHello(p) \/ TakesWelcome(p) \/ Opens(p)
    \/ \E i \in Ids :
         TakesOpen(p, i) \/ \E type \in StreamFrames : Uses(p, i, type) \/ TakesUse(p, i, type)
    \/ Idles(p) \/ Refuses(p)

\* An entry replaced by another.
LEMMA SetStreamTyped ==
    ASSUME StateTyped, NEW p \in Peers, NEW i \in Ids, NEW s \in StreamRecord,
           SetStream(p, i, s)
    PROVE  streams' \in [Peers -> [Ids -> StreamRecord]] /\ StateSet(p, i, s.state)
  <1>1. streams'[p] = [streams[p] EXCEPT ![i] = s] /\ streams'[Other(p)] = streams[Other(p)]
    BY OtherPeer DEF SetStream, StateTyped
  <1>2. streams' \in [Peers -> [Ids -> StreamRecord]]
    BY DEF SetStream, StateTyped
  <1>3. streams[p] \in [Ids -> StreamRecord]
    BY DEF StateTyped
  <1> QED
    BY <1>1, <1>2, <1>3 DEF StateSet

LEMMA EntriesTyped ==
    /\ NewStream \in StreamRecord /\ NoStream \in StreamRecord
    /\ \A s \in StreamRecord, n \in Int :
         /\ ConsumeSendWindow(s, n) \in StreamRecord /\ ConsumeSendWindow(s, n).state = s.state
         /\ PushRecv(s, n) \in StreamRecord /\ PushRecv(s, n).state = s.state
         /\ ApplyWindow(s, n) \in StreamRecord /\ ApplyWindow(s, n).state = s.state
         /\ s.recv_queue # << >> =>
              /\ Head(s.recv_queue) \in Int
              /\ PopRecv(s) \in StreamRecord /\ PopRecv(s).state = s.state
    /\ \A s \in StreamRecord :
         OnLocalClose(s) \in StreamRecord /\ OnRemoteClose(s) \in StreamRecord
  <1>1. NewStream \in StreamRecord /\ NoStream \in StreamRecord
    BY TransportAssumption DEF NewStream, NoStream, StreamRecord, StreamStates
  <1>2. ASSUME NEW s \in StreamRecord, NEW n \in Int
        PROVE  /\ ConsumeSendWindow(s, n) \in StreamRecord
               /\ ConsumeSendWindow(s, n).state = s.state
    <2>1. s.send_window - n \in Int
      BY DEF StreamRecord
    <2> QED
      BY <2>1 DEF ConsumeSendWindow, StreamRecord
  <1>3. ASSUME NEW s \in StreamRecord, NEW n \in Int
        PROVE  PushRecv(s, n) \in StreamRecord /\ PushRecv(s, n).state = s.state
    <2>1. AtLeastZero(s.recv_window - n) \in Int /\ Append(s.recv_queue, n) \in Seq(Int)
      BY DEF AtLeastZero, StreamRecord
    <2> QED
      BY <2>1 DEF PushRecv, StreamRecord
  <1>4. ASSUME NEW s \in StreamRecord, NEW n \in Int
        PROVE  ApplyWindow(s, n) \in StreamRecord /\ ApplyWindow(s, n).state = s.state
    BY DEF ApplyWindow, StreamRecord
  <1>5. ASSUME NEW s \in StreamRecord, s.recv_queue # << >>
        PROVE  /\ Head(s.recv_queue) \in Int
               /\ PopRecv(s) \in StreamRecord /\ PopRecv(s).state = s.state
    <2>1. s.recv_queue \in Seq(Int)
      BY DEF StreamRecord
    <2>2. Head(s.recv_queue) \in Int /\ Tail(s.recv_queue) \in Seq(Int)
      BY <1>5, <2>1, HeadTailProperties
    <2>3. s.recv_window + Head(s.recv_queue) \in Int
      BY <2>2 DEF StreamRecord
    <2> QED
      BY <2>2, <2>3 DEF PopRecv, StreamRecord
  <1>6. ASSUME NEW s \in StreamRecord
        PROVE  OnLocalClose(s) \in StreamRecord /\ OnRemoteClose(s) \in StreamRecord
    BY <1>1 DEF OnLocalClose, OnRemoteClose, StreamRecord, StreamStates
  <1> QED
    BY <1>1, <1>2, <1>3, <1>4, <1>5, <1>6

\* The types, and the kind of each call.
LEMMA CallKind ==
    ASSUME TransportTyped, RoomInv, NEW p \in Peers, Call(p)
    PROVE  TransportTyped' /\ Kind(p)
  <1> DEFINE q == Other(p)
  <1>0. StateTyped /\ FlightTyped
    BY DEF TransportTyped
  <1>1. CASE StartHandshake(p)
    <2>1. SendFrame(p, Control("Hello")) /\ Control("Hello") \in WireFrame
      BY <1>1, FramesTyped DEF StartHandshake
    <2>2. Sends(p, Control("Hello")) /\ Keeps(q) /\ FlightTyped'
      BY <1>0, <2>1, FitsOfType, SendFrameFlight
    <2>3. StateTyped'
      BY <1>0, <1>1 DEF StartHandshake, StateTyped, HandshakeStates
    <2>4. Greets(p)
      BY <1>1, <2>2 DEF StartHandshake, Greets
    <2> QED
      BY <2>2, <2>3, <2>4 DEF TransportTyped, Kind
  <1>2. CASE OpenStream(p)
    <2> DEFINE i == next_local_id[p]
    <2>1. i \in Ids /\ NextId(p) \in Nat \ {0}
      BY <1>0, <1>2, TransportAssumption DEF OpenStream, NextId, Ids, StateTyped
    <2>2. Frame("Open", i, 0) \in WireFrame
      BY <2>1, FramesTyped DEF StreamFrames
    <2>3. Sends(p, Frame("Open", i, 0)) /\ Keeps(q) /\ FlightTyped'
      BY <1>0, <1>2, <2>2, FitsOfType, BufferFrameFlight DEF OpenStream
    <2>4. /\ streams' \in [Peers -> [Ids -> StreamRecord]]
          /\ StateSet(p, i, "Open")
      BY <1>0, <1>2, <2>1, EntriesTyped, SetStreamTyped DEF OpenStream, NewStream
    <2>5. StateTyped'
      BY <1>0, <1>2, <2>1, <2>4 DEF OpenStream, StateTyped
    <2>6. Opens(p)
      BY <1>2, <2>1, <2>3, <2>4 DEF OpenStream, Opens, NextId
    <2> QED
      BY <2>3, <2>5, <2>6 DEF TransportTyped, Kind
  <1>3. ASSUME NEW n \in PingSizes, SendPing(p, n)
        PROVE  TransportTyped' /\ Idles(p)
    <2> DEFINE f == Frame("Ping", 0, n)
    <2>1. SendFrame(p, f) /\ f \in WireFrame
      BY <1>3, FramesTyped, TransportAssumption DEF SendPing
    <2>2. Keeps(q) /\ FlightTyped' /\ (Keeps(p) \/ Sends(p, f))
      <3>1. CASE Fits(p, f)
        BY <1>0, <2>1, <3>1, SendFrameFlight
      <3>2. CASE ~Fits(p, f)
        BY <1>0, <2>1, <3>2 DEF SendFrame, connVars, Keeps, InFlight, FlightTyped
      <3> QED
        BY <3>1, <3>2
    <2>3. UNCHANGED <<handshake_state, next_local_id, streams, seen>>
      BY <1>3 DEF SendPing
    <2>4. Idles(p)
      <3>1. n \in Int
        BY TransportAssumption
      <3> QED
        BY <2>2, <2>3, <3>1 DEF Idles, Steady
    <2>5. StateTyped'
      BY <1>0, <2>3 DEF StateTyped
    <2> QED
      BY <2>2, <2>4, <2>5 DEF TransportTyped
  <1>4. CASE Flush(p)
    <2>1. Keeps(p) /\ Keeps(q) /\ FlightTyped'
      BY <1>0, <1>4, FlushFlight DEF Flush
    <2>2. StateTyped' /\ Idles(p)
      BY <1>0, <1>4, <2>1 DEF Flush, StateTyped, Idles, Steady
    <2> QED
      BY <2>1, <2>2 DEF TransportTyped, Kind
  <1>5. ASSUME NEW i \in Ids, NEW type \in StreamFrames, NEW s \in StreamRecord,
               Established(p), Has(p, i), SetStream(p, i, s),
               \/ Keeps(p) /\ Keeps(q) /\ FlightTyped'
               \/ \E n \in Int : /\ type = "Data" => n \in Sizes
                               /\ \/ SendFrame(p, Frame(type, i, n))
                                  \/ BufferFrame(p, Frame(type, i, n)),
               UNCHANGED <<handshake_state, next_local_id, seen>>,
               \/ type = "Data" /\ CanSend(streams[p][i]) /\ s.state = streams[p][i].state
               \/ type = "Close" /\ s.state = OnLocalClose(streams[p][i]).state
               \/ type = "Reset" /\ s.state = "None"
               \/ type = "Window" /\ s.state = streams[p][i].state
        PROVE  TransportTyped' /\ Uses(p, i, type)
    <2>1. /\ streams' \in [Peers -> [Ids -> StreamRecord]]
          /\ StateSet(p, i, s.state)
      BY <1>0, <1>5, SetStreamTyped
    <2>2. StateTyped'
      BY <1>0, <1>5, <2>1 DEF StateTyped
    <2>3. \A n \in Int :
            /\ Frame(type, i, n) \in WireFrame
            /\ (type = "Data" => n \in Sizes) => Fits(p, Frame(type, i, n))
      BY <1>5, FramesTyped, FitsOfType DEF StreamFrames
    <2>4. /\ Keeps(q) /\ FlightTyped'
          /\ Keeps(p) \/ \E n \in Int : Sends(p, Frame(type, i, n))
      BY <1>0, <1>5, <2>3, SendFrameFlight, BufferFrameFlight
    <2> QED
      BY <1>5, <2>1, <2>2, <2>4 DEF Uses, Steady, TransportTyped
  <1>6. ASSUME NEW i \in Ids, CloseStream(p, i)
        PROVE  TransportTyped' /\ Uses(p, i, "Close")
    <2>1. OnLocalClose(streams[p][i]) \in StreamRecord
      BY <1>0, EntriesTyped DEF StateTyped
    <2> QED
      BY <1>5, <1>6, <2>1 DEF CloseStream, StreamFrames
  <1>7. ASSUME NEW i \in Ids, ResetStream(p, i)
        PROVE  TransportTyped' /\ Uses(p, i, "Reset")
    <2>1. NoStream \in StreamRecord /\ NoStream.state = "None"
      BY EntriesTyped DEF NoStream
    <2> QED
      BY <1>5, <1>7, <2>1 DEF ResetStream, StreamFrames
  <1>8. ASSUME NEW i \in Ids, RecvData(p, i)
        PROVE  TransportTyped' /\ Uses(p, i, "Window")
    <2>1. /\ PopRecv(streams[p][i]) \in StreamRecord
          /\ PopRecv(streams[p][i]).state = streams[p][i].state
          /\ Head(streams[p][i].recv_queue) \in Int
      <3>1. streams[p][i] \in StreamRecord /\ streams[p][i].recv_queue # << >>
        BY <1>0, <1>8 DEF RecvData, StateTyped
      <3> QED
        BY <3>1, EntriesTyped, 0 \in Int
    <2>2. ASSUME UNCHANGED connVars
          PROVE  Keeps(p) /\ Keeps(q) /\ FlightTyped'
      BY <1>0, <2>2 DEF connVars, Keeps, InFlight, FlightTyped
    <2> QED
      BY <1>5, <1>8, <2>1, <2>2 DEF RecvData, StreamFrames
  <1>9. ASSUME NEW i \in Ids, NEW n \in Sizes, SendData(p, i, n)
        PROVE  TransportTyped' /\ Uses(p, i, "Data")
    <2>1. n \in Int
      BY TransportAssumption DEF Sizes
    <2>2. PICK t : t = ConsumeSendWindow(streams[p][i], n)
      OBVIOUS
    <2>3. t \in StreamRecord /\ t.state = streams[p][i].state
      BY <1>0, <2>1, <2>2, EntriesTyped DEF StateTyped
    <2>4. /\ Established(p) /\ Has(p, i) /\ CanSend(streams[p][i]) /\ SetStream(p, i, t)
          /\ BufferFrame(p, Frame("Data", i, n))
          /\ UNCHANGED <<handshake_state, next_local_id, seen>>
      BY <1>9, <2>2 DEF SendData
    <2> QED
      BY <1>5, <2>1, <2>3, <2>4 DEF StreamFrames
  <1> QED
    BY <1>1, <1>2, <1>3, <1>4, <1>6, <1>7, <1>8, <1>9 DEF Call, Kind, StreamFrames

\* Only a ping finds no room for its answer.
LEMMA OverflowIsPing ==
    ASSUME RoomInv, NEW p \in Peers, NEW f, Refusal(p, f) = "BufferOverflow"
    PROVE  f.type = "Ping" /\ ~Fits(p, Answer(f))
  <1>1. f.type \in {"Ping", "Hello"} /\ ~Fits(p, Answer(f))
    BY DEF Refusal
  <1>2. Fits(p, Control("Welcome"))
    BY FitsOfType
  <1> QED
    BY <1>1, <1>2 DEF Answer

\* The types, and the kind of each frame's handling.
LEMMA RecvKind ==
    ASSUME TransportTyped, RoomInv, NEW p \in Peers, RecvFrame(p)
    PROVE  TransportTyped' /\ Kind(p)
  <1> DEFINE q == Other(p)
             f == Incoming(p)
  <1>0. StateTyped /\ FlightTyped
    BY DEF TransportTyped
  <1>1. ASSUME NEW type, Accepts(p, type), TakeFrame(p)
        PROVE  TakesType(p, type) /\ Keeps(p) /\ FlightTyped' /\ f = InFlight(q)[1] /\ f \in WireFrame
    BY <1>0, <1>1, TakeFrameFlight DEF Accepts, TakesType
  <1>2. ASSUME NEW type, NEW answer \in WireFrame, Accepts(p, type), TakeAndAnswer(p, answer)
        PROVE  TakesType(p, type) /\ Sends(p, answer) /\ FlightTyped'
    BY <1>0, <1>2, TakeAndAnswerFlight DEF Accepts, TakesType
  <1>3. CASE RecvHello(p)
    <2>0. Answer(f) = Control("Welcome")
      BY <1>3 DEF RecvHello, Accepts, Answer
    <2>1. TakesType(p, "Hello") /\ Sends(p, Control("Welcome")) /\ FlightTyped'
      BY <1>2, <1>3, <2>0, FramesTyped DEF RecvHello
    <2>2. StateTyped'
      BY <1>0, <1>3 DEF RecvHello, StateTyped, HandshakeStates
    <2>3. p = "Acceptor" /\ handshake_state[p] = "AwaitingHello"
      BY <1>3 DEF RecvHello, Accepts, Refusal
    <2>4. AnswersHello(p)
      BY <1>3, <2>1, <2>3 DEF RecvHello, AnswersHello
    <2> QED
      BY <2>1, <2>2, <2>4 DEF TransportTyped, Kind
  <1>4. CASE RecvWelcome(p)
    <2>1. TakesType(p, "Welcome") /\ Keeps(p) /\ FlightTyped'
      BY <1>1, <1>4 DEF RecvWelcome
    <2>2. StateTyped'
      BY <1>0, <1>4 DEF RecvWelcome, StateTyped, HandshakeStates
    <2>3. p = "Initiator" /\ handshake_state[p] = "AwaitingWelcome"
      BY <1>4 DEF RecvWelcome, Accepts, Refusal
    <2>4. TakesWelcome(p)
      BY <1>4, <2>1, <2>3 DEF RecvWelcome, TakesWelcome
    <2> QED
      BY <2>1, <2>2, <2>4 DEF TransportTyped, Kind
  <1>5. CASE RecvPing(p)
    <2>0. Answer(f) = Frame("Pong", 0, f.n) /\ f.n \in Int
      BY <1>0, <1>5, OtherPeer, OldestFlight DEF RecvPing, Accepts, Answer, Incoming, WireFrame
    <2>1. TakesType(p, "Ping") /\ Sends(p, Frame("Pong", 0, f.n)) /\ FlightTyped'
      BY <1>2, <1>5, <2>0, FramesTyped DEF RecvPing
    <2>2. StateTyped' /\ Idles(p)
      BY <1>0, <1>5, <2>0, <2>1 DEF RecvPing, StateTyped, Idles, Steady
    <2> QED
      BY <2>1, <2>2 DEF TransportTyped, Kind
  <1>6. CASE RecvPong(p)
    <2>1. TakesType(p, "Pong") /\ Keeps(p) /\ FlightTyped'
      BY <1>1, <1>6 DEF RecvPong
    <2>2. StateTyped' /\ Idles(p)
      BY <1>0, <1>6, <2>1 DEF RecvPong, StateTyped, Idles, Steady
    <2> QED
      BY <2>1, <2>2 DEF TransportTyped, Kind
  <1>7. CASE RecvOpen(p)
    <2>1. TakesType(p, "Open") /\ Keeps(p) /\ FlightTyped' /\ f = InFlight(q)[1] /\ f \in WireFrame
      BY <1>1, <1>7 DEF RecvOpen
    <2>2. f.type = "Open" /\ f.id \in Ids
      BY <1>7, <2>1 DEF RecvOpen, Accepts, WireFrame, StreamFrames
    <2>3. Established(p) /\ OpenAccepted(p, f.id)
      BY <1>7, <2>2 DEF RecvOpen, Accepts, Refusal, ControlTypes
    <2>4. streams' \in [Peers -> [Ids -> StreamRecord]] /\ StateSet(p, f.id, "Open")
      BY <1>0, <1>7, <2>2, EntriesTyped, SetStreamTyped DEF RecvOpen, NewStream
    <2>5. StateTyped'
      BY <1>0, <1>7, <2>2, <2>4 DEF RecvOpen, StateTyped
    <2>6. TakesOpen(p, f.id)
      BY <1>7, <2>1, <2>2, <2>3, <2>4 DEF RecvOpen, TakesOpen
    <2> QED
      BY <2>1, <2>2, <2>5, <2>6 DEF TransportTyped, Kind
  <1>8. ASSUME NEW type \in StreamFrames, NEW s \in StreamRecord,
               Accepts(p, type), TakeFrame(p), SetStream(p, f.id, s),
               UNCHANGED <<handshake_state, next_local_id, seen>>,
               \/ type = "Close" /\ s.state = OnRemoteClose(streams[p][f.id]).state
               \/ type = "Reset" /\ s.state = "None"
               \/ type \in {"Data", "Window"} /\ s.state = streams[p][f.id].state
        PROVE  TransportTyped' /\ Kind(p)
    <2>1. TakesType(p, type) /\ Keeps(p) /\ FlightTyped' /\ f = InFlight(q)[1] /\ f \in WireFrame
      BY <1>1, <1>8
    <2>2. f.type = type /\ f.id \in Ids
      BY <1>8, <2>1 DEF Accepts, WireFrame
    <2>3. Established(p) /\ (type = "Close" => Has(p, f.id))
      BY <1>8, <2>2 DEF Accepts, Refusal, ControlTypes, StreamFrames
    <2>4. streams' \in [Peers -> [Ids -> StreamRecord]] /\ StateSet(p, f.id, s.state)
      BY <1>0, <1>8, <2>2, SetStreamTyped
    <2>5. StateTyped'
      BY <1>0, <1>8, <2>4 DEF StateTyped
    <2>6. TakesUse(p, f.id, type)
      BY <1>8, <2>1, <2>2, <2>3, <2>4 DEF TakesUse, Steady
    <2> QED
      BY <2>1, <2>2, <2>5, <2>6 DEF TransportTyped, Kind
  <1>9. ASSUME NEW type \in StreamFrames, Accepts(p, type), TakeFrame(p)
        PROVE  f \in WireFrame /\ f.n \in Int /\ streams[p][f.id] \in StreamRecord
    BY <1>0, <1>1, <1>9 DEF Accepts, WireFrame, StateTyped
  <1>10. CASE RecvStreamData(p)
    <2>1. Accepts(p, "Data") /\ TakeFrame(p) /\ SetStream(p, f.id, PushRecv(streams[p][f.id], f.n))
      BY <1>10 DEF RecvStreamData, RecvOnStream
    <2>2. /\ PushRecv(streams[p][f.id], f.n) \in StreamRecord
          /\ PushRecv(streams[p][f.id], f.n).state = streams[p][f.id].state
      BY <1>9, <2>1, EntriesTyped DEF StreamFrames
    <2> QED
      BY <1>8, <1>10, <2>1, <2>2 DEF RecvStreamData, RecvOnStream, StreamFrames
  <1>11. CASE RecvClose(p)
    <2>1. Accepts(p, "Close") /\ TakeFrame(p) /\ SetStream(p, f.id, OnRemoteClose(streams[p][f.id]))
      BY <1>11 DEF RecvClose, RecvOnStream
    <2>2. OnRemoteClose(streams[p][f.id]) \in StreamRecord
      BY <1>9, <2>1, EntriesTyped DEF StreamFrames
    <2> QED
      BY <1>8, <1>11, <2>1, <2>2 DEF RecvClose, RecvOnStream, StreamFrames
  <1>12. CASE RecvWindow(p)
    <2>1. Accepts(p, "Window") /\ TakeFrame(p) /\ SetStream(p, f.id, ApplyWindow(streams[p][f.id], f.n))
      BY <1>12 DEF RecvWindow, RecvOnStream
    <2>2. /\ ApplyWindow(streams[p][f.id], f.n) \in StreamRecord
          /\ ApplyWindow(streams[p][f.id], f.n).state = streams[p][f.id].state
      BY <1>9, <2>1, EntriesTyped DEF StreamFrames
    <2> QED
      BY <1>8, <1>12, <2>1, <2>2 DEF RecvWindow, RecvOnStream, StreamFrames
  <1>13. CASE RecvReset(p)
    <2>1. Accepts(p, "Reset") /\ TakeFrame(p) /\ SetStream(p, f.id, NoStream)
      BY <1>13 DEF RecvReset, RecvOnStream
    <2>2. NoStream \in StreamRecord /\ NoStream.state = "None"
      BY EntriesTyped DEF NoStream
    <2> QED
      BY <1>8, <1>13, <2>1, <2>2 DEF RecvReset, RecvOnStream, StreamFrames
  <1>14. CASE RecvRefused(p)
    <2>1. wire[q] # << >> /\ Refusal(p, f) # "none" /\ Steady /\ UNCHANGED streams /\ StateTyped'
      BY <1>0, <1>14 DEF RecvRefused, Steady, StateTyped
    <2>2. CASE TakeFrame(p)
      <3>1. Takes(q) /\ Keeps(p) /\ FlightTyped' /\ f = InFlight(q)[1]
        BY <1>0, <2>1, <2>2, TakeFrameFlight
      <3>2. CASE Refusal(p, f) # "BufferOverflow"
        BY <2>1, <3>1, <3>2 DEF Refuses, Kind, TransportTyped
      <3>3. CASE Refusal(p, f) = "BufferOverflow"
        <4>1. f.type = "Ping"
          BY <3>3, OverflowIsPing
        <4> QED
          BY <2>1, <3>1, <4>1 DEF Idles, TakesType, Kind, TransportTyped
      <3> QED
        BY <3>2, <3>3
    <2>3. CASE /\ p = "Acceptor" /\ ~Established(p) /\ f.type \notin ControlTypes \cup {"Error"}
               /\ TakeAndAnswer(p, Control("Error"))
      <3>1. /\ Takes(q) /\ Sends(p, Control("Error")) /\ FlightTyped'
            /\ f = InFlight(q)[1] /\ f \in WireFrame
        BY <1>0, <2>1, <2>3, FramesTyped, TakeAndAnswerFlight
      <3>2. f.type \in StreamFrames
        BY <2>3, <3>1 DEF WireFrame, FrameTypes, ControlTypes, StreamFrames
      <3>3. Refusal(p, f) # "BufferOverflow"
        BY <3>2, OverflowIsPing DEF StreamFrames
      <3> QED
        BY <2>1, <2>3, <3>1, <3>2, <3>3 DEF Refuses, Kind, TransportTyped
    <2> QED
      BY <1>14, <2>2, <2>3 DEF RecvRefused
  <1> QED
    BY <1>3, <1>4, <1>5, <1>6, <1>7, <1>10, <1>11, <1>12, <1>13, <1>14 DEF RecvFrame

-----------------------------------------------------------------------------
(* The invariants.                                                         *)

Parity(p) == IF p = "Initiator" THEN 1 ELSE 0

\* Some frame of s, before place k, has this type; is an Open of this id.
Before(s, k, type) == \E j \in DOMAIN s : j < k /\ s[j].type = type
OpenBefore(s, k, i) == \E j \in DOMAIN s : j < k /\ s[j].type = "Open" /\ s[j].id = i
Opening(s, i) == \E j \in DOMAIN s : s[j].type = "Open" /\ s[j].id = i
Includes(s, type) == \E j \in DOMAIN s : s[j].type = type

\* A frame at place k from p says how far both ends are, and comes behind the
\* Welcome if it needs one.
Greeted(p, k, f) ==
    /\ f.type = "Hello" =>
         /\ p = "Initiator"
         /\ handshake_state["Initiator"] = "AwaitingWelcome"
         /\ handshake_state["Acceptor"] = "AwaitingHello"
    /\ f.type = "Welcome" =>
         /\ p = "Acceptor"
         /\ handshake_state["Initiator"] = "AwaitingWelcome"
         /\ Established("Acceptor")
    /\ f.type \in {"Hello", "Welcome"} => ~Before(InFlight(p), k, f.type)
    /\ f.type # "Error"
    /\ f.type \in StreamFrames =>
         Established(p) /\ (Established(Other(p)) \/ Before(InFlight(p), k, "Welcome"))

\* The ends establish themselves in turn, each with the other's greeting.
TurnInv ==
    /\ handshake_state["Initiator"] = "AwaitingHello" =>
         handshake_state["Acceptor"] = "AwaitingHello"
    /\ handshake_state["Acceptor"] # "AwaitingWelcome"
    /\ Established("Initiator") => Established("Acceptor")
    /\ Established("Acceptor") =>
         Established("Initiator") \/ Includes(InFlight("Acceptor"), "Welcome")
    /\ \A p \in Peers : seen[p] # {} => Established("Acceptor")
GreetedFrom(p) == \A k \in DOMAIN InFlight(p) : Greeted(p, k, InFlight(p)[k])
GreetInv == TurnInv /\ \A p \in Peers : GreetedFrom(p)

\* Ids: each end opens those of its parity, in order.
IdInv ==
    \A p \in Peers :
        /\ next_local_id[p] % 2 = Parity(p)
        /\ \A i \in seen[p] : i % 2 = Parity(p) => i < next_local_id[p]
        /\ \A i \in Ids : Has(p, i) => i \in seen[p]
        /\ \A i \in seen[p] : i \in seen[Other(p)] \/ Opening(InFlight(p), i)

\* An Open in flight is the first of its id, which the other end has not seen;
\* every other frame of a stream comes behind its Open.
Opened(p, k, f) ==
    /\ f.type = "Open" =>
         /\ f.id % 2 = Parity(p)
         /\ f.id \in seen[p] /\ f.id \notin seen[Other(p)]
         /\ ~OpenBefore(InFlight(p), k, f.id)
    /\ f.type \in StreamFrames \ {"Open"} =>
         f.id \in seen[Other(p)] \/ OpenBefore(InFlight(p), k, f.id)
OpenedFrom(p) == \A k \in DOMAIN InFlight(p) : Opened(p, k, InFlight(p)[k])
OpenInv == IdInv /\ \A p \in Peers : OpenedFrom(p)

\* Behind a Close there is no Data, and no way to send some.
Finished(p, i) == i \in seen[p] /\ ~CanSend(streams[p][i])
Closed(p, k, f) ==
    f.type = "Close" =>
        /\ Finished(p, f.id)
        /\ \A j \in DOMAIN InFlight(p) :
             j > k => ~(InFlight(p)[j].type = "Data" /\ InFlight(p)[j].id = f.id)
ClosedFrom(p) == \A k \in DOMAIN InFlight(p) : Closed(p, k, InFlight(p)[k])
CloseInv ==
    /\ \A p \in Peers : ClosedFrom(p)
    /\ \A p \in Peers, i \in Ids :
         streams[p][i].state = "HalfClosedRemote" =>
             Finished(Other(p), i) /\ ~Underway(Other(p), "Data", i)

-----------------------------------------------------------------------------
(* The places of the frames in flight before and after a step.             *)

LEMMA Places ==
    ASSUME FlightTyped, NEW p \in Peers
    PROVE  /\ InFlight(p) \in Seq(WireFrame)
           /\ DOMAIN InFlight(p) = 1 .. Len(InFlight(p)) /\ Len(InFlight(p)) \in Nat
           /\ \A k \in DOMAIN InFlight(p) : InFlight(p)[k] \in WireFrame
  <1>1. InFlight(p) \in Seq(WireFrame)
    BY FlightIsSeq
  <1> QED
    BY <1>1, LenProperties, ElementOfSeq

\* A frame that was added is at the end, and what was before another still is.
LEMMA AppendPlaces ==
    ASSUME NEW S, NEW s \in Seq(S), NEW f \in S
    PROVE  LET t == Append(s, f)
               n == Len(s) + 1
           IN  /\ DOMAIN t = DOMAIN s \cup {n} /\ n \notin DOMAIN s
               /\ \A k \in DOMAIN s : k < n /\ t[k] = s[k]
               /\ t[n] = f
               /\ \A k \in DOMAIN s : \A x : /\ Before(t, k, x) <=> Before(s, k, x)
                                             /\ OpenBefore(t, k, x) <=> OpenBefore(s, k, x)
               /\ \A x : /\ Before(t, n, x) <=> Includes(s, x)
                         /\ OpenBefore(t, n, x) <=> Opening(s, x)
                         /\ Includes(t, x) <=> Includes(s, x) \/ f.type = x
                         /\ Opening(t, x) <=> Opening(s, x) \/ (f.type = "Open" /\ f.id = x)
  <1> DEFINE t == Append(s, f)
             n == Len(s) + 1
  <1>1. /\ t \in Seq(S) /\ Len(t) = n
        /\ \A i \in 1 .. Len(s) : t[i] = s[i]
        /\ t[n] = f
    BY AppendProperties
  <1>2. /\ DOMAIN s = 1 .. Len(s) /\ Len(s) \in Nat
        /\ DOMAIN t = 1 .. n
    BY <1>1, LenProperties
  <1> HIDE DEF t
  <1>3. /\ DOMAIN t = DOMAIN s \cup {n} /\ n \notin DOMAIN s
        /\ \A k \in DOMAIN s : k < n /\ t[k] = s[k]
        /\ \A k, j \in DOMAIN s : j < k => j # n
        /\ \A k \in DOMAIN s : ~(n < k)
    BY <1>1, <1>2
  <1>4. \A k \in DOMAIN s : \A x : /\ Before(t, k, x) <=> Before(s, k, x)
                                   /\ OpenBefore(t, k, x) <=> OpenBefore(s, k, x)
    BY <1>3 DEF Before, OpenBefore
  <1>5. \A x : /\ Before(t, n, x) <=> Includes(s, x)
               /\ OpenBefore(t, n, x) <=> Opening(s, x)
    BY <1>2, <1>3 DEF Before, OpenBefore, Includes, Opening
  <1>6. \A x : /\ Includes(t, x) <=> Includes(s, x) \/ f.type = x
               /\ Opening(t, x) <=> Opening(s, x) \/ (f.type = "Open" /\ f.id = x)
    BY <1>1, <1>3 DEF Includes, Opening
  <1> QED
    BY <1>1, <1>3, <1>4, <1>5, <1>6 DEF t

\* When the first frame is taken the others move up, and it is before no
\* other any more.
LEMMA TailPlaces ==
    ASSUME NEW S, NEW s \in Seq(S), s # << >>
    PROVE  LET t == Tail(s)
           IN  /\ 1 \in DOMAIN s
               /\ \A k \in DOMAIN t : k + 1 \in DOMAIN s /\ t[k] = s[k + 1] /\ k + 1 > 1
               /\ \A k, j \in DOMAIN t : j < k <=> j + 1 < k + 1
               /\ \A k \in DOMAIN s : k = 1 \/ k - 1 \in DOMAIN t
               /\ \A k \in DOMAIN t : \A x :
                    /\ Before(t, k, x) => Before(s, k + 1, x)
                    /\ Before(s, k + 1, x) => Before(t, k, x) \/ s[1].type = x
                    /\ OpenBefore(t, k, x) => OpenBefore(s, k + 1, x)
                    /\ OpenBefore(s, k + 1, x)
                         => OpenBefore(t, k, x) \/ (s[1].type = "Open" /\ s[1].id = x)
                    /\ s[1].type = x => Before(s, k + 1, x)
                    /\ s[1].type = "Open" /\ s[1].id = x => OpenBefore(s, k + 1, x)
               /\ \A x : /\ Includes(s, x) => Includes(t, x) \/ s[1].type = x
                         /\ Opening(s, x)
                              => Opening(t, x) \/ (s[1].type = "Open" /\ s[1].id = x)
               /\ ~Before(s, 1, "Welcome") /\ \A x : ~OpenBefore(s, 1, x)
  <1> DEFINE t == Tail(s)
  <1>1. /\ t \in Seq(S) /\ Len(t) = Len(s) - 1
        /\ \A i \in 1 .. Len(t) : t[i] = s[i + 1]
    BY HeadTailProperties
  <1>2. /\ DOMAIN s = 1 .. Len(s) /\ Len(s) \in Nat \ {0}
        /\ DOMAIN t = 1 .. Len(s) - 1
    BY <1>1, LenProperties, EmptySeq
  <1> HIDE DEF t
  <1>3. /\ 1 \in DOMAIN s
        /\ \A k \in DOMAIN t : k + 1 \in DOMAIN s /\ t[k] = s[k + 1] /\ k + 1 > 1
        /\ \A k, j \in DOMAIN t : j < k <=> j + 1 < k + 1
        /\ \A j \in DOMAIN s : ~(j < 1)
    BY <1>1, <1>2
  <1>4. \A j \in DOMAIN s : j = 1 \/ (j - 1 \in DOMAIN t /\ t[j - 1] = s[j])
    BY <1>1, <1>2
  <1>5. \A j \in DOMAIN s, k \in DOMAIN t : j < k + 1 <=> j - 1 < k
    BY <1>2
  <1>6. \A k \in DOMAIN t : \A x :
          /\ Before(t, k, x) => Before(s, k + 1, x)
          /\ OpenBefore(t, k, x) => OpenBefore(s, k + 1, x)
          /\ s[1].type = x => Before(s, k + 1, x)
          /\ s[1].type = "Open" /\ s[1].id = x => OpenBefore(s, k + 1, x)
    BY <1>3 DEF Before, OpenBefore
  <1>7. \A k \in DOMAIN t : \A x :
          /\ Before(s, k + 1, x) => Before(t, k, x) \/ s[1].type = x
          /\ OpenBefore(s, k + 1, x)
               => OpenBefore(t, k, x) \/ (s[1].type = "Open" /\ s[1].id = x)
    BY <1>4, <1>5 DEF Before, OpenBefore
  <1>8. \A x : /\ Includes(s, x) => Includes(t, x) \/ s[1].type = x
               /\ Opening(s, x)
                    => Opening(t, x) \/ (s[1].type = "Open" /\ s[1].id = x)
    BY <1>4 DEF Includes, Opening
  <1>9. ~Before(s, 1, "Welcome") /\ \A x : ~OpenBefore(s, 1, x)
    BY <1>3 DEF Before, OpenBefore
  <1> QED
    BY <1>3, <1>4, <1>6, <1>7, <1>8, <1>9 DEF t

-----------------------------------------------------------------------------
(* The handshake.                                                          *)

LEMMA InitGreet == TransportInit => GreetInv
  <1> SUFFICES ASSUME TransportInit PROVE GreetInv
    OBVIOUS
  <1>1. \A p \in Peers : InFlight(p) = << >>
    BY DEF TransportInit, InFlight
  <1>2. TurnInv
    BY DEF TransportInit, TurnInv, Established, Peers
  <1>3. \A p \in Peers : GreetedFrom(p)
    BY <1>1 DEF GreetedFrom
  <1> QED
    BY <1>2, <1>3 DEF GreetInv

\* A frame with which no end changes its handshake state, now.
Mild(p, f) ==
    /\ f \in WireFrame /\ f.type \notin {"Hello", "Welcome", "Error"}
    /\ f.type \in StreamFrames => Established(p)

\* As long as no end changes its state, what greets goes on to do so.
LEMMA GreetedMoves ==
    ASSUME FlightTyped, GreetInv, NEW p \in Peers, UNCHANGED handshake_state,
           \/ Keeps(p)
           \/ \E f \in WireFrame : Mild(p, f) /\ Sends(p, f)
           \/ Takes(p) /\ InFlight(p)[1].type # "Welcome"
    PROVE  GreetedFrom(p)'
  <1> DEFINE s == InFlight(p)
  <1>0. s \in Seq(WireFrame) /\ GreetedFrom(p)
    BY Places DEF GreetInv
  <1>1. CASE Keeps(p)
    BY <1>0, <1>1 DEF Keeps, GreetedFrom, Greeted, Established
  <1>2. ASSUME NEW f \in WireFrame, Mild(p, f), Sends(p, f)
        PROVE  GreetedFrom(p)'
    <2> DEFINE t == Append(s, f)
               n == Len(s) + 1
    <2>1. InFlight(p)' = t
      BY <1>2 DEF Sends
    <2>2. /\ DOMAIN t = DOMAIN s \cup {n}
          /\ \A k \in DOMAIN s : t[k] = s[k]
          /\ t[n] = f
          /\ \A k \in DOMAIN s : \A x : Before(t, k, x) <=> Before(s, k, x)
          /\ \A x : Before(t, n, x) <=> Includes(s, x)
      BY <1>0, AppendPlaces
    <2> HIDE DEF t, n
    <2>3. f.type \in StreamFrames =>
            Established(p) /\ (Established(Other(p)) \/ Includes(s, "Welcome"))
      <3>1. p = "Initiator" \/ p = "Acceptor"
        BY DEF Peers
      <3> QED
        BY <1>2, <3>1 DEF Mild, GreetInv, TurnInv, Other
    <2>4. ASSUME NEW k \in DOMAIN InFlight(p)'
          PROVE  Greeted(p, k, InFlight(p)[k])'
      <3>1. CASE k \in DOMAIN s
        <4>1. Greeted(p, k, s[k]) /\ InFlight(p)'[k] = s[k]
          BY <1>0, <2>1, <2>2, <3>1 DEF GreetedFrom
        <4>2. \A x : Before(InFlight(p)', k, x) <=> Before(s, k, x)
          BY <2>1, <2>2, <3>1
        <4> QED
          BY <4>1, <4>2 DEF Greeted, Established
      <3>2. CASE k = n
        <4>1. InFlight(p)'[k] = f /\ \A x : Before(InFlight(p)', k, x) <=> Includes(s, x)
          BY <2>1, <2>2, <3>2
        <4> QED
          BY <1>2, <2>3, <4>1 DEF Greeted, Established, Mild
      <3> QED
        BY <2>1, <2>2, <2>4, <3>1, <3>2
    <2> QED
      BY <2>4 DEF GreetedFrom
  <1>3. CASE Takes(p) /\ InFlight(p)[1].type # "Welcome"
    <2> DEFINE t == Tail(s)
    <2>1. InFlight(p)' = t /\ s # << >>
      BY <1>3 DEF Takes
    <2>2. /\ \A k \in DOMAIN t : k + 1 \in DOMAIN s /\ t[k] = s[k + 1]
          /\ \A k \in DOMAIN t : \A x :
               /\ Before(t, k, x) => Before(s, k + 1, x)
               /\ Before(s, k + 1, x) => Before(t, k, x) \/ s[1].type = x
      BY <1>0, <2>1, TailPlaces
    <2> HIDE DEF t
    <2>3. ASSUME NEW k \in DOMAIN InFlight(p)'
          PROVE  Greeted(p, k, InFlight(p)[k])'
      <3>1. Greeted(p, k + 1, s[k + 1]) /\ InFlight(p)'[k] = s[k + 1]
        BY <1>0, <2>1, <2>2, <2>3 DEF GreetedFrom
      <3>2. \A x : /\ Before(InFlight(p)', k, x) => Before(s, k + 1, x)
                   /\ Before(s, k + 1, x) => Before(InFlight(p)', k, x) \/ s[1].type = x
        BY <2>1, <2>2, <2>3
      <3> QED
        BY <1>3, <3>1, <3>2 DEF Greeted, Established
    <2> QED
      BY <2>3 DEF GreetedFrom
  <1> QED
    BY <1>1, <1>2, <1>3

\* The first frame in flight greets, with nothing before it.
LEMMA FirstGreets ==
    ASSUME FlightTyped, GreetInv, NEW p \in Peers, Takes(p)
    PROVE  /\ 1 \in DOMAIN InFlight(p) /\ InFlight(p)[1] \in WireFrame
           /\ Greeted(p, 1, InFlight(p)[1])
           /\ InFlight(p)[1].type \in StreamFrames => Established(p) /\ Established(Other(p))
  <1>1. /\ 1 \in DOMAIN InFlight(p) /\ InFlight(p)[1] \in WireFrame
        /\ ~Before(InFlight(p), 1, "Welcome")
    BY Places, TailPlaces DEF Takes
  <1>2. Greeted(p, 1, InFlight(p)[1])
    BY <1>1 DEF GreetInv, GreetedFrom
  <1> QED
    BY <1>1, <1>2 DEF Greeted

\* No frame is refused because of the handshake, and no Error is sent.
LEMMA RefusesStream ==
    ASSUME TransportTyped, GreetInv, NEW p \in Peers, Refuses(p)
    PROVE  /\ Keeps(p)
           /\ InFlight(Other(p))[1].type \in StreamFrames
           /\ Established(p)
  <1> DEFINE q == Other(p)
             f == InFlight(q)[1]
  <1>1. /\ q \in Peers /\ Other(q) = p /\ FlightTyped /\ Takes(q)
        /\ Refusal(p, f) \notin {"none", "BufferOverflow"}
    BY OtherPeer DEF TransportTyped, Refuses
  <1>2. /\ f \in WireFrame /\ Greeted(q, 1, f)
        /\ f.type \in StreamFrames => Established(q) /\ Established(p)
    BY <1>1, FirstGreets
  <1> HIDE DEF f
  <1>3. f.type \in FrameTypes /\ f.type # "Error"
    BY <1>2 DEF Greeted, WireFrame
  <1>4. f.type # "Hello" /\ f.type # "Welcome"
    BY <1>1, <1>2 DEF Greeted, Refusal, Other, Established, ControlTypes
  <1>5. f.type \in StreamFrames
    BY <1>1, <1>3, <1>4 DEF FrameTypes, ControlTypes, StreamFrames, Refusal
  <1> QED
    BY <1>2, <1>5 DEF Refuses, f

\* A step in which no end changes its handshake state.
LEMMA MildStep ==
    ASSUME TransportTyped, GreetInv, NEW p \in Peers, UNCHANGED handshake_state,
           Keeps(p) \/ \E f \in WireFrame : Mild(p, f) /\ Sends(p, f),
           \/ Keeps(Other(p))
           \/ Takes(Other(p)) /\ InFlight(Other(p))[1].type # "Welcome",
           UNCHANGED seen \/ Established(p)
    PROVE  GreetInv'
  <1> DEFINE q == Other(p)
  <1>0. q \in Peers /\ \A r \in Peers : r = p \/ r = q
    BY OtherPeer DEF Peers
  <1>1. FlightTyped
    BY DEF TransportTyped
  <1>2. \A r \in Peers : GreetedFrom(r)'
    BY <1>0, <1>1, GreetedMoves
  <1>3. ASSUME NEW r \in Peers, Includes(InFlight(r), "Welcome")
        PROVE  Includes(InFlight(r), "Welcome")'
    <2>1. CASE Keeps(r)
      BY <1>3, <2>1 DEF Keeps
    <2>2. ASSUME NEW f \in WireFrame, Sends(r, f)
          PROVE  Includes(InFlight(r), "Welcome")'
      BY <1>1, <1>3, <2>2, Places, AppendPlaces DEF Sends
    <2>3. CASE Takes(r) /\ InFlight(r)[1].type # "Welcome"
      BY <1>1, <1>3, <2>3, Places, TailPlaces DEF Takes
    <2> QED
      BY <1>0, <2>1, <2>2, <2>3
  <1>4. "Acceptor" \in Peers /\ (p = "Initiator" \/ p = "Acceptor")
    BY DEF Peers
  <1>5. TurnInv'
    BY <1>3, <1>4 DEF GreetInv, TurnInv, Established
  <1> QED
    BY <1>2, <1>5 DEF GreetInv

\* The three steps of the handshake.
LEMMA GreetsStep ==
    ASSUME TransportTyped, GreetInv, NEW p \in Peers, Greets(p)
    PROVE  GreetInv'
  <1> DEFINE q == Other(p)
             s == InFlight(p)
             f == Control("Hello")
  <1>0. /\ FlightTyped /\ p = "Initiator" /\ q = "Acceptor" /\ Peers = {p, q}
        /\ f \in WireFrame /\ f.type = "Hello" /\ s \in Seq(WireFrame)
    <2>1. FlightTyped /\ p = "Initiator" /\ q = "Acceptor" /\ Peers = {p, q}
      BY DEF TransportTyped, Greets, Other, Peers
    <2>2. f \in WireFrame /\ f.type = "Hello"
      BY FramesTyped DEF Control, Frame
    <2> QED
      BY <2>1, <2>2, Places
  <1>1. /\ handshake_state["Initiator"] = "AwaitingHello"
        /\ handshake_state["Acceptor"] = "AwaitingHello"
        /\ handshake_state'["Initiator"] = "AwaitingWelcome"
        /\ handshake_state'["Acceptor"] = "AwaitingHello"
        /\ \A r \in Peers : seen'[r] = {}
    BY <1>0 DEF Greets, GreetInv, TurnInv, TransportTyped, StateTyped, Established
  \* Nothing was in flight but Pings.
  <1>2. ASSUME NEW r \in Peers, NEW k \in DOMAIN InFlight(r)
        PROVE  InFlight(r)[k].type \notin {"Hello", "Welcome", "Error"} \cup StreamFrames
    <2>1. Greeted(r, k, InFlight(r)[k])
      BY DEF GreetInv, GreetedFrom
    <2>2. ~Established(r)
      BY <1>0, <1>1 DEF Established
    <2> QED
      BY <1>1, <2>1, <2>2 DEF Greeted
  <1>3. TurnInv'
    BY <1>1 DEF TurnInv, Established
  <1>4. GreetedFrom(q)'
    <2>1. InFlight(q)' = InFlight(q)
      BY DEF Greets, Keeps
    <2>2. ASSUME NEW k \in DOMAIN InFlight(q)'
          PROVE  Greeted(q, k, InFlight(q)[k])'
      BY <1>0, <1>2, <2>1 DEF Greeted
    <2> QED
      BY <2>2 DEF GreetedFrom
  <1>5. GreetedFrom(p)'
    <2>1. InFlight(p)' = Append(s, f)
      BY DEF Greets, Sends
    <2> DEFINE t == Append(s, f)
    <2>2. /\ DOMAIN t = DOMAIN s \cup {Len(s) + 1}
          /\ \A k \in DOMAIN s : t[k] = s[k]
          /\ t[Len(s) + 1] = f
          /\ \A x : Before(t, Len(s) + 1, x) <=> Includes(s, x)
      BY <1>0, AppendPlaces
    <2> HIDE DEF f, s, t
    <2>3. ASSUME NEW k \in DOMAIN InFlight(p)'
          PROVE  Greeted(p, k, InFlight(p)[k])'
      <3>1. CASE k \in DOMAIN s
        <4>1. InFlight(p)'[k] = s[k] /\ s[k].type \notin {"Hello", "Welcome", "Error"} \cup StreamFrames
          BY <1>0, <1>2, <2>1, <2>2, <3>1 DEF s, t
        <4> QED
          BY <4>1 DEF Greeted
      <3>2. CASE k = Len(s) + 1
        <4>1. ~Includes(s, "Hello")
          BY <1>0, <1>2 DEF Includes, s
        <4>2. InFlight(p)'[k] = f /\ ~Before(InFlight(p)', k, "Hello")
          BY <2>1, <2>2, <3>2, <4>1 DEF t
        <4> QED
          BY <1>0, <1>1, <4>2 DEF Greeted, StreamFrames
      <3> QED
        BY <2>1, <2>2, <2>3, <3>1, <3>2 DEF t
    <2> QED
      BY <2>3 DEF GreetedFrom
  <1> QED
    BY <1>0, <1>3, <1>4, <1>5 DEF GreetInv

LEMMA AnswersHelloStep ==
    ASSUME TransportTyped, GreetInv, NEW p \in Peers, AnswersHello(p)
    PROVE  GreetInv'
  <1> DEFINE q == Other(p)
             s == InFlight(p)
             f == Control("Welcome")
  <1>0. /\ FlightTyped /\ p = "Acceptor" /\ q = "Initiator" /\ Peers = {p, q}
        /\ f \in WireFrame /\ f.type = "Welcome" /\ s \in Seq(WireFrame)
        /\ Takes(q) /\ InFlight(q)[1].type = "Hello"
    <2>1. /\ FlightTyped /\ p = "Acceptor" /\ q = "Initiator" /\ Peers = {p, q}
          /\ Takes(q) /\ InFlight(q)[1].type = "Hello"
      BY DEF TransportTyped, AnswersHello, TakesType, Other, Peers
    <2>2. f \in WireFrame /\ f.type = "Welcome"
      BY FramesTyped DEF Control, Frame
    <2> QED
      BY <2>1, <2>2, Places
  <1>1. /\ handshake_state["Initiator"] = "AwaitingWelcome"
        /\ handshake_state["Acceptor"] = "AwaitingHello"
    BY <1>0, FirstGreets DEF Greeted
  <1>2. /\ handshake_state'["Initiator"] = "AwaitingWelcome"
        /\ handshake_state'["Acceptor"] = "Established"
    BY <1>0, <1>1 DEF AnswersHello, TransportTyped, StateTyped
  \* Nothing else was in flight but Pings.
  <1>3. ASSUME NEW r \in Peers, NEW k \in DOMAIN InFlight(r)
        PROVE  /\ InFlight(r)[k].type \notin {"Welcome", "Error"} \cup StreamFrames
               /\ InFlight(r)[k].type = "Hello" => r = q /\ ~Before(InFlight(r), k, "Hello")
    <2>1. Greeted(r, k, InFlight(r)[k])
      BY DEF GreetInv, GreetedFrom
    <2>2. ~Established(r)
      BY <1>0, <1>1 DEF Established
    <2> QED
      BY <1>0, <1>1, <2>1, <2>2 DEF Greeted, Established
  <1>4. GreetedFrom(q)'
    <2> DEFINE u == InFlight(q)
               t == Tail(u)
    <2>1. InFlight(q)' = t /\ u # << >> /\ u \in Seq(WireFrame)
      BY <1>0, Places DEF Takes
    <2>2. \A k \in DOMAIN t : /\ k + 1 \in DOMAIN u /\ t[k] = u[k + 1]
                              /\ Before(u, k + 1, "Hello")
      BY <1>0, <2>1, TailPlaces
    <2> HIDE DEF t
    <2>3. ASSUME NEW k \in DOMAIN InFlight(q)'
          PROVE  Greeted(q, k, InFlight(q)[k])'
      <3>1. InFlight(q)'[k].type \notin {"Hello", "Welcome", "Error"} \cup StreamFrames
        BY <1>0, <1>3, <2>1, <2>2
      <3> QED
        BY <3>1 DEF Greeted
    <2> QED
      BY <2>3 DEF GreetedFrom
  <1>5. GreetedFrom(p)' /\ Includes(InFlight(p), "Welcome")'
    <2>1. InFlight(p)' = Append(s, f)
      BY DEF AnswersHello, Sends
    <2> DEFINE t == Append(s, f)
    <2>2. /\ DOMAIN t = DOMAIN s \cup {Len(s) + 1}
          /\ \A k \in DOMAIN s : t[k] = s[k]
          /\ t[Len(s) + 1] = f
          /\ \A x : Before(t, Len(s) + 1, x) <=> Includes(s, x)
          /\ Includes(t, "Welcome")
      BY <1>0, AppendPlaces
    <2> HIDE DEF f, s, t
    <2>3. ASSUME NEW k \in DOMAIN InFlight(p)'
          PROVE  Greeted(p, k, InFlight(p)[k])'
      <3>1. CASE k \in DOMAIN s
        <4>1. InFlight(p)'[k] = s[k] /\ s[k].type \notin {"Hello", "Welcome", "Error"} \cup StreamFrames
          BY <1>0, <1>3, <2>1, <2>2, <3>1 DEF s, t
        <4> QED
          BY <4>1 DEF Greeted
      <3>2. CASE k = Len(s) + 1
        <4>1. ~Includes(s, "Welcome")
          BY <1>0, <1>3 DEF Includes, s
        <4>2. InFlight(p)'[k] = f /\ ~Before(InFlight(p)', k, "Welcome")
          BY <2>1, <2>2, <3>2, <4>1 DEF t
        <4> QED
          BY <1>0, <1>2, <4>2 DEF Greeted, Established, StreamFrames
      <3> QED
        BY <2>1, <2>2, <2>3, <3>1, <3>2 DEF t
    <2>4. Includes(InFlight(p), "Welcome")'
      BY <2>1, <2>2 DEF t
    <2> QED
      BY <2>3, <2>4 DEF GreetedFrom
  <1>6. TurnInv'
    BY <1>0, <1>2, <1>5 DEF TurnInv, Established
  <1> QED
    BY <1>0, <1>4, <1>5, <1>6 DEF GreetInv

LEMMA TakesWelcomeStep ==
    ASSUME TransportTyped, GreetInv, NEW p \in Peers, TakesWelcome(p)
    PROVE  GreetInv'
  <1> DEFINE q == Other(p)
  <1>0. /\ FlightTyped /\ p = "Initiator" /\ q = "Acceptor" /\ Peers = {p, q}
        /\ Takes(q) /\ InFlight(q)[1].type = "Welcome" /\ Keeps(p)
    BY DEF TransportTyped, TakesWelcome, TakesType, Other, Peers
  <1>1. /\ handshake_state["Initiator"] = "AwaitingWelcome"
        /\ handshake_state["Acceptor"] = "Established"
    BY <1>0, FirstGreets DEF Greeted, Established
  <1>2. /\ handshake_state'["Initiator"] = "Established"
        /\ handshake_state'["Acceptor"] = "Established"
    BY <1>0, <1>1 DEF TakesWelcome, TransportTyped, StateTyped
  <1>3. \A r \in Peers : Established(r)'
    BY <1>0, <1>2 DEF Established
  <1>4. GreetedFrom(q)'
    <2> DEFINE u == InFlight(q)
               t == Tail(u)
    <2>1. InFlight(q)' = t /\ u # << >> /\ u \in Seq(WireFrame)
      BY <1>0, Places DEF Takes
    <2>2. \A k \in DOMAIN t : /\ k + 1 \in DOMAIN u /\ t[k] = u[k + 1]
                              /\ Before(u, k + 1, "Welcome")
      BY <1>0, <2>1, TailPlaces
    <2> HIDE DEF t
    <2>3. ASSUME NEW k \in DOMAIN InFlight(q)'
          PROVE  Greeted(q, k, InFlight(q)[k])'
      <3>1. Greeted(q, k + 1, u[k + 1]) /\ InFlight(q)'[k] = u[k + 1]
        BY <1>0, <2>1, <2>2, <2>3 DEF GreetInv, GreetedFrom
      <3>2. InFlight(q)'[k].type \notin {"Hello", "Welcome", "Error"}
        BY <1>0, <2>1, <2>2, <2>3, <3>1 DEF Greeted
      <3> QED
        BY <1>0, <1>3, <3>2, OtherPeer DEF Greeted
    <2> QED
      BY <2>3 DEF GreetedFrom
  <1>5. GreetedFrom(p)'
    <2>1. InFlight(p)' = InFlight(p)
      BY <1>0 DEF Keeps
    <2>2. ASSUME NEW k \in DOMAIN InFlight(p)'
          PROVE  Greeted(p, k, InFlight(p)[k])'
      <3>1. Greeted(p, k, InFlight(p)[k])
        BY <2>1, <2>2 DEF GreetInv, GreetedFrom
      <3>2. InFlight(p)[k].type \notin {"Hello", "Welcome", "Error"}
        BY <1>0, <1>1, <3>1 DEF Greeted
      <3> QED
        BY <1>0, <1>3, <2>1, <3>2 DEF Greeted
    <2> QED
      BY <2>2 DEF GreetedFrom
  <1>6. TurnInv'
    BY <1>2 DEF TurnInv, Established
  <1> QED
    BY <1>0, <1>4, <1>5, <1>6 DEF GreetInv

LEMMA KindGreet ==
    ASSUME TransportTyped, GreetInv, NEW p \in Peers, Kind(p)
    PROVE  GreetInv'
  <1> DEFINE q == Other(p)
  <1>0. q \in Peers /\ FlightTyped
    BY OtherPeer DEF TransportTyped
  <1>1. CASE Greets(p)
    BY <1>1, GreetsStep
  <1>2. CASE AnswersHello(p)
    BY <1>2, AnswersHelloStep
  <1>3. CASE TakesWelcome(p)
    BY <1>3, TakesWelcomeStep
  <1>4. CASE Opens(p)
    <2>1. Frame("Open", next_local_id[p], 0) \in WireFrame
      BY <1>4, FramesTyped DEF Opens, StreamFrames
    <2>2. Mild(p, Frame("Open", next_local_id[p], 0))
      BY <1>4, <2>1 DEF Mild, Frame, Opens
    <2> QED
      BY <1>4, <2>1, <2>2, MildStep DEF Opens
  <1>5. ASSUME NEW i \in Ids, NEW type \in StreamFrames, Uses(p, i, type)
        PROVE  GreetInv'
    <2>1. \A n \in Int : Frame(type, i, n) \in WireFrame
      BY <1>5, FramesTyped
    <2>2. \A n \in Int : Mild(p, Frame(type, i, n))
      BY <1>5, <2>1 DEF Mild, Frame, Uses, StreamFrames
    <2> QED
      BY <1>5, <2>1, <2>2, MildStep DEF Uses, Steady
  <1>6. ASSUME NEW i \in Ids, TakesOpen(p, i)
        PROVE  GreetInv'
    BY <1>6, MildStep DEF TakesOpen, TakesType
  <1>7. ASSUME NEW i \in Ids, NEW type \in StreamFrames, TakesUse(p, i, type)
        PROVE  GreetInv'
    BY <1>7, MildStep DEF TakesUse, TakesType, Steady, StreamFrames
  <1>8. CASE Idles(p)
    <2>1. \A type \in {"Ping", "Pong"}, n \in Int :
            Mild(p, Frame(type, 0, n)) /\ Frame(type, 0, n) \in WireFrame
      BY FramesTyped DEF Mild, Frame, StreamFrames
    <2> QED
      BY <1>8, <2>1, MildStep DEF Idles, TakesType, Steady
  <1>9. CASE Refuses(p)
    <2>1. Keeps(p) /\ InFlight(q)[1].type \in StreamFrames
      BY <1>9, RefusesStream
    <2> QED
      BY <1>9, <2>1, MildStep DEF Refuses, Steady, StreamFrames
  <1> QED
    BY <1>1, <1>2, <1>3, <1>4, <1>5, <1>6, <1>7, <1>8, <1>9 DEF Kind

-----------------------------------------------------------------------------
(* Ids.                                                                    *)

LEMMA InitOpen == TransportInit => OpenInv
  <1> SUFFICES ASSUME TransportInit PROVE OpenInv
    OBVIOUS
  <1>1. \A p \in Peers : InFlight(p) = << >>
    BY DEF TransportInit, InFlight
  <1>2. \A p \in Peers : next_local_id[p] % 2 = Parity(p)
    BY DEF TransportInit, Parity, Peers
  <1>3. \A p \in Peers : seen[p] = {} /\ \A i \in Ids : ~Has(p, i)
    BY DEF TransportInit, Has, NoStream, StreamStates
  <1>4. \A p \in Peers : OpenedFrom(p)
    BY <1>1 DEF OpenedFrom
  <1> QED
    BY <1>2, <1>3, <1>4 DEF OpenInv, IdInv

LEMMA Parities ==
    ASSUME NEW p \in Peers
    PROVE  /\ Parity(p) # Parity(Other(p))
           /\ \A i \in Ids : OpenAccepted(p, i) <=> i % 2 = Parity(Other(p)) /\ ~Has(p, i)
  BY DEF Parity, Other, Peers, OpenAccepted

\* A frame of a stream that its sender has.
Known(p, f) ==
    /\ f \in WireFrame
    /\ f.type \in StreamFrames => f.type # "Open" /\ Has(p, f.id)

\* As long as no id is new at an end, its frames go on behind their Opens.
LEMMA OpenedMoves ==
    ASSUME FlightTyped, OpenInv, NEW p \in Peers, UNCHANGED seen,
           \/ Keeps(p)
           \/ \E f \in WireFrame : Known(p, f) /\ Sends(p, f)
           \/ Takes(p) /\ InFlight(p)[1].type # "Open"
    PROVE  /\ OpenedFrom(p)'
           /\ \A i : Opening(InFlight(p), i) => Opening(InFlight(p), i)'
  <1> DEFINE s == InFlight(p)
  <1>0. s \in Seq(WireFrame) /\ OpenedFrom(p)
    BY Places DEF OpenInv
  <1>1. CASE Keeps(p)
    BY <1>0, <1>1 DEF Keeps, OpenedFrom, Opened
  <1>2. ASSUME NEW f \in WireFrame, Known(p, f), Sends(p, f)
        PROVE  /\ OpenedFrom(p)'
               /\ \A i : Opening(s, i) => Opening(InFlight(p)', i)
    <2> DEFINE t == Append(s, f)
               n == Len(s) + 1
    <2>1. InFlight(p)' = t
      BY <1>2 DEF Sends
    <2>2. /\ DOMAIN t = DOMAIN s \cup {n}
          /\ \A k \in DOMAIN s : t[k] = s[k]
          /\ t[n] = f
          /\ \A k \in DOMAIN s : \A x : OpenBefore(t, k, x) <=> OpenBefore(s, k, x)
          /\ \A x : OpenBefore(t, n, x) <=> Opening(s, x)
          /\ \A x : Opening(s, x) => Opening(t, x)
      BY <1>0, AppendPlaces
    <2> HIDE DEF t, n
    <2>3. f.type \in StreamFrames =>
            f.type # "Open" /\ (f.id \in seen[Other(p)] \/ Opening(s, f.id))
      BY <1>2 DEF Known, OpenInv, IdInv, WireFrame
    <2>4. ASSUME NEW k \in DOMAIN InFlight(p)'
          PROVE  Opened(p, k, InFlight(p)[k])'
      <3>1. CASE k \in DOMAIN s
        <4>1. Opened(p, k, s[k]) /\ InFlight(p)'[k] = s[k]
          BY <1>0, <2>1, <2>2, <3>1 DEF OpenedFrom
        <4>2. \A x : OpenBefore(InFlight(p)', k, x) <=> OpenBefore(s, k, x)
          BY <2>1, <2>2, <3>1
        <4> QED
          BY <4>1, <4>2 DEF Opened
      <3>2. CASE k = n
        <4>1. InFlight(p)'[k] = f /\ \A x : OpenBefore(InFlight(p)', k, x) <=> Opening(s, x)
          BY <2>1, <2>2, <3>2
        <4> QED
          BY <2>3, <4>1 DEF Opened, StreamFrames
      <3> QED
        BY <2>1, <2>2, <2>4, <3>1, <3>2
    <2> QED
      BY <2>1, <2>2, <2>4 DEF OpenedFrom
  <1>3. CASE Takes(p) /\ InFlight(p)[1].type # "Open"
    <2> DEFINE t == Tail(s)
    <2>1. InFlight(p)' = t /\ s # << >>
      BY <1>3 DEF Takes
    <2>2. /\ \A k \in DOMAIN t : k + 1 \in DOMAIN s /\ t[k] = s[k + 1]
          /\ \A k \in DOMAIN t : \A x : OpenBefore(t, k, x) <=> OpenBefore(s, k + 1, x)
          /\ \A x : Opening(s, x) => Opening(t, x)
      BY <1>0, <1>3, <2>1, TailPlaces
    <2> HIDE DEF t
    <2>3. ASSUME NEW k \in DOMAIN InFlight(p)'
          PROVE  Opened(p, k, InFlight(p)[k])'
      <3>1. Opened(p, k + 1, s[k + 1]) /\ InFlight(p)'[k] = s[k + 1]
        BY <1>0, <2>1, <2>2, <2>3 DEF OpenedFrom
      <3>2. \A x : OpenBefore(InFlight(p)', k, x) <=> OpenBefore(s, k + 1, x)
        BY <2>1, <2>2, <2>3
      <3> QED
        BY <3>1, <3>2 DEF Opened
    <2> QED
      BY <2>1, <2>2, <2>3 DEF OpenedFrom
  <1> QED
    BY <1>1, <1>2, <1>3 DEF Keeps

\* A step in which no end learns of a stream.
LEMMA KnownStep ==
    ASSUME TransportTyped, OpenInv, NEW p \in Peers, UNCHANGED <<next_local_id, seen>>,
           \A r \in Peers, i \in Ids : Has(r, i)' => Has(r, i),
           Keeps(p) \/ \E f \in WireFrame : Known(p, f) /\ Sends(p, f),
           Keeps(Other(p)) \/ (Takes(Other(p)) /\ InFlight(Other(p))[1].type # "Open")
    PROVE  OpenInv'
  <1>0. /\ FlightTyped /\ Other(p) \in Peers
        /\ \A r \in Peers : r = p \/ r = Other(p)
    BY OtherPeer DEF Peers, TransportTyped
  <1>1. \A r \in Peers : /\ OpenedFrom(r)'
                         /\ \A i : Opening(InFlight(r), i) => Opening(InFlight(r), i)'
    BY <1>0, OpenedMoves
  <1>2. IdInv'
    BY <1>1 DEF OpenInv, IdInv
  <1> QED
    BY <1>1, <1>2 DEF OpenInv

\* What the first frame in flight opens is new to the other end.
LEMMA FirstOpened ==
    ASSUME FlightTyped, OpenInv, NEW p \in Peers, Takes(p)
    PROVE  LET f == InFlight(p)[1]
           IN  /\ 1 \in DOMAIN InFlight(p) /\ f \in WireFrame
               /\ f.type = "Open" =>
                    /\ f.id \in Ids /\ f.id % 2 = Parity(p)
                    /\ f.id \in seen[p] /\ f.id \notin seen[Other(p)]
               /\ f.type \in StreamFrames \ {"Open"} => f.id \in seen[Other(p)]
  <1>1. /\ 1 \in DOMAIN InFlight(p) /\ InFlight(p)[1] \in WireFrame
        /\ \A x : ~OpenBefore(InFlight(p), 1, x)
    BY Places, TailPlaces DEF Takes
  <1>2. Opened(p, 1, InFlight(p)[1])
    BY <1>1 DEF OpenInv, OpenedFrom
  <1> QED
    BY <1>1, <1>2 DEF Opened, WireFrame, StreamFrames

\* An id an end is about to open is new to both.
LEMMA NextIdIsNew ==
    ASSUME StateTyped, OpenInv, NEW p \in Peers
    PROVE  next_local_id[p] \notin seen[p] /\ next_local_id[p] \notin seen[Other(p)]
  <1> DEFINE q == Other(p)
             i == next_local_id[p]
  <1>0. q \in Peers /\ Other(q) = p /\ Parity(p) # Parity(q) /\ i \in Nat
    BY OtherPeer, Parities DEF StateTyped
  <1>1. i \notin seen[p]
    BY <1>0 DEF OpenInv, IdInv
  <1>2. ASSUME i \in seen[q]
        PROVE  FALSE
    <2>1. Opening(InFlight(q), i)
      BY <1>0, <1>1, <1>2 DEF OpenInv, IdInv
    <2>2. PICK k \in DOMAIN InFlight(q) : InFlight(q)[k].type = "Open" /\ InFlight(q)[k].id = i
      BY <2>1 DEF Opening
    <2>3. Opened(q, k, InFlight(q)[k])
      BY <1>0 DEF OpenInv, OpenedFrom
    <2>4. i % 2 = Parity(q) /\ i % 2 = Parity(p)
      BY <2>2, <2>3 DEF Opened, OpenInv, IdInv
    <2> QED
      BY <1>0, <2>4
  <1> QED
    BY <1>1, <1>2

LEMMA OpensStep ==
    ASSUME TransportTyped, OpenInv, NEW p \in Peers, Opens(p)
    PROVE  OpenInv'
  <1> DEFINE q == Other(p)
             s == InFlight(p)
  <1>0. /\ FlightTyped /\ StateTyped /\ q \in Peers /\ Other(q) = p
        /\ q # p /\ \A r \in Peers : r = p \/ r = q
    BY OtherPeer DEF Peers, TransportTyped
  <1> PICK i \in Ids : i = next_local_id[p]
    BY DEF Opens
  <1>1. i \notin seen[p] /\ i \notin seen[q]
    BY <1>0, NextIdIsNew
  <1>2. i \in Nat /\ i % 2 = Parity(p) /\ Parity(p) # Parity(q)
    BY <1>0, Parities DEF OpenInv, IdInv, StateTyped
  <1>3. /\ next_local_id'[p] = i + 2 /\ next_local_id'[q] = next_local_id[q]
        /\ seen'[p] = seen[p] \cup {i} /\ seen'[q] = seen[q]
    BY <1>0 DEF Opens, StateTyped
  <1> PICK f \in WireFrame : f = Frame("Open", i, 0)
    BY FramesTyped DEF StreamFrames
  <1>4. f.type = "Open" /\ f.id = i
    BY DEF Frame
  <1>5. InFlight(p)' = Append(s, f) /\ InFlight(q)' = InFlight(q) /\ s \in Seq(WireFrame)
    BY <1>0, Places DEF Opens, Sends, Keeps
  <1>6. LET t == Append(s, f)
            n == Len(s) + 1
        IN  /\ DOMAIN t = DOMAIN s \cup {n}
            /\ \A k \in DOMAIN s : t[k] = s[k]
            /\ t[n] = f
            /\ \A k \in DOMAIN s : \A x : OpenBefore(t, k, x) <=> OpenBefore(s, k, x)
            /\ \A x : OpenBefore(t, n, x) <=> Opening(s, x)
            /\ \A x : Opening(t, x) <=> Opening(s, x) \/ x = i
    BY <1>4, <1>5, AppendPlaces
  <1>7. ~Opening(s, i)
    <2>1. SUFFICES ASSUME NEW k \in DOMAIN s, s[k].type = "Open", s[k].id = i
                   PROVE  FALSE
      BY DEF Opening
    <2>2. Opened(p, k, s[k])
      BY DEF OpenInv, OpenedFrom
    <2> QED
      BY <1>1, <2>1, <2>2 DEF Opened
  <1>8. OpenedFrom(p)'
    <2>1. ASSUME NEW k \in DOMAIN InFlight(p)'
          PROVE  Opened(p, k, InFlight(p)[k])'
      <3>1. CASE k \in DOMAIN s
        <4>1. Opened(p, k, s[k]) /\ InFlight(p)'[k] = s[k]
          BY <1>5, <1>6, <3>1 DEF OpenInv, OpenedFrom
        <4>2. \A x : OpenBefore(InFlight(p)', k, x) <=> OpenBefore(s, k, x)
          BY <1>5, <1>6, <3>1
        <4> QED
          BY <1>3, <4>1, <4>2 DEF Opened
      <3>2. CASE k = Len(s) + 1
        <4>1. InFlight(p)'[k] = f /\ ~OpenBefore(InFlight(p)', k, i)
          BY <1>5, <1>6, <1>7, <3>2
        <4> QED
          BY <1>1, <1>2, <1>3, <1>4, <4>1 DEF Opened
      <3> QED
        BY <1>5, <1>6, <2>1, <3>1, <3>2
    <2> QED
      BY <2>1 DEF OpenedFrom
  <1>9. OpenedFrom(q)'
    <2>1. ASSUME NEW k \in DOMAIN InFlight(q)'
          PROVE  Opened(q, k, InFlight(q)[k])'
      <3>1. Opened(q, k, InFlight(q)[k]) /\ InFlight(q)'[k] = InFlight(q)[k]
        BY <1>0, <1>5, <2>1 DEF OpenInv, OpenedFrom
      <3>2. \A r \in Peers : seen[r] \subseteq seen'[r]
        BY <1>0, <1>3
      <3> QED
        BY <1>0, <1>2, <1>3, <1>5, <3>1 DEF Opened
    <2> QED
      BY <2>1 DEF OpenedFrom
  <1>10. IdInv'
    <2>1. \A r \in Peers : next_local_id[r] \in Nat /\ next_local_id'[r] % 2 = Parity(r)
      <3>1. (i + 2) % 2 = i % 2
        BY <1>2
      <3>2. \A r \in Peers : next_local_id[r] \in Nat /\ next_local_id[r] % 2 = Parity(r)
        BY <1>0 DEF OpenInv, IdInv, StateTyped
      <3>3. next_local_id'[p] % 2 = Parity(p)
        BY <1>2, <1>3, <3>1
      <3>4. next_local_id'[q] % 2 = Parity(q)
        BY <1>0, <1>3, <3>2
      <3> QED
        BY <1>0, <3>2, <3>3, <3>4
    <2>2. \A r \in Peers : \A j \in seen'[r] : j % 2 = Parity(r) => j < next_local_id'[r]
      <3>1. \A j \in seen[p] : j \in Nat
        BY <1>0 DEF StateTyped, Ids
      <3> QED
        BY <1>0, <1>2, <1>3, <2>1, <3>1 DEF OpenInv, IdInv
    <2>3. \A r \in Peers : \A j \in Ids : Has(r, j)' => j \in seen'[r]
      <3>1. \A j \in Ids : /\ j # i /\ Has(p, j)' => Has(p, j)
                           /\ Has(q, j)' => Has(q, j)
        BY DEF Opens, StateSet, Has
      <3> QED
        BY <1>0, <1>3, <3>1 DEF OpenInv, IdInv
    <2>4. \A r \in Peers : \A j \in seen'[r] :
            j \in seen'[Other(r)] \/ Opening(InFlight(r), j)'
      <3>1. \A j : Opening(InFlight(p), j)' <=> Opening(s, j) \/ j = i
        BY <1>5, <1>6
      <3>2. \A j : Opening(InFlight(q), j)' <=> Opening(InFlight(q), j)
        BY <1>5
      <3>3. \A j \in seen'[p] : j \in seen'[q] \/ Opening(InFlight(p), j)'
        BY <1>3, <3>1 DEF OpenInv, IdInv
      <3>4. \A j \in seen'[q] : j \in seen'[p] \/ Opening(InFlight(q), j)'
        BY <1>0, <1>3, <3>2 DEF OpenInv, IdInv
      <3> QED
        BY <1>0, <3>3, <3>4
    <2> QED
      BY <2>1, <2>2, <2>3, <2>4 DEF IdInv
  <1> QED
    BY <1>0, <1>8, <1>9, <1>10 DEF OpenInv

LEMMA TakesOpenStep ==
    ASSUME TransportTyped, OpenInv, NEW p \in Peers, NEW i \in Ids, TakesOpen(p, i)
    PROVE  OpenInv'
  <1> DEFINE q == Other(p)
             s == InFlight(q)
             t == Tail(s)
  <1>0. /\ FlightTyped /\ StateTyped /\ q \in Peers /\ Other(q) = p
        /\ q # p /\ \A r \in Peers : r = p \/ r = q
    BY OtherPeer DEF Peers, TransportTyped
  <1>1. /\ s[1].type = "Open" /\ s[1].id = i
        /\ i % 2 = Parity(q) /\ i \in seen[q] /\ i \notin seen[p]
        /\ Parity(p) # Parity(q)
    BY <1>0, FirstOpened, Parities DEF TakesOpen, TakesType
  <1>2. /\ seen'[p] = seen[p] \cup {i} /\ seen'[q] = seen[q]
        /\ next_local_id' = next_local_id
    BY <1>0 DEF TakesOpen, StateTyped
  <1>3. /\ InFlight(q)' = t /\ s # << >> /\ s \in Seq(WireFrame)
        /\ InFlight(p)' = InFlight(p)
    BY <1>0, Places DEF TakesOpen, TakesType, Takes, Keeps
  <1>4. /\ \A k \in DOMAIN t : k + 1 \in DOMAIN s /\ t[k] = s[k + 1]
        /\ \A k \in DOMAIN t : \A x :
             /\ OpenBefore(t, k, x) => OpenBefore(s, k + 1, x)
             /\ OpenBefore(s, k + 1, x) => OpenBefore(t, k, x) \/ x = i
        /\ \A k \in DOMAIN t : OpenBefore(s, k + 1, i)
        /\ \A x : Opening(s, x) => Opening(t, x) \/ x = i
    BY <1>1, <1>3, TailPlaces
  <1> HIDE DEF t
  <1>5. OpenedFrom(q)'
    <2>1. ASSUME NEW k \in DOMAIN InFlight(q)'
          PROVE  Opened(q, k, InFlight(q)[k])'
      <3>1. Opened(q, k + 1, s[k + 1]) /\ InFlight(q)'[k] = s[k + 1]
        BY <1>0, <1>3, <1>4, <2>1 DEF OpenInv, OpenedFrom
      <3>2. /\ \A x : OpenBefore(InFlight(q)', k, x) => OpenBefore(s, k + 1, x)
            /\ \A x : OpenBefore(s, k + 1, x) => OpenBefore(InFlight(q)', k, x) \/ x = i
            /\ OpenBefore(s, k + 1, i)
        BY <1>3, <1>4, <2>1
      <3> QED
        BY <1>0, <1>2, <3>1, <3>2 DEF Opened
    <2> QED
      BY <2>1 DEF OpenedFrom
  <1>6. OpenedFrom(p)'
    <2>1. ASSUME NEW k \in DOMAIN InFlight(p)'
          PROVE  Opened(p, k, InFlight(p)[k])'
      <3>1. Opened(p, k, InFlight(p)[k]) /\ InFlight(p)'[k] = InFlight(p)[k]
        BY <1>0, <1>3, <2>1 DEF OpenInv, OpenedFrom
      <3> QED
        BY <1>0, <1>2, <1>3, <3>1 DEF Opened
    <2> QED
      BY <2>1 DEF OpenedFrom
  <1>7. IdInv'
    <2>1. \A r \in Peers : \A j \in seen'[r] : j % 2 = Parity(r) => j < next_local_id'[r]
      BY <1>0, <1>1, <1>2 DEF OpenInv, IdInv
    <2>2. \A r \in Peers : \A j \in Ids : Has(r, j)' => j \in seen'[r]
      <3>1. \A j \in Ids : /\ j # i /\ Has(p, j)' => Has(p, j)
                           /\ Has(q, j)' => Has(q, j)
        BY DEF TakesOpen, StateSet, Has
      <3> QED
        BY <1>0, <1>2, <3>1 DEF OpenInv, IdInv
    <2>3. \A r \in Peers : \A j \in seen'[r] :
            j \in seen'[Other(r)] \/ Opening(InFlight(r), j)'
      BY <1>0, <1>1, <1>2, <1>3, <1>4 DEF OpenInv, IdInv
    <2> QED
      BY <1>2, <2>1, <2>2, <2>3 DEF OpenInv, IdInv
  <1> QED
    BY <1>0, <1>5, <1>6, <1>7 DEF OpenInv

\* An Open in flight is accepted: the other end does not have its stream.
LEMMA OpenNotRefused ==
    ASSUME TransportTyped, GreetInv, OpenInv, NEW p \in Peers, Refuses(p)
    PROVE  InFlight(Other(p))[1].type # "Open"
  <1> DEFINE q == Other(p)
             f == InFlight(q)[1]
  <1> SUFFICES ASSUME f.type = "Open" PROVE FALSE
    OBVIOUS
  <1>0. /\ FlightTyped /\ q \in Peers /\ Other(q) = p
        /\ Takes(q) /\ Refusal(p, f) \notin {"none", "BufferOverflow"}
    BY OtherPeer DEF TransportTyped, Refuses
  <1>1. Established(p)
    BY RefusesStream
  <1>2. f.id \in Ids /\ f.id % 2 = Parity(q) /\ f.id \notin seen[p]
    BY <1>0, FirstOpened
  <1>3. OpenAccepted(p, f.id)
    BY <1>2, Parities DEF OpenInv, IdInv
  <1> HIDE DEF f
  <1> QED
    BY <1>0, <1>1, <1>3 DEF Refusal, ControlTypes

LEMMA KindOpen ==
    ASSUME TransportTyped, GreetInv, OpenInv, NEW p \in Peers, Kind(p)
    PROVE  OpenInv'
  <1> DEFINE q == Other(p)
  <1>0. q \in Peers /\ FlightTyped /\ \A r \in Peers : r = p \/ r = q
    BY OtherPeer DEF TransportTyped, Peers
  <1>1. ASSUME UNCHANGED streams
        PROVE  \A r \in Peers, i \in Ids : Has(r, i)' => Has(r, i)
    BY <1>1 DEF Has
  <1>2. /\ \A type \in {"Hello", "Welcome"} :
             Control(type) \in WireFrame /\ Known(p, Control(type))
        /\ \A type \in {"Ping", "Pong"}, n \in Int :
             Frame(type, 0, n) \in WireFrame /\ Known(p, Frame(type, 0, n))
    BY FramesTyped DEF Known, Control, Frame, StreamFrames
  <1>3. CASE Greets(p)
    BY <1>1, <1>2, <1>3, KnownStep DEF Greets
  <1>4. CASE AnswersHello(p)
    BY <1>1, <1>2, <1>4, KnownStep DEF AnswersHello, TakesType
  <1>5. CASE TakesWelcome(p)
    BY <1>1, <1>5, KnownStep DEF TakesWelcome, TakesType
  <1>6. CASE Opens(p)
    BY <1>6, OpensStep
  <1>7. ASSUME NEW i \in Ids, TakesOpen(p, i)
        PROVE  OpenInv'
    BY <1>7, TakesOpenStep
  <1>8. ASSUME NEW i \in Ids, NEW type \in StreamFrames, Uses(p, i, type)
        PROVE  OpenInv'
    <2>1. \A n \in Int : Frame(type, i, n) \in WireFrame /\ Known(p, Frame(type, i, n))
      BY <1>8, FramesTyped DEF Known, Frame, Uses
    <2>2. \E st : StateSet(p, i, st)
      BY <1>8 DEF Uses
    <2>3. \A r \in Peers, j \in Ids : Has(r, j)' => Has(r, j)
      BY <1>0, <1>8, <2>2 DEF StateSet, Has, Uses
    <2> QED
      BY <1>8, <2>1, <2>3, KnownStep DEF Uses, Steady
  <1>9. ASSUME NEW i \in Ids, NEW type \in StreamFrames, TakesUse(p, i, type)
        PROVE  OpenInv'
    <2>1. \A j \in Ids : Has(p, j)' => Has(p, j)
      <3>1. Has(p, i)' => Has(p, i)
        BY <1>9 DEF TakesUse, StateSet, Has, StreamStates
      <3>2. \E st : StateSet(p, i, st)
        BY <1>9 DEF TakesUse
      <3> QED
        BY <3>1, <3>2 DEF StateSet, Has
    <2>2. \A j \in Ids : Has(q, j)' => Has(q, j)
      BY <1>9 DEF TakesUse, StateSet, Has
    <2>3. \A r \in Peers, j \in Ids : Has(r, j)' => Has(r, j)
      BY <1>0, <2>1, <2>2
    <2>4. type # "Open"
      BY <1>9 DEF TakesUse
    <2> QED
      BY <1>9, <2>3, <2>4, KnownStep DEF TakesUse, TakesType, Steady
  <1>10. CASE Idles(p)
    BY <1>1, <1>2, <1>10, KnownStep DEF Idles, TakesType, Steady
  <1>11. CASE Refuses(p)
    <2>1. Keeps(p) /\ InFlight(q)[1].type # "Open"
      BY <1>11, RefusesStream, OpenNotRefused
    <2> QED
      BY <1>1, <1>11, <2>1, KnownStep DEF Refuses, Steady
  <1> QED
    BY <1>3, <1>4, <1>5, <1>6, <1>7, <1>8, <1>9, <1>10, <1>11 DEF Kind

-----------------------------------------------------------------------------
(* Closes.                                                                 *)

LEMMA InitClose == TransportInit => CloseInv
  <1> SUFFICES ASSUME TransportInit PROVE CloseInv
    OBVIOUS
  <1>1. \A p \in Peers : InFlight(p) = << >>
    BY DEF TransportInit, InFlight
  <1>2. \A p \in Peers, i \in Ids : streams[p][i].state # "HalfClosedRemote"
    BY DEF TransportInit, NoStream
  <1>3. \A p \in Peers : ClosedFrom(p)
    BY <1>1 DEF ClosedFrom
  <1> QED
    BY <1>2, <1>3 DEF CloseInv

\* What an end has finished it does not take up again.
LEMMA FinishedStays ==
    ASSUME TransportTyped, OpenInv, NEW p \in Peers, Kind(p),
           NEW r \in Peers, NEW i \in Ids, Finished(r, i)
    PROVE  Finished(r, i)'
  <1> DEFINE q == Other(p)
  <1>0. /\ q \in Peers /\ (r = p \/ r = q) /\ p # q /\ Other(q) = p
        /\ FlightTyped /\ StateTyped
    BY OtherPeer DEF TransportTyped, Peers
  <1>1. i \in seen[r] /\ ~CanSend(streams[r][i])
    BY DEF Finished
  <1>2. ASSUME NEW j \in Ids, NEW st, StateSet(p, j, st),
               i = j /\ r = p => st \notin {"Open", "HalfClosedRemote"}
        PROVE  ~CanSend(streams'[r][i])
    BY <1>0, <1>1, <1>2 DEF StateSet, CanSend
  <1>3. CASE Opens(p)
    BY <1>0, <1>1, <1>2, <1>3, NextIdIsNew DEF Opens, Finished, StateTyped
  <1>4. ASSUME NEW j \in Ids, TakesOpen(p, j)
        PROVE  Finished(r, i)'
    <2>1. j \notin seen[p]
      BY <1>0, <1>4, FirstOpened DEF TakesOpen, TakesType
    <2> QED
      BY <1>0, <1>1, <1>2, <1>4, <2>1 DEF TakesOpen, Finished, StateTyped
  <1>5. ASSUME NEW j \in Ids, NEW type \in StreamFrames, Uses(p, j, type) \/ TakesUse(p, j, type)
        PROVE  Finished(r, i)'
    <2>1. PICK st : StateSet(p, j, st) /\
                    \/ st = streams[p][j].state \/ st = "None"
                    \/ st = OnLocalClose(streams[p][j]).state
                    \/ st = OnRemoteClose(streams[p][j]).state
      BY <1>5 DEF Uses, TakesUse
    <2>2. streams[p][j] \in StreamRecord
      BY <1>0 DEF StateTyped
    <2>3. ~CanSend(streams[p][j]) => st \notin {"Open", "HalfClosedRemote"}
      BY <2>1, <2>2 DEF CanSend, OnLocalClose, OnRemoteClose, NoStream, StreamRecord, StreamStates
    <2>4. ~CanSend(streams'[r][i])
      BY <1>1, <1>2, <2>1, <2>3
    <2> QED
      BY <1>1, <1>5, <2>4 DEF Uses, TakesUse, Steady, Finished
  <1>6. ASSUME UNCHANGED <<streams, seen>>
        PROVE  Finished(r, i)'
    BY <1>1, <1>6 DEF Finished
  <1>7. CASE Greets(p) \/ AnswersHello(p) \/ TakesWelcome(p) \/ Idles(p) \/ Refuses(p)
    BY <1>6, <1>7 DEF Greets, AnswersHello, TakesWelcome, Idles, Refuses, Steady
  <1> QED
    BY <1>3, <1>4, <1>5, <1>7 DEF Kind

\* Data is sent by an end that can send, and a Close is the end of that.
LEMMA KindSends ==
    ASSUME TransportTyped, GreetInv, OpenInv, NEW p \in Peers, Kind(p)
    PROVE  /\ \/ Keeps(p)
              \/ \E f \in WireFrame :
                   /\ Sends(p, f)
                   /\ f.type = "Data" => CanSend(streams[p][f.id])
                   /\ f.type = "Close" => Finished(p, f.id)'
           /\ Keeps(Other(p)) \/ Takes(Other(p))
  <1>0. StateTyped /\ FlightTyped
    BY DEF TransportTyped
  <1>1. /\ \A type \in {"Hello", "Welcome"} :
             Control(type) \in WireFrame /\ Control(type).type = type
        /\ \A type \in {"Ping", "Pong"}, n \in Int :
             Frame(type, 0, n) \in WireFrame /\ Frame(type, 0, n).type = type
    BY FramesTyped DEF Control, Frame
  <1>2. CASE Greets(p) \/ AnswersHello(p) \/ TakesWelcome(p) \/ Idles(p)
    BY <1>1, <1>2 DEF Greets, AnswersHello, TakesWelcome, TakesType, Idles
  <1>3. CASE Opens(p)
    <2>1. Frame("Open", next_local_id[p], 0) \in WireFrame
      BY <1>3, FramesTyped DEF Opens, StreamFrames
    <2> QED
      BY <1>3, <2>1 DEF Opens, Frame
  <1>4. ASSUME NEW i \in Ids, NEW type \in StreamFrames, Uses(p, i, type)
        PROVE  /\ \/ Keeps(p)
                  \/ \E f \in WireFrame :
                       /\ Sends(p, f)
                       /\ f.type = "Data" => CanSend(streams[p][f.id])
                       /\ f.type = "Close" => Finished(p, f.id)'
               /\ Keeps(Other(p))
    <2>1. \A n \in Int : /\ Frame(type, i, n) \in WireFrame
                         /\ Frame(type, i, n).type = type /\ Frame(type, i, n).id = i
      BY FramesTyped DEF Frame
    <2>2. type = "Data" => CanSend(streams[p][i])
      BY <1>4 DEF Uses
    <2>3. ASSUME type = "Close"
          PROVE  Finished(p, i)'
      <3>1. /\ streams[p][i] \in StreamRecord /\ i \in seen[p] /\ seen' = seen
            /\ streams'[p][i].state = OnLocalClose(streams[p][i]).state
        BY <1>0, <1>4, <2>3 DEF Uses, StateSet, Steady, StateTyped, OpenInv, IdInv
      <3>2. ~CanSend(streams'[p][i])
        BY <3>1 DEF CanSend, OnLocalClose, NoStream, StreamRecord, StreamStates
      <3> QED
        BY <3>1, <3>2 DEF Finished
    <2> QED
      BY <1>4, <2>1, <2>2, <2>3 DEF Uses
  <1>5. ASSUME NEW i \in Ids, NEW type \in StreamFrames, TakesOpen(p, i) \/ TakesUse(p, i, type)
        PROVE  Keeps(p) /\ Takes(Other(p))
    BY <1>5 DEF TakesOpen, TakesUse, TakesType
  <1>6. CASE Refuses(p)
    BY <1>6, RefusesStream DEF Refuses
  <1> QED
    BY <1>2, <1>3, <1>4, <1>5, <1>6 DEF Kind, StreamFrames

\* An end takes its peer for finished only when it takes a Close.
LEMMA KindRemote ==
    ASSUME TransportTyped, NEW p \in Peers, Kind(p), NEW r \in Peers, NEW i \in Ids,
           streams'[r][i].state = "HalfClosedRemote", streams[r][i].state # "HalfClosedRemote"
    PROVE  /\ r = p /\ TakesType(p, "Close") /\ InFlight(Other(p))[1].id = i
  <1> DEFINE q == Other(p)
  <1>0. q \in Peers /\ (r = p \/ r = q) /\ p # q /\ StateTyped
    BY OtherPeer DEF TransportTyped, Peers
  <1>1. ASSUME NEW j \in Ids, NEW st, StateSet(p, j, st)
        PROVE  r = p /\ i = j /\ st = "HalfClosedRemote"
    BY <1>0, <1>1 DEF StateSet
  <1>2. streams' # streams
    OBVIOUS
  <1>3. ASSUME NEW j \in Ids, NEW type \in StreamFrames, Uses(p, j, type)
        PROVE  FALSE
    <2>1. PICK st : StateSet(p, j, st) /\
                    \/ st = streams[p][j].state \/ st = "None"
                    \/ st = OnLocalClose(streams[p][j]).state
      BY <1>3 DEF Uses
    <2>2. streams[p][j] \in StreamRecord
      BY <1>0 DEF StateTyped
    <2> QED
      BY <1>1, <2>1, <2>2 DEF OnLocalClose, NoStream, StreamRecord, StreamStates
  <1>4. ASSUME NEW j \in Ids, NEW type \in StreamFrames, TakesUse(p, j, type)
        PROVE  r = p /\ TakesType(p, "Close") /\ InFlight(q)[1].id = i
    <2>1. CASE type = "Close"
      BY <1>1, <1>4, <2>1 DEF TakesUse
    <2>2. CASE type # "Close"
      BY <1>1, <1>4, <2>2 DEF TakesUse
    <2> QED
      BY <2>1, <2>2
  <1> QED
    BY <1>1, <1>2, <1>3, <1>4
       DEF Kind, Greets, AnswersHello, TakesWelcome, Opens, TakesOpen, Idles, Refuses

\* The Data of a stream whose sender has finished is in flight already, and
\* nothing new follows a Close.
LEMMA ClosedMoves ==
    ASSUME TransportTyped, GreetInv, OpenInv, CloseInv, NEW p \in Peers, Kind(p), NEW r \in Peers
    PROVE  /\ ClosedFrom(r)'
           /\ \A i \in Ids : Finished(r, i) /\ ~Underway(r, "Data", i) => ~Underway(r, "Data", i)'
  <1> DEFINE s == InFlight(r)
  <1>0. /\ s \in Seq(WireFrame) /\ ClosedFrom(r) /\ (r = p \/ r = Other(p))
        /\ \A k \in DOMAIN s : k \in Nat
    BY Places, OtherPeer DEF CloseInv, TransportTyped, Peers
  <1>1. \A i \in Ids : Finished(r, i) => Finished(r, i)' /\ ~CanSend(streams[r][i])
    BY FinishedStays DEF Finished
  <1>2. ASSUME NEW k \in DOMAIN s, s[k].type = "Close"
        PROVE  \E i \in Ids :
                 /\ s[k].id = i /\ Finished(r, i) /\ Finished(r, i)'
                 /\ \A j \in DOMAIN s : j > k => ~(s[j].type = "Data" /\ s[j].id = i)
    <2>1. Closed(r, k, s[k])
      BY <1>0 DEF ClosedFrom
    <2>2. s[k] \in WireFrame
      BY <1>0, Places DEF TransportTyped
    <2> QED
      BY <1>1, <1>2, <2>1, <2>2 DEF Closed, WireFrame, StreamFrames
  <1>3. CASE Keeps(r)
    BY <1>2, <1>3 DEF Keeps, ClosedFrom, Closed, Underway
  <1>4. ASSUME NEW f \in WireFrame, Sends(r, f),
               f.type = "Data" => CanSend(streams[r][f.id]),
               f.type = "Close" => Finished(r, f.id)'
        PROVE  /\ ClosedFrom(r)'
               /\ \A i \in Ids : Finished(r, i) /\ ~Underway(r, "Data", i) => ~Underway(r, "Data", i)'
    <2> DEFINE t == Append(s, f)
               n == Len(s) + 1
    <2>1. InFlight(r)' = t
      BY <1>4 DEF Sends
    <2>2. /\ DOMAIN t = DOMAIN s \cup {n}
          /\ \A k \in DOMAIN s : k < n /\ t[k] = s[k]
          /\ t[n] = f
      BY <1>0, AppendPlaces
    <2>3. n \in Nat
      BY <1>0, Places DEF TransportTyped
    <2> HIDE DEF t, n
    <2>4. ASSUME NEW k \in DOMAIN InFlight(r)'
          PROVE  Closed(r, k, InFlight(r)[k])'
      <3>1. CASE k \in DOMAIN s
        <4>1. InFlight(r)'[k] = s[k]
          BY <2>1, <2>2, <3>1
        <4>2. ASSUME s[k].type = "Close", NEW j \in DOMAIN t, j > k
              PROVE  ~(t[j].type = "Data" /\ t[j].id = s[k].id)
          BY <1>1, <1>2, <1>4, <2>2, <3>1, <4>2
        <4> QED
          BY <1>2, <2>1, <3>1, <4>1, <4>2 DEF Closed
      <3>2. CASE k = n
        <4>1. InFlight(r)'[k] = f /\ \A j \in DOMAIN t : ~(j > k)
          BY <1>0, <2>1, <2>2, <2>3, <3>2
        <4> QED
          BY <1>4, <2>1, <4>1 DEF Closed
      <3> QED
        BY <2>1, <2>2, <2>4, <3>1, <3>2
    <2>5. ASSUME NEW i \in Ids, Finished(r, i), ~Underway(r, "Data", i)
          PROVE  ~Underway(r, "Data", i)'
      BY <1>1, <1>4, <2>1, <2>2, <2>5 DEF Underway
    <2> QED
      BY <2>4, <2>5 DEF ClosedFrom
  <1>5. CASE Takes(r)
    <2> DEFINE t == Tail(s)
    <2>1. InFlight(r)' = t /\ s # << >>
      BY <1>5 DEF Takes
    <2>2. /\ \A k \in DOMAIN t : k + 1 \in DOMAIN s /\ t[k] = s[k + 1]
          /\ \A k, j \in DOMAIN t : j > k => j + 1 > k + 1
      BY <1>0, <2>1, TailPlaces
    <2> HIDE DEF t
    <2>3. ASSUME NEW k \in DOMAIN InFlight(r)'
          PROVE  Closed(r, k, InFlight(r)[k])'
      <3>1. k + 1 \in DOMAIN s /\ InFlight(r)'[k] = s[k + 1]
        BY <2>1, <2>2, <2>3
      <3>2. ASSUME s[k + 1].type = "Close", NEW j \in DOMAIN t, j > k
            PROVE  ~(t[j].type = "Data" /\ t[j].id = s[k + 1].id)
        BY <1>2, <2>1, <2>2, <2>3, <3>1, <3>2
      <3> QED
        BY <1>2, <2>1, <3>1, <3>2 DEF Closed
    <2>4. ASSUME NEW i \in Ids, ~Underway(r, "Data", i)
          PROVE  ~Underway(r, "Data", i)'
      BY <2>1, <2>2, <2>4 DEF Underway
    <2> QED
      BY <2>3, <2>4 DEF ClosedFrom
  <1>6. \/ Keeps(r) \/ Takes(r)
        \/ \E f \in WireFrame :
             /\ Sends(r, f)
             /\ f.type = "Data" => CanSend(streams[r][f.id])
             /\ f.type = "Close" => Finished(r, f.id)'
    BY <1>0, KindSends
  <1> QED
    BY <1>3, <1>4, <1>5, <1>6

LEMMA KindClose ==
    ASSUME TransportTyped, GreetInv, OpenInv, CloseInv, NEW p \in Peers, Kind(p)
    PROVE  CloseInv'
  <1>1. ASSUME NEW r \in Peers, NEW i \in Ids, streams'[r][i].state = "HalfClosedRemote"
        PROVE  Finished(Other(r), i)' /\ ~Underway(Other(r), "Data", i)'
    <2> DEFINE o == Other(r)
               s == InFlight(o)
    <2>0. o \in Peers /\ Other(o) = r
      BY OtherPeer
    <2>1. CASE streams[r][i].state = "HalfClosedRemote"
      <3>1. Finished(o, i) /\ ~Underway(o, "Data", i)
        BY <2>1 DEF CloseInv
      <3> QED
        BY <2>0, <3>1, FinishedStays, ClosedMoves
    <2>2. CASE streams[r][i].state # "HalfClosedRemote"
      <3>1. /\ s # << >> /\ InFlight(o)' = Tail(s) /\ s \in Seq(WireFrame)
            /\ s[1].type = "Close" /\ s[1].id = i
        BY <1>1, <2>0, <2>2, KindRemote, Places DEF TakesType, Takes, TransportTyped
      <3>2. /\ 1 \in DOMAIN s
            /\ \A k \in DOMAIN Tail(s) :
                 k + 1 \in DOMAIN s /\ Tail(s)[k] = s[k + 1] /\ k + 1 > 1
        BY <3>1, TailPlaces
      <3>3. Closed(o, 1, s[1])
        BY <2>0, <3>2 DEF CloseInv, ClosedFrom
      <3>4. Finished(o, i) /\ \A j \in DOMAIN s : j > 1 => ~(s[j].type = "Data" /\ s[j].id = i)
        BY <3>1, <3>3 DEF Closed
      <3>5. ~Underway(o, "Data", i)'
        BY <3>1, <3>2, <3>4 DEF Underway
      <3> QED
        BY <2>0, <3>4, <3>5, FinishedStays
    <2> QED
      BY <2>1, <2>2
  <1>2. \A r \in Peers : ClosedFrom(r)'
    BY ClosedMoves
  <1> QED
    BY <1>1, <1>2 DEF CloseInv

-----------------------------------------------------------------------------
(* Types, handshake, ids and closes together.                              *)

TransportInv == TransportTyped /\ RoomInv /\ GreetInv /\ OpenInv /\ CloseInv

LEMMA StepKind ==
    ASSUME TransportTyped, RoomInv, TransportNext
    PROVE  TransportTyped' /\ \E p \in Peers : Kind(p)
  <1>1. ASSUME NEW p \in Peers, ConnectionFails(p)
        PROVE  TransportTyped' /\ Kind(p)
    <2>1. Keeps(p) /\ Keeps(Other(p)) /\ FlightTyped'
      BY <1>1, FailureFlight DEF TransportTyped
    <2>2. StateTyped'
      BY <1>1 DEF ConnectionFails, TransportTyped, StateTyped
    <2>3. Idles(p)
      BY <1>1, <2>1 DEF ConnectionFails, Idles, Steady
    <2> QED
      BY <2>1, <2>2, <2>3 DEF TransportTyped, Kind
  <1> QED
    BY <1>1, CallKind, RecvKind DEF TransportNext

\* No call and no answer fills a buffer to the threshold.
LEMMA StepRoom ==
    ASSUME RoomInv, TransportNext
    PROVE  RoomInv'
  <1>1. \A type, i : Size(Frame(type, i, 0)) \in Nat
    BY TransportAssumption DEF Size, Frame
  <1>2. \A i, n : n \in Nat => /\ Size(Frame("Data", i, n)) \in Nat
                             /\ Size(Frame("Window", i, n)) \in Nat
    BY TransportAssumption DEF Size, Frame
  <1>3. \A i, n : Size(Frame("Window", i, n)) \in Nat
    BY TransportAssumption DEF Size, Frame
  <1>4. ASSUME NEW p \in Peers, NEW f, SendFrame(p, f)
        PROVE  RoomInv'
    BY <1>4, RoomMoves DEF SendFrame, Flushed, connVars
  <1>5. ASSUME NEW p \in Peers, Call(p)
        PROVE  RoomInv'
    <2>1. CASE StartHandshake(p) \/ \E n \in PingSizes : SendPing(p, n)
      BY <1>4, <2>1 DEF StartHandshake, SendPing
    <2>2. CASE OpenStream(p)
      BY <1>1, <2>2, RoomMoves DEF OpenStream
    <2>3. CASE Flush(p)
      BY <2>3, RoomMoves DEF Flush, Flushed
    <2>4. ASSUME NEW i \in Ids, NEW n \in Sizes, SendData(p, i, n)
          PROVE  RoomInv'
      <3>1. n \in Nat
        BY TransportAssumption DEF Sizes
      <3> QED
        BY <1>2, <2>4, <3>1, RoomMoves DEF SendData
    <2>5. ASSUME NEW i \in Ids, CloseStream(p, i) \/ ResetStream(p, i) \/ RecvData(p, i)
          PROVE  RoomInv'
      BY <1>1, <1>3, <1>4, <2>5, RoomMoves
         DEF CloseStream, ResetStream, RecvData, connVars
    <2> QED
      BY <1>5, <2>1, <2>2, <2>3, <2>4, <2>5 DEF Call
  <1>6. ASSUME NEW p \in Peers, RecvFrame(p)
        PROVE  RoomInv'
    <2>1. TakeFrame(p) \/ \E f : TakeAndAnswer(p, f)
      BY <1>6 DEF RecvFrame, RecvHello, RecvWelcome, RecvPing, RecvPong, RecvOpen,
                  RecvStreamData, RecvClose, RecvReset, RecvWindow, RecvOnStream, RecvRefused
    <2> QED
      BY <2>1, RoomMoves DEF TakeFrame, TakeAndAnswer
  <1>7. ASSUME NEW p \in Peers, ConnectionFails(p)
        PROVE  RoomInv'
    BY <1>7, RoomMoves DEF ConnectionFails
  <1> QED
    BY <1>5, <1>6, <1>7 DEF TransportNext

LEMMA StutterKeeps ==
    ASSUME TransportInv, UNCHANGED transportVars
    PROVE  TransportInv'
  <1> USE DEF transportVars, connVars
  <1>1. TransportTyped'
    BY DEF TransportInv, TransportTyped, StateTyped, FlightTyped
  <1>2. \A p \in Peers : InFlight(p)' = InFlight(p)
    BY DEF InFlight
  <1>3. GreetInv'
    BY <1>2 DEF TransportInv, GreetInv, TurnInv, GreetedFrom, Greeted, Established, Peers
  <1>4. OpenInv'
    BY <1>2 DEF TransportInv, OpenInv, IdInv, OpenedFrom, Opened, Has
  <1>5. CloseInv'
    BY <1>2, OtherPeer DEF TransportInv, CloseInv, ClosedFrom, Closed, Finished, Underway
  <1>6. RoomInv'
    BY DEF TransportInv, RoomInv
  <1> QED
    BY <1>1, <1>3, <1>4, <1>5, <1>6 DEF TransportInv

LEMMA TransportInductive ==
    /\ TransportInit => TransportInv
    /\ TransportInv /\ [TransportNext]_transportVars => TransportInv'
  <1>1. TransportInit => TransportInv
    <2>1. TransportInit => RoomInv
      BY TransportAssumption DEF TransportInit, RoomInv
    <2> QED
      BY <2>1, InitTyped, InitGreet, InitOpen, InitClose DEF TransportInv
  <1>2. ASSUME TransportInv, TransportNext
        PROVE  TransportInv'
    <2>1. TransportTyped /\ RoomInv /\ GreetInv /\ OpenInv /\ CloseInv
      BY <1>2 DEF TransportInv
    <2>2. TransportTyped' /\ \E p \in Peers : Kind(p)
      BY <1>2, <2>1, StepKind
    <2>3. PICK p \in Peers : Kind(p)
      BY <2>2
    <2> QED
      BY <1>2, <2>1, <2>2, <2>3, StepRoom, KindGreet, KindOpen, KindClose DEF TransportInv
  <1> QED
    BY <1>1, <1>2, StutterKeeps

-----------------------------------------------------------------------------
(* Sums.  SumFunction adds in an order that CHOOSE determines; a function   *)
(* that gives the sum of every part of the domain shows that the order does *)
(* not matter.                                                              *)

LEMMA LeastNumber ==
    ASSUME NEW T \in SUBSET Nat, T # {}
    PROVE  \E x \in T : \A y \in T : ~(y < x)
  <1> DEFINE R == {ss \in Nat \X Nat : ss[1] < ss[2]}
  <1>1. IsWellFoundedOn(R, Nat)
    BY NatLessThanWellFounded DEF OpToRel
  <1>2. PICK x \in T : \A y \in T : <<y, x>> \notin R
    BY <1>1, WFMin
  <1> QED
    BY <1>2

\* A set with 0 and with the successors of its members has all numbers.
LEMMA AllNumbers ==
    ASSUME NEW S, 0 \in S, \A n \in Nat : n \in S => n + 1 \in S
    PROVE  Nat \subseteq S
  <1> SUFFICES ASSUME Nat \ S # {} PROVE FALSE
    OBVIOUS
  <1>1. PICK n \in Nat \ S : \A m \in Nat \ S : ~(m < n)
    BY LeastNumber
  <1>2. n # 0 /\ n - 1 \in Nat /\ n - 1 \in S
    BY <1>1
  <1> QED
    BY <1>1, <1>2

\* g[s] is the sum of f over s.
Sums(f, g) ==
    /\ g \in [SUBSET DOMAIN f -> Nat]
    /\ g[{}] = 0
    /\ \A s \in SUBSET DOMAIN f : \A x \in s : g[s] = f[x] + g[s \ {x}]

Summable == {n \in Nat : \A f \in [1 .. n -> Nat] : \E g : Sums(f, g)}

\* A number more.
LEMMA SumsExtended ==
    ASSUME NEW n \in Nat, NEW f \in [1 .. n -> Nat], NEW h \in [1 .. n + 1 -> Nat],
           \A k \in 1 .. n : h[k] = f[k],
           NEW g, Sums(f, g)
    PROVE  \E e : Sums(h, e)
  <1> DEFINE m == n + 1
             D == SUBSET (1 .. m)
             e == [s \in D |-> IF m \in s THEN g[s \ {m}] + h[m] ELSE g[s]]
  <1>1. \A s \in D : s \ {m} \in SUBSET (1 .. n) /\ (m \notin s => s \in SUBSET (1 .. n))
    OBVIOUS
  <1>2. g \in [SUBSET (1 .. n) -> Nat] /\ h[m] \in Nat /\ DOMAIN f = 1 .. n /\ DOMAIN h = 1 .. m
    BY DEF Sums
  <1>3. e \in [D -> Nat]
    BY <1>1, <1>2
  <1>4. e[{}] = 0
    <2>1. {} \in D /\ m \notin {}
      OBVIOUS
    <2> QED
      BY <2>1 DEF Sums
  <1>5. ASSUME NEW s \in D, NEW x \in s
        PROVE  e[s] = h[x] + e[s \ {x}]
    <2>1. s \ {x} \in D
      OBVIOUS
    <2>2. CASE m \notin s
      <3>1. e[s] = g[s] /\ e[s \ {x}] = g[s \ {x}]
        BY <2>1, <2>2
      <3>2. x \in 1 .. n /\ s \in SUBSET (1 .. n)
        BY <1>1, <2>2
      <3>3. g[s] = f[x] + g[s \ {x}]
        BY <1>2, <3>2 DEF Sums
      <3> QED
        BY <3>1, <3>2, <3>3
    <2>3. CASE m \in s /\ x = m
      <3>1. e[s] = g[s \ {m}] + h[m] /\ e[s \ {x}] = g[s \ {m}]
        BY <2>1, <2>3
      <3>2. g[s \ {m}] \in Nat
        BY <1>1, <1>2
      <3> QED
        BY <1>2, <2>3, <3>1, <3>2
    <2>4. CASE m \in s /\ x # m
      <3> DEFINE r == s \ {m}
      <3>1. r \in SUBSET (1 .. n) /\ x \in r /\ (s \ {x}) \ {m} = r \ {x} /\ x \in 1 .. n
        BY <1>1, <2>4
      <3>2. e[s] = g[r] + h[m] /\ e[s \ {x}] = g[r \ {x}] + h[m]
        BY <2>1, <2>4, <3>1
      <3>3. g[r] = f[x] + g[r \ {x}]
        BY <1>2, <3>1 DEF Sums
      <3>4. g[r] \in Nat /\ g[r \ {x}] \in Nat /\ f[x] \in Nat /\ h[x] = f[x]
        <4>1. r \ {x} \in SUBSET (1 .. n)
          BY <3>1
        <4> QED
          BY <1>2, <3>1, <4>1
      <3> HIDE DEF r, e
      <3> QED
        BY <1>2, <3>2, <3>3, <3>4
    <2> QED
      BY <2>2, <2>3, <2>4
  <1> HIDE DEF e
  <1>6. Sums(h, e)
    BY <1>2, <1>3, <1>4, <1>5 DEF Sums
  <1> QED
    BY <1>6

LEMMA SumsExist ==
    ASSUME NEW n \in Nat, NEW f \in [1 .. n -> Nat]
    PROVE  \E g : Sums(f, g)
  <1>1. 0 \in Summable
    <2> SUFFICES ASSUME NEW h \in [1 .. 0 -> Nat] PROVE \E g : Sums(h, g)
      BY DEF Summable
    <2>1. DOMAIN h = {} /\ SUBSET {} = {{}}
      OBVIOUS
    <2>2. Sums(h, [s \in {{}} |-> 0])
      BY <2>1 DEF Sums
    <2> QED
      BY <2>2
  <1>2. ASSUME NEW m \in Nat, m \in Summable
        PROVE  m + 1 \in Summable
    <2> SUFFICES ASSUME NEW h \in [1 .. m + 1 -> Nat] PROVE \E g : Sums(h, g)
      BY DEF Summable
    <2> DEFINE r == [k \in 1 .. m |-> h[k]]
    <2>1. r \in [1 .. m -> Nat] /\ \A k \in 1 .. m : h[k] = r[k]
      OBVIOUS
    <2>2. PICK g : Sums(r, g)
      BY <1>2, <2>1 DEF Summable
    <2> HIDE DEF r
    <2> QED
      BY <2>1, <2>2, SumsExtended
  <1>3. n \in Summable
    BY <1>1, <1>2, AllNumbers
  <1> QED
    BY <1>3 DEF Summable

\* Whatever gives all sums gives what SumFunction computes.
LEMMA SumIs ==
    ASSUME NEW n \in Nat, NEW f \in [1 .. n -> Nat], NEW g, Sums(f, g)
    PROVE  SumFunction(f) = g[1 .. n]
  <1> DEFINE D == SUBSET DOMAIN f
             first(s) == CHOOSE x \in s : TRUE
             Fold(h) == h = [s \in D |-> IF s = {} THEN 0 ELSE f[first(s)] + h[s \ {first(s)}]]
             fold == CHOOSE h : Fold(h)
  <1>1. \A s \in D : s # {} => first(s) \in s /\ s \ {first(s)} \in D
    OBVIOUS
  <1>2. Fold(g)
    <2>1. \A s \in D : g[s] = IF s = {} THEN 0 ELSE f[first(s)] + g[s \ {first(s)}]
      BY <1>1 DEF Sums
    <2>2. g = [s \in D |-> g[s]]
      BY DEF Sums
    <2> HIDE DEF D, first
    <2> QED
      BY <2>1, <2>2
  <1>3. Fold(fold)
    BY <1>2
  <1>4. SumFunction(f) = fold[DOMAIN f]
    BY DEF SumFunction, SumFunctionOnSet, FoldFunctionOnSet, MapThenFoldSet
  <1>5. ASSUME NEW s \in D
        PROVE  IsFiniteSet(s) /\ Cardinality(s) \in Nat
    <2>1. s \subseteq 1 .. n
      OBVIOUS
    <2>2. IsFiniteSet(1 .. n)
      <3>1. 1 \in Int /\ n \in Int
        OBVIOUS
      <3> QED
        BY <3>1, FS_Interval
    <2>3. IsFiniteSet(s)
      BY <2>1, <2>2, FS_Subset
    <2> QED
      BY <2>3, FS_CardinalityType
  <1>6. ASSUME NEW s \in D, s # {}
        PROVE  Cardinality(s \ {first(s)}) < Cardinality(s)
    <2>1. first(s) \in s
      BY <1>1, <1>6
    <2>2. IsFiniteSet(s) /\ Cardinality(s) \in Nat
      BY <1>5
    <2> HIDE DEF first, D
    <2>3. PICK x \in s : x = first(s)
      BY <2>1
    <2>4. Cardinality(s \ {x}) = Cardinality(s) - 1
      BY <2>2, FS_RemoveElement
    <2> QED
      BY <2>2, <2>3, <2>4
  <1>7. \A s \in D : fold[s] = IF s = {} THEN 0 ELSE f[first(s)] + fold[s \ {first(s)}]
    <2> HIDE DEF first, fold, D
    <2> QED
      BY <1>3
  <1>8. \A s \in D : g[s] = IF s = {} THEN 0 ELSE f[first(s)] + g[s \ {first(s)}]
    BY <1>1 DEF Sums
  <1> HIDE DEF first, fold, Fold, D
  <1> DEFINE bad == {s \in D : fold[s] # g[s]}
  <1>9. bad = {}
    <2> SUFFICES ASSUME bad # {} PROVE FALSE
      OBVIOUS
    <2> DEFINE T == {Cardinality(s) : s \in bad}
    <2>1. T \in SUBSET Nat /\ T # {}
      BY <1>5
    <2>2. PICK c \in T : \A b \in T : ~(b < c)
      BY <2>1, LeastNumber
    <2>3. PICK s \in bad : Cardinality(s) = c
      BY <2>2
    <2>4. s # {}
      BY <1>7, <1>8
    <2>5. s \ {first(s)} \in D /\ s \ {first(s)} \notin bad
      BY <1>1, <1>6, <2>2, <2>3, <2>4
    <2> QED
      BY <1>7, <1>8, <2>4, <2>5
  <1>10. DOMAIN f \in D /\ DOMAIN f = 1 .. n
    BY DEF D
  <1> QED
    BY <1>4, <1>9, <1>10

LEMMA SumNat ==
    ASSUME NEW n \in Nat, NEW f \in [1 .. n -> Nat]
    PROVE  SumFunction(f) \in Nat
  <1>1. PICK g : Sums(f, g)
    BY SumsExist
  <1>2. SumFunction(f) = g[1 .. n]
    BY <1>1, SumIs
  <1> QED
    BY <1>1, <1>2 DEF Sums

LEMMA SumEmpty ==
    ASSUME NEW f \in [1 .. 0 -> Nat]
    PROVE  SumFunction(f) = 0
  <1>1. PICK g : Sums(f, g)
    BY SumsExist, 0 \in Nat
  <1>2. 0 \in Nat /\ 1 .. 0 = {}
    OBVIOUS
  <1>3. SumFunction(f) = g[1 .. 0]
    BY <1>1, <1>2, SumIs
  <1> QED
    BY <1>1, <1>2, <1>3 DEF Sums

\* A last number adds itself.
LEMMA SumLast ==
    ASSUME NEW n \in Nat, NEW f \in [1 .. n -> Nat], NEW h \in [1 .. n + 1 -> Nat],
           \A k \in 1 .. n : h[k] = f[k]
    PROVE  SumFunction(h) = SumFunction(f) + h[n + 1]
  <1> DEFINE m == n + 1
  <1>0. m \in Nat
    OBVIOUS
  <1>1. PICK g : Sums(h, g)
    BY <1>0, SumsExist
  <1>2. SumFunction(h) = g[1 .. m] /\ DOMAIN h = 1 .. m /\ DOMAIN f = 1 .. n /\ m \in 1 .. m
    BY <1>0, <1>1, SumIs
  <1> DEFINE e == [s \in SUBSET (1 .. n) |-> g[s]]
  <1>3. SUBSET (1 .. n) \subseteq SUBSET (1 .. m)
    OBVIOUS
  <1>4. g \in [SUBSET (1 .. m) -> Nat] /\ g[{}] = 0
    BY <1>1, <1>2 DEF Sums
  <1>5. Sums(f, e)
    <2>1. e \in [SUBSET (1 .. n) -> Nat] /\ e[{}] = 0
      BY <1>3, <1>4
    <2>2. ASSUME NEW s \in SUBSET (1 .. n), NEW x \in s
          PROVE  e[s] = f[x] + e[s \ {x}]
      <3>1. s \in SUBSET (1 .. m) /\ s \ {x} \in SUBSET (1 .. n) /\ x \in 1 .. n
        OBVIOUS
      <3>2. g[s] = h[x] + g[s \ {x}]
        BY <1>1, <1>2, <3>1 DEF Sums
      <3> QED
        BY <3>1, <3>2
    <2> HIDE DEF e
    <2> QED
      BY <1>2, <2>1, <2>2 DEF Sums
  <1>6. SumFunction(f) = e[1 .. n]
    <2> HIDE DEF e
    <2> QED
      BY <1>5, SumIs
  <1>7. e[1 .. n] = g[1 .. n] /\ (1 .. m) \ {m} = 1 .. n
    OBVIOUS
  <1>8. 1 .. m \in SUBSET (1 .. m) /\ g[1 .. m] = h[m] + g[(1 .. m) \ {m}]
    BY <1>1, <1>2 DEF Sums
  <1>9. g[1 .. n] \in Nat /\ h[m] \in Nat
    BY <1>3, <1>4
  <1> HIDE DEF e, m
  <1>10. SumFunction(h) = h[m] + SumFunction(f)
    BY <1>2, <1>6, <1>7, <1>8
  <1> QED
    BY <1>6, <1>7, <1>9, <1>10 DEF m

\* So does a first one.
LEMMA SumFirst ==
    ASSUME NEW n \in Nat, NEW f \in [1 .. n -> Nat], NEW h \in [1 .. n + 1 -> Nat],
           \A k \in 1 .. n : h[k + 1] = f[k]
    PROVE  SumFunction(h) = h[1] + SumFunction(f)
  <1> DEFINE m == n + 1
             up(s) == {k + 1 : k \in s}
  <1>0. m \in Nat
    OBVIOUS
  <1>1. PICK g : Sums(h, g)
    BY <1>0, SumsExist
  <1>2. SumFunction(h) = g[1 .. m] /\ DOMAIN h = 1 .. m /\ DOMAIN f = 1 .. n /\ 1 \in 1 .. m
    BY <1>0, <1>1, SumIs
  <1> DEFINE e == [s \in SUBSET (1 .. n) |-> g[up(s)]]
  <1>3. \A s \in SUBSET (1 .. n) : up(s) \in SUBSET (1 .. m)
    OBVIOUS
  <1>4. g \in [SUBSET (1 .. m) -> Nat] /\ g[{}] = 0
    BY <1>1, <1>2 DEF Sums
  <1>5. Sums(f, e)
    <2>1. up({}) = {} /\ {} \in SUBSET (1 .. n)
      OBVIOUS
    <2>2. e \in [SUBSET (1 .. n) -> Nat] /\ e[{}] = 0
      <3> HIDE DEF up
      <3> QED
        BY <1>3, <1>4, <2>1
    <2>3. ASSUME NEW s \in SUBSET (1 .. n), NEW x \in s
          PROVE  e[s] = f[x] + e[s \ {x}]
      <3>1. /\ up(s) \in SUBSET (1 .. m) /\ s \ {x} \in SUBSET (1 .. n)
            /\ x \in 1 .. n /\ x + 1 \in up(s)
        BY <1>3
      <3>2. up(s \ {x}) = up(s) \ {x + 1}
        <4>1. \A k \in s : k \in Nat /\ (k + 1 = x + 1 => k = x)
          OBVIOUS
        <4>2. \A y : y \in up(s \ {x}) <=> \E k \in s : k # x /\ y = k + 1
          OBVIOUS
        <4>3. \A y : y \in up(s) \ {x + 1} <=> \E k \in s : y = k + 1 /\ y # x + 1
          OBVIOUS
        <4>4. \A y : y \in up(s \ {x}) <=> y \in up(s) \ {x + 1}
          BY <4>1, <4>2, <4>3
        <4> HIDE DEF up
        <4> QED
          BY <4>4
      <3> HIDE DEF up
      <3>3. g[up(s)] = h[x + 1] + g[up(s) \ {x + 1}]
        BY <1>1, <1>2, <3>1 DEF Sums
      <3> QED
        BY <3>1, <3>2, <3>3
    <2> HIDE DEF e
    <2> QED
      BY <1>2, <2>2, <2>3 DEF Sums
  <1>6. SumFunction(f) = e[1 .. n]
    <2> HIDE DEF e
    <2> QED
      BY <1>5, SumIs
  <1>7. up(1 .. n) = (1 .. m) \ {1}
    <2>1. ASSUME NEW k \in (1 .. m) \ {1}
          PROVE  k \in up(1 .. n)
      <3>1. k - 1 \in 1 .. n /\ k = (k - 1) + 1
        OBVIOUS
      <3> QED
        BY <3>1
    <2>2. up(1 .. n) \subseteq (1 .. m) \ {1}
      OBVIOUS
    <2> HIDE DEF up
    <2> QED
      BY <2>1, <2>2
  <1>8. g[1 .. m] = h[1] + g[(1 .. m) \ {1}]
    <2> DEFINE T == 1 .. m
    <2>1. T \in SUBSET DOMAIN h /\ 1 \in T
      BY <1>2
    <2> HIDE DEF T
    <2>2. g[T] = h[1] + g[T \ {1}]
      BY <1>1, <2>1 DEF Sums
    <2> QED
      BY <2>2 DEF T
  <1>9. e[1 .. n] = g[up(1 .. n)]
    OBVIOUS
  <1> HIDE DEF e, up
  <1> QED
    BY <1>2, <1>6, <1>7, <1>8, <1>9

\* The sum over a sequence.
LEMMA SumAppend ==
    ASSUME NEW q \in Seq(Nat)
    PROVE  /\ SumFunction(q) \in Nat
           /\ SumFunction(<< >>) = 0
           /\ \A n \in Nat : SumFunction(Append(q, n)) = SumFunction(q) + n
  <1>1. q \in [1 .. Len(q) -> Nat] /\ Len(q) \in Nat
    BY LenProperties
  <1>2. << >> \in [1 .. 0 -> Nat]
    OBVIOUS
  <1>3. ASSUME NEW n \in Nat
        PROVE  SumFunction(Append(q, n)) = SumFunction(q) + n
    <2> DEFINE t == Append(q, n)
    <2>1. /\ t \in Seq(Nat) /\ Len(t) = Len(q) + 1 /\ t[Len(q) + 1] = n
          /\ \A k \in 1 .. Len(q) : t[k] = q[k]
      BY AppendProperties
    <2>2. t \in [1 .. Len(q) + 1 -> Nat]
      BY <2>1, LenProperties
    <2> HIDE DEF t
    <2> QED
      BY <1>1, <2>1, <2>2, SumLast DEF t
  <1> QED
    BY <1>1, <1>2, <1>3, SumNat, SumEmpty

LEMMA SumTail ==
    ASSUME NEW q \in Seq(Nat), q # << >>
    PROVE  /\ Head(q) \in Nat /\ Tail(q) \in Seq(Nat)
           /\ SumFunction(q) = Head(q) + SumFunction(Tail(q))
  <1> DEFINE t == Tail(q)
  <1>1. /\ t \in Seq(Nat) /\ Len(t) = Len(q) - 1 /\ Head(q) = q[1]
        /\ \A k \in 1 .. Len(t) : t[k] = q[k + 1]
        /\ Head(q) \in Nat
    BY HeadTailProperties
  <1>2. /\ q \in [1 .. Len(t) + 1 -> Nat] /\ t \in [1 .. Len(t) -> Nat] /\ Len(t) \in Nat
    <2>1. t \in [1 .. Len(t) -> Nat] /\ Len(t) \in Nat
      BY <1>1, LenProperties
    <2>2. q \in [1 .. Len(q) -> Nat] /\ Len(q) = Len(t) + 1
      BY <1>1, LenProperties
    <2> QED
      BY <2>1, <2>2
  <1> HIDE DEF t
  <1>3. SumFunction(q) = q[1] + SumFunction(t)
    BY <1>1, <1>2, SumFirst
  <1> QED
    BY <1>1, <1>3 DEF t

LEMMA SumZeros ==
    ASSUME NEW n \in Nat, NEW f \in [1 .. n -> Nat], \A k \in 1 .. n : f[k] = 0
    PROVE  SumFunction(f) = 0
  <1> DEFINE e == [s \in SUBSET DOMAIN f |-> 0]
  <1>1. DOMAIN f = 1 .. n
    OBVIOUS
  <1>2. ASSUME NEW s \in SUBSET DOMAIN f, NEW x \in s
        PROVE  e[s] = f[x] + e[s \ {x}]
    <2>1. s \ {x} \in SUBSET DOMAIN f /\ f[x] = 0
      BY <1>1
    <2> QED
      BY <2>1
  <1>3. e \in [SUBSET DOMAIN f -> Nat] /\ e[{}] = 0
    OBVIOUS
  <1>4. 1 .. n \in SUBSET DOMAIN f /\ e[1 .. n] = 0
    BY <1>1
  <1> HIDE DEF e
  <1>5. Sums(f, e)
    BY <1>2, <1>3 DEF Sums
  <1> QED
    BY <1>4, <1>5, SumIs

-----------------------------------------------------------------------------
(* What frames carry.                                                      *)

\* Data and Window frames and pings are of some size, the others of none.
SizedFrame ==
    {f \in WireFrame :
        IF f.type \in {"Data", "Window"} THEN f.n \in Sizes
        ELSE IF f.type \in {"Ping", "Pong"} THEN f.n \in PingSizes ELSE f.n = 0}

LEMMA SizesNat == Sizes \subseteq Nat
  BY TransportAssumption DEF Sizes

LEMMA SizedNat == \A f \in SizedFrame : f.n \in Nat
  <1> SUFFICES ASSUME NEW f \in SizedFrame PROVE f.n \in Nat
    OBVIOUS
  <1>1. f.n \in Sizes \/ f.n \in PingSizes \/ f.n = 0
    <2>1. IF f.type \in {"Data", "Window"} THEN f.n \in Sizes
          ELSE IF f.type \in {"Ping", "Pong"} THEN f.n \in PingSizes ELSE f.n = 0
      BY DEF SizedFrame
    <2> QED
      BY <2>1
  <1> QED
    BY <1>1, SizesNat, TransportAssumption, 0 \in Nat

LEMMA ShareNat == \A f \in SizedFrame : \A type, i : Share(f, type, i) \in Nat
  <1> SUFFICES ASSUME NEW f \in SizedFrame, NEW type, NEW i
               PROVE  Share(f, type, i) \in Nat
    OBVIOUS
  <1>1. f.n \in Nat
    BY SizedNat
  <1> QED
    BY <1>1 DEF Share

Shares(s, type, i) == [k \in DOMAIN s |-> Share(s[k], type, i)]

LEMMA SharesNat ==
    ASSUME NEW s \in Seq(SizedFrame)
    PROVE  /\ Len(s) \in Nat /\ DOMAIN s = 1 .. Len(s)
           /\ \A type, i : Shares(s, type, i) \in [1 .. Len(s) -> Nat]
           /\ \A type, i : \A k \in 1 .. Len(s) : Shares(s, type, i)[k] = Share(s[k], type, i)
           /\ \A type, i : Carried(s, type, i) = SumFunction(Shares(s, type, i))
  <1>1. Len(s) \in Nat /\ DOMAIN s = 1 .. Len(s) /\ \A k \in 1 .. Len(s) : s[k] \in SizedFrame
    BY LenProperties, ElementOfSeq
  <1>2. \A type, i : Shares(s, type, i) \in [1 .. Len(s) -> Nat]
    BY <1>1, ShareNat DEF Shares
  <1>3. \A type, i : \A k \in 1 .. Len(s) : Shares(s, type, i)[k] = Share(s[k], type, i)
    BY <1>1 DEF Shares
  <1>4. \A type, i : Carried(s, type, i) = SumFunction(Shares(s, type, i))
    BY DEF Shares, Carried
  <1> QED
    BY <1>1, <1>2, <1>3, <1>4

LEMMA CarriedNat ==
    ASSUME NEW s \in Seq(SizedFrame)
    PROVE  \A type, i : Carried(s, type, i) \in Nat
  <1> SUFFICES ASSUME NEW type, NEW i PROVE Carried(s, type, i) \in Nat
    OBVIOUS
  <1>1. Len(s) \in Nat /\ Shares(s, type, i) \in [1 .. Len(s) -> Nat]
    BY SharesNat
  <1>2. SumFunction(Shares(s, type, i)) \in Nat
    BY <1>1, SumNat
  <1> QED
    BY <1>2, SharesNat

\* A frame put behind the others adds what it carries.
LEMMA CarriedAppend ==
    ASSUME NEW s \in Seq(SizedFrame), NEW f \in SizedFrame
    PROVE  \A type, i :
             Carried(Append(s, f), type, i) = Carried(s, type, i) + Share(f, type, i)
  <1> SUFFICES ASSUME NEW type, NEW i
               PROVE  Carried(Append(s, f), type, i) = Carried(s, type, i) + Share(f, type, i)
    OBVIOUS
  <1> DEFINE t == Append(s, f)
             c == Shares(s, type, i)
             d == Shares(t, type, i)
             n == Len(s)
  <1>1. /\ t \in Seq(SizedFrame) /\ Len(t) = n + 1 /\ t[n + 1] = f
        /\ \A k \in 1 .. n : t[k] = s[k]
    BY AppendProperties
  <1> HIDE DEF t
  <1>2. n \in Nat /\ c \in [1 .. n -> Nat] /\ \A k \in 1 .. n : c[k] = Share(s[k], type, i)
    BY SharesNat
  <1>3. d \in [1 .. n + 1 -> Nat] /\ \A k \in 1 .. n + 1 : d[k] = Share(t[k], type, i)
    BY <1>1, SharesNat
  <1>4. Carried(s, type, i) = SumFunction(c) /\ Carried(t, type, i) = SumFunction(d)
    BY <1>1, SharesNat
  <1> HIDE DEF c, d, n
  <1>5. n + 1 \in 1 .. n + 1 /\ \A k \in 1 .. n : k \in 1 .. n + 1
    BY <1>2
  <1>6. (\A k \in 1 .. n : d[k] = c[k]) /\ d[n + 1] = Share(f, type, i)
    BY <1>1, <1>2, <1>3, <1>5
  <1>7. SumFunction(d) = SumFunction(c) + d[n + 1]
    BY <1>2, <1>3, <1>6, SumLast
  <1> QED
    BY <1>4, <1>6, <1>7 DEF t

\* The first frame takes away what it carries.
LEMMA CarriedTail ==
    ASSUME NEW s \in Seq(SizedFrame), s # << >>
    PROVE  \A type, i :
             Carried(s, type, i) = Share(s[1], type, i) + Carried(Tail(s), type, i)
  <1> SUFFICES ASSUME NEW type, NEW i
               PROVE  Carried(s, type, i) = Share(s[1], type, i) + Carried(Tail(s), type, i)
    OBVIOUS
  <1> DEFINE t == Tail(s)
             c == Shares(t, type, i)
             d == Shares(s, type, i)
             n == Len(t)
  <1>1. t \in Seq(SizedFrame) /\ n = Len(s) - 1 /\ \A k \in 1 .. n : t[k] = s[k + 1]
    BY HeadTailProperties
  <1> HIDE DEF t
  <1>2. n \in Nat /\ c \in [1 .. n -> Nat] /\ \A k \in 1 .. n : c[k] = Share(t[k], type, i)
    BY <1>1, SharesNat
  <1>3. /\ Len(s) \in Nat /\ d \in [1 .. Len(s) -> Nat]
        /\ \A k \in 1 .. Len(s) : d[k] = Share(s[k], type, i)
    BY SharesNat
  <1>4. Carried(s, type, i) = SumFunction(d) /\ Carried(t, type, i) = SumFunction(c)
    BY <1>1, SharesNat
  <1> HIDE DEF c, d, n
  <1>5. Len(s) = n + 1 /\ 1 \in 1 .. n + 1 /\ \A k \in 1 .. n : k + 1 \in 1 .. n + 1
    BY <1>1, <1>2, <1>3
  <1>6. (\A k \in 1 .. n : d[k + 1] = c[k]) /\ d[1] = Share(s[1], type, i)
    BY <1>1, <1>2, <1>3, <1>5
  <1>7. SumFunction(d) = d[1] + SumFunction(c)
    BY <1>2, <1>3, <1>5, <1>6, SumFirst
  <1> QED
    BY <1>4, <1>6, <1>7 DEF t

LEMMA CarriedNone ==
    ASSUME NEW s \in Seq(SizedFrame), NEW type, NEW i,
           \A k \in DOMAIN s : ~(s[k].type = type /\ s[k].id = i)
    PROVE  Carried(s, type, i) = 0
  <1>1. \A k \in 1 .. Len(s) : Shares(s, type, i)[k] = 0
    BY SharesNat DEF Share
  <1>2. Len(s) \in Nat /\ Shares(s, type, i) \in [1 .. Len(s) -> Nat]
    BY SharesNat
  <1>3. SumFunction(Shares(s, type, i)) = 0
    BY <1>1, <1>2, SumZeros
  <1> QED
    BY <1>3, SharesNat

LEMMA SizeNat == \A f \in SizedFrame : Size(f) \in Nat
  <1> SUFFICES ASSUME NEW f \in SizedFrame PROVE Size(f) \in Nat
    OBVIOUS
  <1>1. f.n \in Nat
    BY SizedNat
  <1> QED
    BY <1>1, TransportAssumption DEF Size

\* The same for the sizes of the frames in a buffer.
LEMMA SizeOfAppend ==
    ASSUME NEW s \in Seq(SizedFrame), NEW f \in SizedFrame
    PROVE  /\ Size(f) \in Nat
           /\ SizeOf(<< >>) = 0
           /\ SizeOf(Append(s, f)) = SizeOf(s) + Size(f)
  <1> DEFINE t == Append(s, f)
             c == [k \in DOMAIN s |-> Size(s[k])]
             d == [k \in DOMAIN t |-> Size(t[k])]
  <1>1. \A g \in SizedFrame : Size(g) \in Nat
    BY SizeNat
  <1>2. /\ t \in Seq(SizedFrame) /\ Len(t) = Len(s) + 1 /\ t[Len(s) + 1] = f
        /\ \A k \in 1 .. Len(s) : t[k] = s[k]
    BY AppendProperties
  <1> HIDE DEF t
  <1>3. /\ Len(s) \in Nat /\ DOMAIN s = 1 .. Len(s) /\ DOMAIN t = 1 .. Len(s) + 1
        /\ \A k \in 1 .. Len(s) : s[k] \in SizedFrame
        /\ \A k \in 1 .. Len(s) + 1 : t[k] \in SizedFrame
    BY <1>2, LenProperties, ElementOfSeq
  <1>4. c \in [1 .. Len(s) -> Nat] /\ d \in [1 .. Len(s) + 1 -> Nat]
    BY <1>1, <1>3
  <1>5. \A k \in 1 .. Len(s) : d[k] = c[k]
    BY <1>2, <1>3
  <1>6. d[Len(s) + 1] = Size(f)
    BY <1>2, <1>3
  <1>7. SizeOf(s) = SumFunction(c) /\ SizeOf(t) = SumFunction(d)
    BY DEF SizeOf
  <1>8. SizeOf(<< >>) = 0
    <2> DEFINE e == [k \in DOMAIN << >> |-> Size(<< >>[k])]
    <2>1. e \in [1 .. 0 -> Nat]
      OBVIOUS
    <2>2. SizeOf(<< >>) = SumFunction(e)
      BY DEF SizeOf
    <2> HIDE DEF e
    <2> QED
      BY <2>1, <2>2, SumEmpty
  <1> HIDE DEF c, d
  <1>9. SumFunction(d) = SumFunction(c) + d[Len(s) + 1]
    BY <1>3, <1>4, <1>5, SumLast
  <1> QED
    BY <1>1, <1>6, <1>7, <1>8, <1>9 DEF t

\* Some frame of s is of this type and stream.
Holds(s, type, i) == \E k \in DOMAIN s : s[k].type = type /\ s[k].id = i

LEMMA HoldsAppend ==
    ASSUME NEW s \in Seq(SizedFrame), NEW f \in SizedFrame
    PROVE  \A type, i :
             Holds(Append(s, f), type, i) <=> Holds(s, type, i) \/ (f.type = type /\ f.id = i)
  <1> DEFINE t == Append(s, f)
             n == Len(s) + 1
  <1>1. DOMAIN t = DOMAIN s \cup {n} /\ t[n] = f /\ \A k \in DOMAIN s : t[k] = s[k]
    BY AppendPlaces
  <1> HIDE DEF t, n
  <1>2. \A type, i : Holds(t, type, i) <=> Holds(s, type, i) \/ (f.type = type /\ f.id = i)
    BY <1>1 DEF Holds
  <1> QED
    BY <1>2 DEF t

LEMMA HoldsTail ==
    ASSUME NEW s \in Seq(SizedFrame), s # << >>
    PROVE  /\ \A type, i : Holds(Tail(s), type, i) => Holds(s, type, i)
           /\ \A type, i : Holds(s, type, i)
                => Holds(Tail(s), type, i) \/ (s[1].type = type /\ s[1].id = i)
           /\ 1 \in DOMAIN s
  <1> DEFINE t == Tail(s)
  <1>1. /\ 1 \in DOMAIN s
        /\ \A k \in DOMAIN t : k + 1 \in DOMAIN s /\ t[k] = s[k + 1]
        /\ \A k \in DOMAIN s : k = 1 \/ k - 1 \in DOMAIN t
        /\ DOMAIN s = 1 .. Len(s) /\ Len(s) \in Nat
    BY TailPlaces, LenProperties
  <1> HIDE DEF t
  <1>2. ASSUME NEW k \in DOMAIN s, k # 1
        PROVE  k - 1 \in DOMAIN t /\ s[k] = t[k - 1]
    <2>1. k - 1 \in DOMAIN t /\ (k - 1) + 1 = k
      BY <1>1, <1>2
    <2>2. t[k - 1] = s[(k - 1) + 1]
      BY <1>1, <2>1
    <2> QED
      BY <2>1, <2>2
  <1>3. \A type, i : Holds(t, type, i) => Holds(s, type, i)
    BY <1>1 DEF Holds
  <1>4. \A type, i : Holds(s, type, i)
          => Holds(t, type, i) \/ (s[1].type = type /\ s[1].id = i)
    BY <1>1, <1>2 DEF Holds
  <1> QED
    BY <1>1, <1>3, <1>4 DEF t

LEMMA CarriedHeld ==
    ASSUME NEW s \in Seq(SizedFrame), NEW type, NEW i, ~Holds(s, type, i)
    PROVE  Carried(s, type, i) = 0
  BY CarriedNone DEF Holds

\* The frames the credit of a stream depends on, and two sequences that have
\* the same of them.
Credited == {"Data", "Window", "Reset"}
Alike(a, b, i) ==
    \A type \in Credited :
        /\ Holds(a, type, i) <=> Holds(b, type, i)
        /\ Carried(a, type, i) = Carried(b, type, i)

LEMMA AlikeSent ==
    ASSUME NEW s \in Seq(SizedFrame), NEW f \in SizedFrame, NEW i,
           f.id # i \/ f.type \notin Credited
    PROVE  Alike(s, Append(s, f), i)
  <1> SUFFICES ASSUME NEW type \in Credited
               PROVE  /\ Holds(s, type, i) <=> Holds(Append(s, f), type, i)
                      /\ Carried(s, type, i) = Carried(Append(s, f), type, i)
    BY DEF Alike
  <1>1. Share(f, type, i) = 0
    BY DEF Share
  <1>2. Carried(Append(s, f), type, i) = Carried(s, type, i) + Share(f, type, i)
    BY CarriedAppend
  <1>3. Carried(s, type, i) \in Nat
    BY CarriedNat
  <1>4. Holds(s, type, i) <=> Holds(Append(s, f), type, i)
    BY HoldsAppend
  <1> QED
    BY <1>1, <1>2, <1>3, <1>4

LEMMA AlikeTaken ==
    ASSUME NEW s \in Seq(SizedFrame), s # << >>, NEW i,
           s[1].id # i \/ s[1].type \notin Credited
    PROVE  Alike(s, Tail(s), i)
  <1> SUFFICES ASSUME NEW type \in Credited
               PROVE  /\ Holds(s, type, i) <=> Holds(Tail(s), type, i)
                      /\ Carried(s, type, i) = Carried(Tail(s), type, i)
    BY DEF Alike
  <1>1. Share(s[1], type, i) = 0
    BY DEF Share
  <1>2. Carried(s, type, i) = Share(s[1], type, i) + Carried(Tail(s), type, i)
    BY CarriedTail
  <1>3. Carried(Tail(s), type, i) \in Nat
    <2>1. Tail(s) \in Seq(SizedFrame)
      BY HeadTailProperties
    <2> QED
      BY <2>1, CarriedNat
  <1>4. Holds(s, type, i) <=> Holds(Tail(s), type, i)
    BY HoldsTail
  <1> QED
    BY <1>1, <1>2, <1>3, <1>4

-----------------------------------------------------------------------------
(* The ledger of a stream: its entries s and r at the two ends, the frames *)
(* a and b in flight from the one and from the other, and the ids X and Y  *)
(* the two ends have seen.                                                 *)

SizedEntry(s) ==
    /\ s \in StreamType \cup {NoStream}
    /\ s.state \in StreamStates =>
         s.recv_window + SumFunction(s.recv_queue) = DefaultWindow

\* The credit of the direction from s to r.
Total(s, r, a, b, i) ==
    s.send_window + Carried(a, "Data", i) + SumFunction(r.recv_queue) + Carried(b, "Window", i)
Balanced(s, r, a, b, i) ==
    /\ Total(s, r, a, b, i) <= DefaultWindow
    /\ CanSend(s) /\ ~Holds(b, "Reset", i) => Total(s, r, a, b, i) = DefaultWindow

\* Who has frames or data of a stream underway has had it, and who has let go
\* of it while the other end still uses it has sent a Reset.
Owned(s, r, a, X, Y, i) ==
    /\ Holds(a, "Data", i) => i \in X
    /\ Holds(a, "Window", i) => i \in Y
    /\ Holds(a, "Reset", i) => i \in X /\ ~CanSend(s)
    /\ s.recv_queue # << >> => i \in Y
    /\ i \in X /\ s.state \notin StreamStates => (i \in Y /\ ~CanSend(r)) \/ Holds(a, "Reset", i)

Lawful(s, r, a, b, X, Y, i) ==
    SizedEntry(s) /\ Balanced(s, r, a, b, i) /\ Owned(s, r, a, X, Y, i)
Ledger(s, r, a, b, X, Y, i) ==
    Lawful(s, r, a, b, X, Y, i) /\ Lawful(r, s, b, a, Y, X, i)

LEMMA SizedSeq ==
    ASSUME NEW q \in Seq(Sizes)
    PROVE  q \in Seq(Nat) /\ q \in Seq(Int)
  <1>1. Sizes \subseteq Nat /\ Sizes \subseteq Int
    BY SizesNat
  <1> QED
    BY <1>1, SeqMonotonic

\* The numbers of an entry.
LEMMA SizedNumbers ==
    ASSUME NEW s, SizedEntry(s)
    PROVE  /\ s.send_window \in Nat /\ s.recv_window \in Nat
           /\ s.recv_queue \in Seq(Nat) /\ SumFunction(s.recv_queue) \in Nat
           /\ s.state \in StreamStates => s \in StreamType
           /\ s.state \notin StreamStates => s = NoStream
           /\ s \in StreamRecord
  <1>1. CASE s \in StreamType
    <2>1. s.send_window \in Nat /\ s.recv_window \in Nat /\ s.recv_queue \in Seq(Sizes)
      BY <1>1 DEF StreamType
    <2>2. s.recv_queue \in Seq(Nat) /\ s.recv_queue \in Seq(Int)
      BY <2>1, SizedSeq
    <2>3. s.state \in StreamStates
      BY <1>1 DEF StreamType
    <2>4. s \in StreamRecord
      BY <1>1, <2>1, <2>2, <2>3 DEF StreamType, StreamRecord
    <2> QED
      BY <1>1, <2>1, <2>2, <2>3, <2>4, SumAppend
  <1>2. CASE s = NoStream
    <2>1. /\ s.send_window = 0 /\ s.recv_window = 0 /\ s.recv_queue = << >>
          /\ s.state = "None"
      BY <1>2 DEF NoStream
    <2>2. << >> \in Seq(Nat) /\ "None" \notin StreamStates
      BY DEF StreamStates
    <2> QED
      BY <1>2, <2>1, <2>2, SumAppend, EntriesTyped
  <1> QED
    BY <1>1, <1>2 DEF SizedEntry

\* Nothing of this stream is touched.
LEMMA LedgerStays ==
    ASSUME NEW s, NEW r, NEW a, NEW b, NEW X, NEW Y, NEW i, Ledger(s, r, a, b, X, Y, i),
           NEW c, Alike(a, c, i), NEW d, Alike(b, d, i), NEW Z, i \in X <=> i \in Z
    PROVE  Ledger(s, r, c, d, Z, Y, i)
  <1>1. /\ \A type \in Credited : Holds(a, type, i) <=> Holds(c, type, i)
        /\ \A type \in Credited : Holds(b, type, i) <=> Holds(d, type, i)
        /\ \A type \in Credited : Carried(a, type, i) = Carried(c, type, i)
        /\ \A type \in Credited : Carried(b, type, i) = Carried(d, type, i)
    BY DEF Alike
  <1>2. Balanced(s, r, c, d, i) /\ Balanced(r, s, d, c, i)
    BY <1>1 DEF Ledger, Lawful, Balanced, Total, Credited
  <1>3. Owned(s, r, c, Z, Y, i) /\ Owned(r, s, d, Y, Z, i)
    BY <1>1 DEF Ledger, Lawful, Owned, Credited
  <1> QED
    BY <1>2, <1>3 DEF Ledger, Lawful

-----------------------------------------------------------------------------
(* What the operations do to an entry.                                     *)

LEMMA FreshEntries ==
    /\ SizedEntry(NewStream) /\ SizedEntry(NoStream)
    /\ NewStream.state = "Open" /\ NewStream.send_window = DefaultWindow
    /\ NewStream.recv_queue = << >>
    /\ NoStream.state = "None" /\ NoStream.send_window = 0 /\ NoStream.recv_queue = << >>
    /\ SumFunction(<< >>) = 0 /\ DefaultWindow \in Nat
  <1>1. SumFunction(<< >>) = 0 /\ DefaultWindow \in Nat /\ << >> \in Seq(Sizes)
    <2>1. << >> \in Seq(Nat) /\ << >> \in Seq(Sizes)
      BY EmptySeq
    <2>2. SumFunction(<< >>) = 0
      BY <2>1, SumAppend
    <2> QED
      BY <2>1, <2>2, TransportAssumption
  <1>2. /\ NewStream.state = "Open" /\ NewStream.send_window = DefaultWindow
        /\ NewStream.recv_queue = << >> /\ NewStream.recv_window = DefaultWindow
    BY DEF NewStream
  <1>3. NewStream \in StreamType
    <2>1. DefaultWindow \in Nat /\ << >> \in Seq(Sizes) /\ "Open" \in StreamStates
      BY <1>1 DEF StreamStates
    <2> QED
      BY <2>1 DEF NewStream, StreamType
  <1>4. SizedEntry(NewStream)
    BY <1>1, <1>2, <1>3 DEF SizedEntry
  <1>5. NoStream.state = "None" /\ NoStream.send_window = 0 /\ NoStream.recv_queue = << >>
    BY DEF NoStream
  <1>6. SizedEntry(NoStream)
    BY <1>5 DEF SizedEntry, StreamStates
  <1> QED
    BY <1>1, <1>2, <1>4, <1>5, <1>6

\* Sending and granting change the send window only.
LEMMA SendWindowMoves ==
    ASSUME NEW s, SizedEntry(s), s.state \in StreamStates, NEW n \in Nat
    PROVE  /\ LET t == ApplyWindow(s, n)
              IN  /\ SizedEntry(t) /\ t.state = s.state /\ t.recv_queue = s.recv_queue
                  /\ t.send_window = s.send_window + n
           /\ s.send_window >= n =>
              LET t == ConsumeSendWindow(s, n)
              IN  /\ SizedEntry(t) /\ t.state = s.state /\ t.recv_queue = s.recv_queue
                  /\ t.send_window = s.send_window - n
  <1>1. s \in StreamType /\ s.send_window \in Nat
    BY SizedNumbers
  <1>2. ASSUME NEW m \in Nat
        PROVE  LET t == [s EXCEPT !.send_window = m]
               IN  /\ SizedEntry(t) /\ t.state = s.state /\ t.recv_queue = s.recv_queue
                   /\ t.send_window = m
    <2> DEFINE t == [s EXCEPT !.send_window = m]
    <2>1. t \in StreamType
      BY <1>1 DEF StreamType
    <2>2. /\ t.state = s.state /\ t.recv_queue = s.recv_queue /\ t.recv_window = s.recv_window
          /\ t.send_window = m
      BY <1>1 DEF StreamType
    <2> HIDE DEF t
    <2>3. SizedEntry(t)
      BY <2>1, <2>2 DEF SizedEntry
    <2> QED
      BY <2>2, <2>3 DEF t
  <1>3. s.send_window + n \in Nat /\ (s.send_window >= n => s.send_window - n \in Nat)
    BY <1>1
  <1> QED
    BY <1>2, <1>3 DEF ApplyWindow, ConsumeSendWindow

\* Taking from the queue restores the receive window, as far as it goes.
LEMMA PopMoves ==
    ASSUME NEW s, SizedEntry(s), s.state \in StreamStates, s.recv_queue # << >>
    PROVE  LET t == PopRecv(s)
               n == Head(s.recv_queue)
           IN  /\ SizedEntry(t) /\ t.state = s.state /\ t.send_window = s.send_window
               /\ n \in Sizes /\ n \in Nat /\ SumFunction(t.recv_queue) \in Nat
               /\ SumFunction(s.recv_queue) = SumFunction(t.recv_queue) + n
  <1> DEFINE t == PopRecv(s)
             q == s.recv_queue
             n == Head(q)
             m == s.recv_window + n
  <1>1. s \in StreamType /\ s.recv_window \in Nat /\ q \in Seq(Sizes) /\ q \in Seq(Nat)
    BY SizedNumbers DEF StreamType
  <1>2. n \in Sizes /\ Tail(q) \in Seq(Sizes)
    BY <1>1, HeadTailProperties
  <1>3. n \in Nat /\ Tail(q) \in Seq(Nat) /\ SumFunction(q) = n + SumFunction(Tail(q))
    BY <1>1, SumTail
  <1>4. SumFunction(Tail(q)) \in Nat
    BY <1>3, SumAppend
  <1>5. m \in Nat
    BY <1>1, <1>3
  <1>6. t = [s EXCEPT !.recv_window = m, !.recv_queue = Tail(q)]
    BY DEF PopRecv
  <1> HIDE DEF t, m
  <1>7. t \in StreamType
    BY <1>1, <1>2, <1>5, <1>6 DEF StreamType
  <1>8. /\ t.state = s.state /\ t.send_window = s.send_window
        /\ t.recv_window = m /\ t.recv_queue = Tail(q)
    BY <1>1, <1>6 DEF StreamType
  <1>9. s.recv_window + SumFunction(q) = DefaultWindow
    BY DEF SizedEntry
  <1> HIDE DEF q, n
  <1>10. m + SumFunction(Tail(q)) = DefaultWindow
    BY <1>1, <1>3, <1>4, <1>9 DEF m
  <1>11. SizedEntry(t)
    BY <1>7, <1>8, <1>10 DEF SizedEntry
  <1>12. SumFunction(q) = SumFunction(Tail(q)) + n
    BY <1>3, <1>4
  <1> QED
    BY <1>2, <1>3, <1>4, <1>8, <1>11, <1>12 DEF t, q, n

\* Data that fits the free part of the queue goes behind it, and the clamp at
\* zero is not reached.
LEMMA PushMoves ==
    ASSUME NEW s, SizedEntry(s), s.state \in StreamStates, NEW n \in Sizes,
           n + SumFunction(s.recv_queue) <= DefaultWindow
    PROVE  LET t == PushRecv(s, n)
           IN  /\ SizedEntry(t) /\ t.state = s.state /\ t.send_window = s.send_window
               /\ SumFunction(t.recv_queue) = SumFunction(s.recv_queue) + n
  <1> DEFINE t == PushRecv(s, n)
             q == s.recv_queue
             m == s.recv_window - n
  <1>1. /\ s \in StreamType /\ s.recv_window \in Nat /\ q \in Seq(Sizes) /\ q \in Seq(Nat)
        /\ SumFunction(q) \in Nat /\ n \in Nat
    BY SizedNumbers, SizesNat DEF StreamType
  <1>2. SumFunction(Append(q, n)) = SumFunction(q) + n /\ Append(q, n) \in Seq(Sizes)
    BY <1>1, SumAppend
  <1>3. s.recv_window + SumFunction(q) = DefaultWindow
    BY DEF SizedEntry
  <1>4. m \in Nat /\ m + (SumFunction(q) + n) = DefaultWindow
    BY <1>1, <1>3, TransportAssumption
  <1>5. AtLeastZero(s.recv_window - n) = m
    BY <1>4 DEF AtLeastZero
  <1>6. t = [s EXCEPT !.recv_window = m, !.recv_queue = Append(q, n)]
    BY <1>5 DEF PushRecv
  <1> HIDE DEF t, m
  <1>7. t \in StreamType
    BY <1>1, <1>2, <1>4, <1>6 DEF StreamType
  <1>8. /\ t.state = s.state /\ t.send_window = s.send_window
        /\ t.recv_window = m /\ t.recv_queue = Append(q, n)
    BY <1>1, <1>6 DEF StreamType
  <1>9. SizedEntry(t)
    BY <1>2, <1>4, <1>7, <1>8 DEF SizedEntry
  <1> QED
    BY <1>2, <1>8, <1>9 DEF t

\* A close takes the entry away or changes its state only.
LEMMA CloseMoves ==
    ASSUME NEW s, SizedEntry(s), s.state \in StreamStates, NEW t,
           t = OnLocalClose(s) \/ t = OnRemoteClose(s)
    PROVE  /\ SizedEntry(t)
           /\ CanSend(t) => CanSend(s)
           /\ t = OnLocalClose(s) /\ t = NoStream => s.state = "HalfClosedRemote"
           /\ \/ t = NoStream
              \/ /\ t.state \in StreamStates /\ t.send_window = s.send_window
                 /\ t.recv_queue = s.recv_queue
  <1>1. s \in StreamType
    BY SizedNumbers
  <1>2. t = NoStream => SizedEntry(t) /\ ~CanSend(t)
    BY FreshEntries DEF CanSend
  <1>3. t = s => SizedEntry(t) /\ t.state \in StreamStates
    OBVIOUS
  <1>4. ASSUME NEW x \in {"HalfClosedLocal", "HalfClosedRemote"}, s.state = "Open",
               t = [s EXCEPT !.state = x]
        PROVE  /\ SizedEntry(t) /\ CanSend(s) /\ t.state \in StreamStates
               /\ t.send_window = s.send_window /\ t.recv_queue = s.recv_queue
    <2>1. t \in StreamType
      BY <1>1, <1>4 DEF StreamType, StreamStates
    <2>2. /\ t.state = x /\ t.send_window = s.send_window /\ t.recv_queue = s.recv_queue
          /\ t.recv_window = s.recv_window
      BY <1>1, <1>4 DEF StreamType
    <2>3. SizedEntry(t)
      BY <2>1, <2>2 DEF SizedEntry
    <2> QED
      BY <1>4, <2>2, <2>3 DEF CanSend, StreamStates
  <1>5. ASSUME t = OnLocalClose(s), t = NoStream
        PROVE  s.state = "HalfClosedRemote"
    <2>1. t.state = "None"
      BY <1>5, FreshEntries
    <2>2. ASSUME s.state = "Open"
          PROVE  FALSE
      <3>1. t = [s EXCEPT !.state = "HalfClosedLocal"]
        BY <1>5, <2>2 DEF OnLocalClose
      <3>2. t.state = "HalfClosedLocal"
        BY <1>1, <3>1 DEF StreamType
      <3> QED
        BY <2>1, <3>2
    <2>3. ASSUME s.state = "HalfClosedLocal"
          PROVE  FALSE
      <3>1. t = s
        BY <1>5, <2>3 DEF OnLocalClose
      <3> QED
        BY <2>1, <2>3, <3>1
    <2> QED
      BY <2>2, <2>3 DEF StreamStates
  <1>6. \/ t = NoStream \/ t = s
        \/ /\ s.state = "Open"
           /\ \E x \in {"HalfClosedLocal", "HalfClosedRemote"} : t = [s EXCEPT !.state = x]
    BY DEF OnLocalClose, OnRemoteClose
  <1>7. /\ SizedEntry(t)
        /\ CanSend(t) => CanSend(s)
        /\ \/ t = NoStream
           \/ /\ t.state \in StreamStates /\ t.send_window = s.send_window
              /\ t.recv_queue = s.recv_queue
    <2>1. ASSUME NEW x \in {"HalfClosedLocal", "HalfClosedRemote"}, s.state = "Open",
                 t = [s EXCEPT !.state = x]
          PROVE  /\ SizedEntry(t) /\ CanSend(s) /\ t.state \in StreamStates
                 /\ t.send_window = s.send_window /\ t.recv_queue = s.recv_queue
      BY <1>4, <2>1
    <2> QED
      BY <1>2, <1>3, <1>6, <2>1
  <1> QED
    BY <1>5, <1>7

-----------------------------------------------------------------------------
(* The ledger of the stream a step is about.                               *)

\* What Ledger says, with the types of the numbers.
Numbers(s, r, a, b, i) ==
    /\ s.send_window \in Nat /\ SumFunction(s.recv_queue) \in Nat
    /\ r.send_window \in Nat /\ SumFunction(r.recv_queue) \in Nat
    /\ Carried(a, "Data", i) \in Nat /\ Carried(a, "Window", i) \in Nat
    /\ Carried(b, "Data", i) \in Nat /\ Carried(b, "Window", i) \in Nat
    /\ DefaultWindow \in Nat

Books(s, r, a, b, X, Y, i) ==
    /\ SizedEntry(s) /\ SizedEntry(r)
    /\ Balanced(s, r, a, b, i) /\ Balanced(r, s, b, a, i)
    /\ Owned(s, r, a, X, Y, i) /\ Owned(r, s, b, Y, X, i)
    /\ Numbers(s, r, a, b, i)
    /\ Total(s, r, a, b, i) \in Nat /\ Total(r, s, b, a, i) \in Nat

LEMMA TotalNat ==
    ASSUME NEW s, NEW r, NEW a, NEW b, NEW i, Numbers(s, r, a, b, i)
    PROVE  Total(s, r, a, b, i) \in Nat
  BY DEF Numbers, Total

LEMMA LedgerSays ==
    ASSUME NEW s, NEW r, NEW a \in Seq(SizedFrame), NEW b \in Seq(SizedFrame),
           NEW X, NEW Y, NEW i, Ledger(s, r, a, b, X, Y, i)
    PROVE  Books(s, r, a, b, X, Y, i)
  <1>1. /\ SizedEntry(s) /\ SizedEntry(r)
        /\ Balanced(s, r, a, b, i) /\ Balanced(r, s, b, a, i)
        /\ Owned(s, r, a, X, Y, i) /\ Owned(r, s, b, Y, X, i)
    BY DEF Ledger, Lawful
  <1>2. \A type : Carried(a, type, i) \in Nat /\ Carried(b, type, i) \in Nat
    BY CarriedNat
  <1>3. /\ s.send_window \in Nat /\ SumFunction(s.recv_queue) \in Nat
        /\ r.send_window \in Nat /\ SumFunction(r.recv_queue) \in Nat
    BY <1>1, SizedNumbers
  <1>4. Numbers(s, r, a, b, i)
    BY <1>2, <1>3, TransportAssumption DEF Numbers
  <1>5. Numbers(r, s, b, a, i)
    BY <1>4 DEF Numbers
  <1>6. Total(s, r, a, b, i) \in Nat /\ Total(r, s, b, a, i) \in Nat
    BY <1>4, <1>5, TotalNat
  <1> QED
    BY <1>1, <1>4, <1>6 DEF Books

LEMMA LedgerIs ==
    ASSUME NEW s, NEW r, NEW a, NEW b, NEW X, NEW Y, NEW i,
           SizedEntry(s), SizedEntry(r),
           Balanced(s, r, a, b, i), Balanced(r, s, b, a, i),
           Owned(s, r, a, X, Y, i), Owned(r, s, b, Y, X, i)
    PROVE  Ledger(s, r, a, b, X, Y, i)
  BY DEF Ledger, Lawful

LEMMA CanSendHas ==
    ASSUME NEW s, CanSend(s)
    PROVE  s.state \in StreamStates
  BY DEF CanSend, StreamStates

\* A stream begins at one end: it has the whole window, and nothing of an
\* earlier life of its id is around.
LEMMA LedgerBegins ==
    ASSUME NEW s, NEW r, NEW a \in Seq(SizedFrame), NEW b \in Seq(SizedFrame),
           NEW X, NEW Y, NEW i, Ledger(s, r, a, b, X, Y, i),
           NEW c, Alike(a, c, i), NEW d, Alike(b, d, i), NEW Z,
           i \notin X, i \in Z, s.state \notin StreamStates
    PROVE  Ledger(NewStream, r, c, d, Z, Y, i)
  <1>0. Books(s, r, a, b, X, Y, i)
    BY LedgerSays
  <1> SUFFICES ASSUME NEW t, t = NewStream
               PROVE  Ledger(t, r, c, d, Z, Y, i)
    OBVIOUS
  <1>1. /\ \A type \in Credited : Holds(a, type, i) <=> Holds(c, type, i)
        /\ \A type \in Credited : Holds(b, type, i) <=> Holds(d, type, i)
        /\ \A type \in Credited : Carried(a, type, i) = Carried(c, type, i)
        /\ \A type \in Credited : Carried(b, type, i) = Carried(d, type, i)
    BY DEF Alike
  <1>2. /\ SizedEntry(t) /\ t.send_window = DefaultWindow /\ t.recv_queue = << >>
        /\ SumFunction(t.recv_queue) = 0 /\ t.state = "Open" /\ t.state \in StreamStates
    BY FreshEntries DEF StreamStates
  <1>3. SumFunction(s.recv_queue) = 0
    BY <1>0, SizedNumbers, FreshEntries DEF Books
  <1>4. ~Holds(a, "Data", i) /\ ~Holds(a, "Reset", i) /\ ~Holds(b, "Window", i) /\ r.recv_queue = << >>
    BY <1>0 DEF Books, Owned
  <1>5. Carried(a, "Data", i) = 0 /\ Carried(b, "Window", i) = 0 /\ SumFunction(r.recv_queue) = 0
    BY <1>4, CarriedHeld, FreshEntries
  <1>6. Total(t, r, c, d, i) = DefaultWindow
    BY <1>0, <1>1, <1>2, <1>5 DEF Books, Numbers, Total, Credited
  <1>7. Total(r, t, d, c, i) = Total(r, s, b, a, i)
    BY <1>0, <1>1, <1>2, <1>3 DEF Books, Numbers, Total, Credited
  <1>8. Balanced(t, r, c, d, i)
    BY <1>6, TransportAssumption DEF Balanced
  <1>9. Balanced(r, t, d, c, i)
    BY <1>0, <1>1, <1>7 DEF Balanced, Credited, Books
  <1>10. Owned(t, r, c, Z, Y, i)
    BY <1>0, <1>1, <1>2, <1>4 DEF Owned, Credited, Books
  <1>11. Owned(r, t, d, Y, Z, i)
    BY <1>0, <1>1, <1>2, <1>4 DEF Owned, Credited, Books
  <1>12. SizedEntry(r)
    BY <1>0 DEF Books
  <1> QED
    BY <1>2, <1>8, <1>9, <1>10, <1>11, <1>12, LedgerIs

\* Credit becomes data underway.
LEMMA LedgerSpends ==
    ASSUME NEW s, NEW r, NEW a \in Seq(SizedFrame), NEW b \in Seq(SizedFrame),
           NEW X, NEW Y, NEW i \in Ids, Ledger(s, r, a, b, X, Y, i),
           NEW n \in Sizes, s.send_window >= n, CanSend(s), i \in X
    PROVE  Ledger(ConsumeSendWindow(s, n), r, Append(a, Frame("Data", i, n)), b, X, Y, i)
  <1>0. Books(s, r, a, b, X, Y, i)
    BY LedgerSays
  <1> SUFFICES ASSUME NEW t, t = ConsumeSendWindow(s, n), NEW f, f = Frame("Data", i, n),
                      NEW c, c = Append(a, f)
               PROVE  Ledger(t, r, c, b, X, Y, i)
    OBVIOUS
  <1>1. f \in SizedFrame /\ f.type = "Data" /\ f.id = i /\ f.n = n /\ n \in Nat
    BY FramesTyped, SizesNat DEF Frame, SizedFrame, StreamFrames
  <1>2. /\ SizedEntry(t) /\ t.state = s.state /\ t.recv_queue = s.recv_queue
        /\ t.send_window = s.send_window - n
    BY <1>0, <1>1, SendWindowMoves, CanSendHas DEF Books
  <1>3. /\ Carried(c, "Data", i) = Carried(a, "Data", i) + n
        /\ Carried(c, "Window", i) = Carried(a, "Window", i)
    <2>1. Share(f, "Data", i) = n /\ Share(f, "Window", i) = 0
      BY <1>1 DEF Share
    <2> QED
      BY <1>0, <1>1, <2>1, CarriedAppend DEF Books, Numbers
  <1>4. /\ Holds(c, "Window", i) <=> Holds(a, "Window", i)
        /\ Holds(c, "Reset", i) <=> Holds(a, "Reset", i)
    BY <1>1, HoldsAppend
  <1>5. CanSend(t) /\ s.state \in StreamStates
    BY <1>2, CanSendHas DEF CanSend
  <1>6. Total(t, r, c, b, i) = Total(s, r, a, b, i)
    BY <1>0, <1>1, <1>2, <1>3 DEF Books, Numbers, Total
  <1>7. Total(r, t, b, c, i) = Total(r, s, b, a, i)
    BY <1>0, <1>2, <1>3 DEF Books, Numbers, Total
  <1>8. Balanced(t, r, c, b, i)
    BY <1>0, <1>6 DEF Balanced, Books
  <1>9. Balanced(r, t, b, c, i)
    BY <1>0, <1>4, <1>7 DEF Balanced, Books
  <1>10. Owned(t, r, c, X, Y, i)
    BY <1>0, <1>2, <1>4, <1>5 DEF Owned, Books
  <1>11. Owned(r, t, b, Y, X, i)
    BY <1>0, <1>5 DEF Owned, Books
  <1>12. SizedEntry(r)
    BY <1>0 DEF Books
  <1> QED
    BY <1>2, <1>8, <1>9, <1>10, <1>11, <1>12, LedgerIs

\* Data queued becomes a grant underway, or is read after the peer's close.
LEMMA LedgerReads ==
    ASSUME NEW s, NEW r, NEW a \in Seq(SizedFrame), NEW b \in Seq(SizedFrame),
           NEW X, NEW Y, NEW i \in Ids, Ledger(s, r, a, b, X, Y, i),
           s.state \in StreamStates, s.recv_queue # << >>, NEW c,
           \/ c = Append(a, Frame("Window", i, Head(s.recv_queue)))
           \/ c = a /\ ~CanSend(r)
    PROVE  Ledger(PopRecv(s), r, c, b, X, Y, i)
  <1>0. Books(s, r, a, b, X, Y, i)
    BY LedgerSays
  <1> SUFFICES ASSUME NEW t, t = PopRecv(s), NEW n, n = Head(s.recv_queue)
               PROVE  Ledger(t, r, c, b, X, Y, i)
    OBVIOUS
  <1>1. /\ SizedEntry(t) /\ t.state = s.state /\ t.send_window = s.send_window
        /\ n \in Sizes /\ n \in Nat /\ SumFunction(t.recv_queue) \in Nat
        /\ SumFunction(s.recv_queue) = SumFunction(t.recv_queue) + n
    BY <1>0, PopMoves DEF Books
  <1>2. SizedEntry(t) /\ SizedEntry(r) /\ t.state \in StreamStates /\ (CanSend(t) <=> CanSend(s))
    BY <1>0, <1>1 DEF Books, CanSend
  <1>3. /\ i \in Y
        /\ Holds(a, "Data", i) => i \in X
        /\ Holds(a, "Reset", i) => i \in X /\ ~CanSend(s)
    BY <1>0 DEF Owned, Books
  <1>4. /\ Owned(r, t, b, Y, X, i)
        /\ r.send_window \in Nat /\ Carried(b, "Data", i) \in Nat /\ Carried(a, "Window", i) \in Nat
    BY <1>0, <1>2 DEF Owned, Books, Numbers
  <1>5. ASSUME NEW f, f = Frame("Window", i, n), c = Append(a, f)
        PROVE  Ledger(t, r, c, b, X, Y, i)
    <2>1. f \in SizedFrame /\ f.type = "Window" /\ f.id = i /\ f.n = n
      BY <1>1, <1>5, FramesTyped, SizesNat DEF Frame, SizedFrame, StreamFrames
    <2>2. Share(f, "Data", i) = 0 /\ Share(f, "Window", i) = n
      BY <2>1 DEF Share
    <2>3. /\ Carried(c, "Data", i) = Carried(a, "Data", i)
          /\ Carried(c, "Window", i) = Carried(a, "Window", i) + n
      BY <1>0, <1>5, <2>1, <2>2, CarriedAppend DEF Books, Numbers
    <2>4. /\ Holds(c, "Data", i) <=> Holds(a, "Data", i)
          /\ Holds(c, "Reset", i) <=> Holds(a, "Reset", i)
      BY <1>5, <2>1, HoldsAppend
    <2>5. Total(t, r, c, b, i) = Total(s, r, a, b, i)
      BY <1>1, <2>3 DEF Total
    <2>6. Total(r, t, b, c, i) = Total(r, s, b, a, i)
      <3>1. PICK w \in Nat, x \in Nat, y \in Nat, z \in Nat :
              /\ w = r.send_window /\ x = Carried(b, "Data", i)
              /\ y = SumFunction(t.recv_queue) /\ z = Carried(a, "Window", i)
        BY <1>1, <1>4
      <3>2. /\ Total(r, t, b, c, i) = w + x + y + (z + n)
            /\ Total(r, s, b, a, i) = w + x + (y + n) + z
        BY <1>1, <2>3, <3>1 DEF Total
      <3>3. \A m \in Nat : w + x + y + (z + m) = w + x + (y + m) + z
        OBVIOUS
      <3> QED
        BY <1>1, <3>2, <3>3
    <2>7. Balanced(t, r, c, b, i)
      BY <1>0, <1>2, <2>5 DEF Balanced, Books
    <2>8. Balanced(r, t, b, c, i)
      BY <1>0, <2>4, <2>6 DEF Balanced, Books
    <2>9. Owned(t, r, c, X, Y, i)
      BY <1>2, <1>3, <2>4 DEF Owned
    <2> QED
      BY <1>2, <1>4, <2>7, <2>8, <2>9, LedgerIs
  <1>6. ASSUME c = a, ~CanSend(r)
        PROVE  Ledger(t, r, c, b, X, Y, i)
    <2>1. Total(t, r, a, b, i) = Total(s, r, a, b, i)
      BY <1>1 DEF Total
    <2>2. Total(r, t, b, a, i) <= Total(r, s, b, a, i) /\ Total(r, t, b, a, i) \in Nat
      <3>1. PICK w \in Nat, x \in Nat, y \in Nat, z \in Nat :
              /\ w = r.send_window /\ x = Carried(b, "Data", i)
              /\ y = SumFunction(t.recv_queue) /\ z = Carried(a, "Window", i)
        BY <1>1, <1>4
      <3>2. /\ Total(r, t, b, a, i) = w + x + y + z
            /\ Total(r, s, b, a, i) = w + x + (y + n) + z
        BY <1>1, <3>1 DEF Total
      <3>3. /\ \A m \in Nat : w + x + y + z <= w + x + (y + m) + z
            /\ w + x + y + z \in Nat
        OBVIOUS
      <3> QED
        BY <1>1, <3>2, <3>3
    <2>3. Balanced(t, r, a, b, i)
      BY <1>0, <1>2, <2>1 DEF Balanced, Books
    <2>4. Balanced(r, t, b, a, i)
      BY <1>0, <1>6, <2>2, TransportAssumption DEF Balanced, Books
    <2>5. Owned(t, r, a, X, Y, i)
      BY <1>2, <1>3 DEF Owned
    <2>6. Ledger(t, r, a, b, X, Y, i)
      BY <1>2, <1>4, <2>3, <2>4, <2>5, LedgerIs
    <2> QED
      BY <1>6, <2>6
  <1> QED
    BY <1>5, <1>6

\* A stream's state changes with a close, and its credit stays what it was.
LEMMA LedgerHalfCloses ==
    ASSUME NEW s, NEW r, NEW a \in Seq(SizedFrame), NEW b \in Seq(SizedFrame),
           NEW X, NEW Y, NEW i, Ledger(s, r, a, b, X, Y, i),
           NEW c, Alike(a, c, i), NEW d, Alike(b, d, i),
           NEW t, SizedEntry(t), t.state \in StreamStates, CanSend(t) => CanSend(s),
           t.send_window = s.send_window, t.recv_queue = s.recv_queue, i \in X
    PROVE  Ledger(t, r, c, d, X, Y, i)
  <1>0. Books(s, r, a, b, X, Y, i)
    BY LedgerSays
  <1>1. /\ \A type \in Credited : Holds(a, type, i) <=> Holds(c, type, i)
        /\ \A type \in Credited : Holds(b, type, i) <=> Holds(d, type, i)
        /\ \A type \in Credited : Carried(a, type, i) = Carried(c, type, i)
        /\ \A type \in Credited : Carried(b, type, i) = Carried(d, type, i)
    BY DEF Alike
  <1>2. Total(t, r, c, d, i) = Total(s, r, a, b, i) /\ Total(r, t, d, c, i) = Total(r, s, b, a, i)
    BY <1>1 DEF Total, Credited
  <1>3. Balanced(t, r, c, d, i) /\ Balanced(r, t, d, c, i)
    BY <1>0, <1>1, <1>2 DEF Balanced, Books, Credited
  <1>4. Owned(t, r, c, X, Y, i)
    BY <1>0, <1>1 DEF Owned, Books, Credited
  <1>5. Owned(r, t, d, Y, X, i)
    BY <1>0, <1>1 DEF Owned, Books, Credited
  <1>6. SizedEntry(r)
    BY <1>0 DEF Books
  <1> QED
    BY <1>3, <1>4, <1>5, <1>6, LedgerIs

\* An end lets go of a stream that the other cannot send on any more, or
\* that it has sent a Reset of.
LEMMA LedgerDrops ==
    ASSUME NEW s, NEW r, NEW a \in Seq(SizedFrame), NEW b \in Seq(SizedFrame),
           NEW X, NEW Y, NEW i, Ledger(s, r, a, b, X, Y, i), i \in X,
           NEW c, NEW d,
           \A type \in {"Data", "Window"} :
             /\ Holds(c, type, i) => Holds(a, type, i)
             /\ Carried(c, type, i) = Carried(a, type, i)
             /\ Carried(d, type, i) = Carried(b, type, i),
           \A type \in Credited : Holds(d, type, i) => Holds(b, type, i),
           Holds(c, "Reset", i) \/ (i \in Y /\ ~CanSend(r))
    PROVE  Ledger(NoStream, r, c, d, X, Y, i)
  <1>0. Books(s, r, a, b, X, Y, i)
    BY LedgerSays
  <1> SUFFICES ASSUME NEW t, t = NoStream
               PROVE  Ledger(t, r, c, d, X, Y, i)
    OBVIOUS
  <1>1. /\ SizedEntry(t) /\ t.send_window = 0 /\ t.recv_queue = << >>
        /\ SumFunction(t.recv_queue) = 0 /\ ~CanSend(t) /\ SizedEntry(r)
    BY <1>0, FreshEntries DEF CanSend, Books
  <1>2. /\ Carried(c, "Data", i) = Carried(a, "Data", i)
        /\ Carried(c, "Window", i) = Carried(a, "Window", i)
        /\ Carried(d, "Data", i) = Carried(b, "Data", i)
        /\ Carried(d, "Window", i) = Carried(b, "Window", i)
    OBVIOUS
  <1>3. Total(t, r, c, d, i) <= Total(s, r, a, b, i) /\ Total(t, r, c, d, i) \in Nat
    <2> DEFINE w == s.send_window
               x == Carried(a, "Data", i)
               y == SumFunction(r.recv_queue)
               z == Carried(b, "Window", i)
    <2>1. Total(t, r, c, d, i) = 0 + x + y + z /\ Total(s, r, a, b, i) = w + x + y + z
      BY <1>1, <1>2 DEF Total
    <2>2. w \in Nat /\ x \in Nat /\ y \in Nat /\ z \in Nat
      BY <1>0 DEF Books, Numbers
    <2> HIDE DEF w, x, y, z
    <2> QED
      BY <2>1, <2>2
  <1>4. Total(r, t, d, c, i) <= Total(r, s, b, a, i) /\ Total(r, t, d, c, i) \in Nat
    <2> DEFINE w == r.send_window
               x == Carried(b, "Data", i)
               y == SumFunction(s.recv_queue)
               z == Carried(a, "Window", i)
    <2>1. Total(r, t, d, c, i) = w + x + 0 + z /\ Total(r, s, b, a, i) = w + x + y + z
      BY <1>1, <1>2 DEF Total
    <2>2. w \in Nat /\ x \in Nat /\ y \in Nat /\ z \in Nat
      BY <1>0 DEF Books, Numbers
    <2> HIDE DEF w, x, y, z
    <2> QED
      BY <2>1, <2>2
  <1>5. Balanced(t, r, c, d, i)
    BY <1>0, <1>1, <1>3, TransportAssumption DEF Balanced, Books
  <1>6. Balanced(r, t, d, c, i)
    BY <1>0, <1>4, TransportAssumption DEF Balanced, Books
  <1>7. Owned(t, r, c, X, Y, i)
    BY <1>0, <1>1 DEF Owned, Books
  <1>8. Owned(r, t, d, Y, X, i)
    BY <1>0, <1>1 DEF Owned, Books, Credited
  <1> QED
    BY <1>1, <1>5, <1>6, <1>7, <1>8, LedgerIs

\* Without its first frame f, b is d and carries that much less.
Without(b, f, d, i) ==
    /\ f \in SizedFrame /\ d \in Seq(SizedFrame)
    /\ Holds(b, f.type, f.id)
    /\ \A type : Holds(d, type, i) => Holds(b, type, i)
    /\ \A type : f.type # type =>
         /\ Holds(b, type, i) <=> Holds(d, type, i)
         /\ Carried(b, type, i) = Carried(d, type, i)
    /\ f.id = i => Carried(b, f.type, i) = Carried(d, f.type, i) + f.n
    /\ f.n \in Nat /\ Carried(d, f.type, i) \in Nat

LEMMA FirstTaken ==
    ASSUME NEW b \in Seq(SizedFrame), b # << >>, NEW i
    PROVE  Without(b, b[1], Tail(b), i)
  <1>1. Tail(b) \in Seq(SizedFrame) /\ 1 \in 1 .. Len(b)
    BY HeadTailProperties, LenProperties, EmptySeq
  <1>2. b[1] \in SizedFrame /\ b[1].n \in Nat
    BY <1>1, ElementOfSeq, SizedNat
  <1>3. \A type : Carried(Tail(b), type, i) \in Nat
    BY <1>1, CarriedNat
  <1>4. ASSUME NEW type, b[1].type # type
        PROVE  Carried(b, type, i) = Carried(Tail(b), type, i)
    <2>1. Share(b[1], type, i) = 0
      BY <1>4 DEF Share
    <2>2. Carried(b, type, i) = Share(b[1], type, i) + Carried(Tail(b), type, i)
      BY CarriedTail
    <2> QED
      BY <1>3, <2>1, <2>2
  <1>5. ASSUME b[1].id = i
        PROVE  Carried(b, b[1].type, i) = Carried(Tail(b), b[1].type, i) + b[1].n
    <2>1. Share(b[1], b[1].type, i) = b[1].n
      BY <1>5 DEF Share
    <2>2. Carried(b, b[1].type, i) = Share(b[1], b[1].type, i) + Carried(Tail(b), b[1].type, i)
      BY CarriedTail
    <2>3. PICK m, u : m = b[1].n /\ u = Carried(Tail(b), b[1].type, i)
      OBVIOUS
    <2>4. m \in Nat /\ u \in Nat
      BY <1>2, <1>3, <2>3
    <2> QED
      BY <2>1, <2>2, <2>3, <2>4
  <1>6. Holds(b, b[1].type, b[1].id)
    BY HoldsTail DEF Holds
  <1>7. \A type : b[1].type # type => (Holds(b, type, i) <=> Holds(Tail(b), type, i))
    BY HoldsTail
  <1> QED
    BY <1>1, <1>2, <1>3, <1>4, <1>5, <1>6, <1>7, HoldsTail DEF Without

\* Data that arrives goes to the queue.
LEMMA LedgerReceives ==
    ASSUME NEW s, NEW r, NEW a \in Seq(SizedFrame), NEW b \in Seq(SizedFrame),
           NEW X, NEW Y, NEW i, Ledger(s, r, a, b, X, Y, i),
           b # << >>, b[1].type = "Data", b[1].id = i, s.state \in StreamStates
    PROVE  Ledger(PushRecv(s, b[1].n), r, a, Tail(b), X, Y, i)
  <1>0. Books(s, r, a, b, X, Y, i)
    BY LedgerSays
  <1> SUFFICES ASSUME NEW n, n = b[1].n, NEW t, t = PushRecv(s, n), NEW d, d = Tail(b)
               PROVE  Ledger(t, r, a, d, X, Y, i)
    OBVIOUS
  <1>1. /\ b[1] \in SizedFrame /\ Holds(b, "Data", i)
        /\ \A type : Holds(d, type, i) => Holds(b, type, i)
        /\ Holds(d, "Reset", i) <=> Holds(b, "Reset", i)
        /\ Carried(b, "Window", i) = Carried(d, "Window", i)
        /\ Carried(b, "Data", i) = Carried(d, "Data", i) + n
        /\ n \in Nat /\ Carried(d, "Data", i) \in Nat
    <2>1. Without(b, b[1], d, i)
      BY FirstTaken
    <2> QED
      BY <2>1 DEF Without
  <1>2. PICK w \in Nat, x \in Nat, y \in Nat, z \in Nat :
          /\ w = r.send_window /\ x = Carried(d, "Data", i)
          /\ y = SumFunction(s.recv_queue) /\ z = Carried(a, "Window", i)
    BY <1>0, <1>1 DEF Books, Numbers
  <1>3. Total(r, s, b, a, i) = w + (x + n) + y + z /\ Total(r, s, b, a, i) <= DefaultWindow
    BY <1>0, <1>1, <1>2 DEF Total, Books, Balanced
  <1>4. n + SumFunction(s.recv_queue) <= DefaultWindow
    <2>1. n \in Nat /\ DefaultWindow \in Nat
      BY <1>1, TransportAssumption
    <2>2. \A m, k \in Nat : w + (x + m) + y + z <= k => m + y <= k
      OBVIOUS
    <2>3. w + (x + n) + y + z <= DefaultWindow
      BY <1>3
    <2> QED
      BY <1>2, <2>1, <2>2, <2>3
  <1>5. n \in Sizes
    BY <1>1 DEF SizedFrame
  <1>6. /\ SizedEntry(t) /\ t.state = s.state /\ t.send_window = s.send_window
        /\ SumFunction(t.recv_queue) = SumFunction(s.recv_queue) + n
    BY <1>0, <1>4, <1>5, PushMoves DEF Books
  <1>7. Total(t, r, a, d, i) = Total(s, r, a, b, i)
    BY <1>1, <1>6 DEF Total
  <1>8. Total(r, t, d, a, i) = Total(r, s, b, a, i)
    <2>1. Total(r, t, d, a, i) = w + x + (y + n) + z
      BY <1>1, <1>2, <1>6 DEF Total
    <2>2. \A m \in Nat : w + x + (y + m) + z = w + (x + m) + y + z
      OBVIOUS
    <2> QED
      BY <1>1, <1>3, <2>1, <2>2
  <1>9. t.state \in StreamStates /\ (CanSend(t) <=> CanSend(s)) /\ SizedEntry(r) /\ i \in Y
    BY <1>0, <1>1, <1>6 DEF CanSend, Books, Owned
  <1>10. Balanced(t, r, a, d, i)
    BY <1>0, <1>1, <1>7, <1>9 DEF Balanced, Books
  <1>11. Balanced(r, t, d, a, i)
    BY <1>0, <1>8 DEF Balanced, Books
  <1>12. Owned(t, r, a, X, Y, i)
    BY <1>0, <1>9 DEF Owned, Books
  <1>13. Owned(r, t, d, Y, X, i)
    BY <1>0, <1>1, <1>9 DEF Owned, Books
  <1> QED
    BY <1>6, <1>9, <1>10, <1>11, <1>12, <1>13, LedgerIs

\* A grant that arrives is credit again.
LEMMA LedgerGranted ==
    ASSUME NEW s, NEW r, NEW a \in Seq(SizedFrame), NEW b \in Seq(SizedFrame),
           NEW X, NEW Y, NEW i, Ledger(s, r, a, b, X, Y, i),
           b # << >>, b[1].type = "Window", b[1].id = i, s.state \in StreamStates
    PROVE  Ledger(ApplyWindow(s, b[1].n), r, a, Tail(b), X, Y, i)
  <1>0. Books(s, r, a, b, X, Y, i)
    BY LedgerSays
  <1> SUFFICES ASSUME NEW n, n = b[1].n, NEW t, t = ApplyWindow(s, n), NEW d, d = Tail(b)
               PROVE  Ledger(t, r, a, d, X, Y, i)
    OBVIOUS
  <1>1. /\ \A type : Holds(d, type, i) => Holds(b, type, i)
        /\ Holds(d, "Reset", i) <=> Holds(b, "Reset", i)
        /\ Carried(b, "Data", i) = Carried(d, "Data", i)
        /\ Carried(b, "Window", i) = Carried(d, "Window", i) + n
        /\ n \in Nat /\ Carried(d, "Window", i) \in Nat
    <2>1. Without(b, b[1], d, i)
      BY FirstTaken
    <2> QED
      BY <2>1 DEF Without
  <1>2. /\ SizedEntry(t) /\ t.state = s.state /\ t.recv_queue = s.recv_queue
        /\ t.send_window = s.send_window + n
    BY <1>0, <1>1, SendWindowMoves DEF Books
  <1>3. Total(r, t, d, a, i) = Total(r, s, b, a, i)
    BY <1>1, <1>2 DEF Total
  <1>4. Total(t, r, a, d, i) = Total(s, r, a, b, i)
    <2>1. PICK w \in Nat, x \in Nat, y \in Nat, z \in Nat :
            /\ w = s.send_window /\ x = Carried(a, "Data", i)
            /\ y = SumFunction(r.recv_queue) /\ z = Carried(d, "Window", i)
      BY <1>0, <1>1 DEF Books, Numbers
    <2>2. /\ Total(t, r, a, d, i) = (w + n) + x + y + z
          /\ Total(s, r, a, b, i) = w + x + y + (z + n)
      BY <1>1, <1>2, <2>1 DEF Total
    <2>3. \A m \in Nat : (w + m) + x + y + z = w + x + y + (z + m)
      OBVIOUS
    <2> QED
      BY <1>1, <2>2, <2>3
  <1>5. t.state \in StreamStates /\ (CanSend(t) <=> CanSend(s)) /\ SizedEntry(r)
    BY <1>0, <1>2 DEF CanSend, Books
  <1>6. Balanced(t, r, a, d, i)
    BY <1>0, <1>1, <1>4, <1>5 DEF Balanced, Books
  <1>7. Balanced(r, t, d, a, i)
    BY <1>0, <1>3 DEF Balanced, Books
  <1>8. Owned(t, r, a, X, Y, i)
    BY <1>0, <1>2, <1>5 DEF Owned, Books
  <1>9. Owned(r, t, d, Y, X, i)
    BY <1>0, <1>1, <1>5 DEF Owned, Books
  <1> QED
    BY <1>2, <1>5, <1>6, <1>7, <1>8, <1>9, LedgerIs

\* A frame that comes too late is dropped, and its credit with it.
LEMMA LedgerLate ==
    ASSUME NEW s, NEW r, NEW a \in Seq(SizedFrame), NEW b \in Seq(SizedFrame),
           NEW X, NEW Y, NEW i, Ledger(s, r, a, b, X, Y, i), i \in X,
           b # << >>, b[1].type # "Reset", b[1].id = i, s.state \notin StreamStates
    PROVE  Ledger(s, r, a, Tail(b), X, Y, i)
  <1>0. Books(s, r, a, b, X, Y, i)
    BY LedgerSays
  <1> SUFFICES ASSUME NEW d, d = Tail(b)
               PROVE  Ledger(s, r, a, d, X, Y, i)
    OBVIOUS
  <1>1. /\ \A type : Holds(d, type, i) => Holds(b, type, i)
        /\ Holds(d, "Reset", i) <=> Holds(b, "Reset", i)
    <2>1. Without(b, b[1], d, i)
      BY FirstTaken
    <2> QED
      BY <2>1 DEF Without
  <1>2. \A type : Carried(d, type, i) \in Nat /\ Carried(d, type, i) <= Carried(b, type, i)
    <2> SUFFICES ASSUME NEW type
                 PROVE  Carried(d, type, i) \in Nat /\ Carried(d, type, i) <= Carried(b, type, i)
      OBVIOUS
    <2>1. d \in Seq(SizedFrame) /\ b[1] \in SizedFrame
      BY FirstTaken DEF Without
    <2>2. Carried(b, type, i) = Share(b[1], type, i) + Carried(d, type, i)
      BY CarriedTail
    <2>3. Share(b[1], type, i) \in Nat /\ Carried(d, type, i) \in Nat
      BY <2>1, ShareNat, CarriedNat
    <2> QED
      BY <2>2, <2>3
  <1>3. ~CanSend(s) /\ SizedEntry(s) /\ SizedEntry(r) /\ (~CanSend(r) \/ Holds(a, "Reset", i))
    BY <1>0, CanSendHas DEF Books, Owned
  <1>4. Total(s, r, a, d, i) <= Total(s, r, a, b, i) /\ Total(s, r, a, d, i) \in Nat
    <2> DEFINE w == s.send_window
               x == Carried(a, "Data", i)
               y == SumFunction(r.recv_queue)
               z == Carried(b, "Window", i)
               v == Carried(d, "Window", i)
    <2>1. Total(s, r, a, d, i) = w + x + y + v /\ Total(s, r, a, b, i) = w + x + y + z
      BY DEF Total
    <2>2. w \in Nat /\ x \in Nat /\ y \in Nat /\ z \in Nat /\ v \in Nat /\ v <= z
      BY <1>0, <1>2 DEF Books, Numbers
    <2> HIDE DEF w, x, y, z, v
    <2> QED
      BY <2>1, <2>2
  <1>5. Total(r, s, d, a, i) <= Total(r, s, b, a, i) /\ Total(r, s, d, a, i) \in Nat
    <2> DEFINE w == r.send_window
               x == Carried(b, "Data", i)
               y == SumFunction(s.recv_queue)
               z == Carried(a, "Window", i)
               v == Carried(d, "Data", i)
    <2>1. Total(r, s, d, a, i) = w + v + y + z /\ Total(r, s, b, a, i) = w + x + y + z
      BY DEF Total
    <2>2. w \in Nat /\ x \in Nat /\ y \in Nat /\ z \in Nat /\ v \in Nat /\ v <= x
      BY <1>0, <1>2 DEF Books, Numbers
    <2> HIDE DEF w, x, y, z, v
    <2> QED
      BY <2>1, <2>2
  <1>6. Balanced(s, r, a, d, i)
    BY <1>0, <1>3, <1>4, TransportAssumption DEF Balanced, Books
  <1>7. Balanced(r, s, d, a, i)
    BY <1>0, <1>3, <1>5, TransportAssumption DEF Balanced, Books
  <1>8. Owned(s, r, a, X, Y, i)
    BY <1>0 DEF Books
  <1>9. Owned(r, s, d, Y, X, i)
    BY <1>0, <1>1, <1>3 DEF Owned, Books
  <1> QED
    BY <1>3, <1>6, <1>7, <1>8, <1>9, LedgerIs

-----------------------------------------------------------------------------
(* The ledgers of all streams, in every step.                              *)

SizedFlight == \A p \in Peers : InFlight(p) \in Seq(SizedFrame)
LedgerOf(p, i) ==
    Ledger(streams[p][i], streams[Other(p)][i], InFlight(p), InFlight(Other(p)),
           seen[p], seen[Other(p)], i)
LedgerInv == SizedFlight /\ \A p \in Peers, i \in Ids : LedgerOf(p, i)

LEMMA AlikeSelf == \A s, i : Alike(s, s, i)
  BY DEF Alike

\* The ledger of one end is that of the other.
LEMMA LedgersHold ==
    ASSUME NEW p \in Peers,
           InFlight(p)' \in Seq(SizedFrame), InFlight(Other(p))' \in Seq(SizedFrame),
           \A j \in Ids :
             Ledger(streams'[p][j], streams'[Other(p)][j], InFlight(p)', InFlight(Other(p))',
                    seen'[p], seen'[Other(p)], j)
    PROVE  LedgerInv'
  <1> DEFINE q == Other(p)
  <1>1. q \in Peers /\ Other(q) = p /\ \A r \in Peers : r = p \/ r = q
    BY OtherPeer DEF Peers, Other
  <1>2. SizedFlight'
    BY <1>1 DEF SizedFlight
  <1>3. ASSUME NEW j \in Ids
        PROVE  LedgerOf(p, j)' /\ LedgerOf(q, j)'
    <2>1. Ledger(streams'[p][j], streams'[q][j], InFlight(p)', InFlight(q)', seen'[p], seen'[q], j)
      OBVIOUS
    <2>2. Ledger(streams'[q][j], streams'[p][j], InFlight(q)', InFlight(p)', seen'[q], seen'[p], j)
      BY <2>1 DEF Ledger
    <2> QED
      BY <1>1, <2>1, <2>2 DEF LedgerOf
  <1> QED
    BY <1>1, <1>2, <1>3 DEF LedgerInv

\* How the frames in flight from an end change when it sends a frame or none,
\* and when the other end takes one or none.
LEMMA SentAlike ==
    ASSUME SizedFlight, NEW p \in Peers, NEW i, NEW c, InFlight(p)' = c,
           Keeps(p) \/ \E f \in SizedFrame : (f.id = i \/ f.type \notin StreamFrames) /\ Sends(p, f)
    PROVE  c \in Seq(SizedFrame) /\ \A j : j # i => Alike(InFlight(p), c, j)
  <1>0. InFlight(p) \in Seq(SizedFrame)
    BY DEF SizedFlight
  <1>1. CASE Keeps(p)
    BY <1>0, <1>1, AlikeSelf DEF Keeps
  <1>2. ASSUME NEW f \in SizedFrame, f.id = i \/ f.type \notin StreamFrames, Sends(p, f)
        PROVE  c \in Seq(SizedFrame) /\ \A j : j # i => Alike(InFlight(p), c, j)
    <2>1. c = Append(InFlight(p), f) /\ c \in Seq(SizedFrame)
      BY <1>0, <1>2, AppendProperties DEF Sends
    <2>2. ASSUME NEW j, j # i
          PROVE  Alike(InFlight(p), Append(InFlight(p), f), j)
      <3>1. f.id # j \/ f.type \notin Credited
        BY <1>2, <2>2 DEF Credited, StreamFrames
      <3> QED
        BY <1>0, <3>1, AlikeSent
    <2> QED
      BY <2>1, <2>2
  <1> QED
    BY <1>1, <1>2

LEMMA TakenAlike ==
    ASSUME SizedFlight, NEW p \in Peers, NEW i, NEW c, InFlight(p)' = c,
           \/ Keeps(p)
           \/ Takes(p) /\ (InFlight(p)[1].id = i \/ InFlight(p)[1].type \notin StreamFrames)
    PROVE  c \in Seq(SizedFrame) /\ \A j : j # i => Alike(InFlight(p), c, j)
  <1>0. InFlight(p) \in Seq(SizedFrame)
    BY DEF SizedFlight
  <1>1. CASE Keeps(p)
    BY <1>0, <1>1, AlikeSelf DEF Keeps
  <1>2. CASE Takes(p) /\ (InFlight(p)[1].id = i \/ InFlight(p)[1].type \notin StreamFrames)
    <2>1. InFlight(p) # << >> /\ c = Tail(InFlight(p)) /\ c \in Seq(SizedFrame)
      BY <1>0, <1>2, HeadTailProperties DEF Takes
    <2>2. ASSUME NEW j, j # i
          PROVE  Alike(InFlight(p), Tail(InFlight(p)), j)
      <3>1. InFlight(p)[1].id # j \/ InFlight(p)[1].type \notin Credited
        BY <1>2, <2>2 DEF Credited, StreamFrames
      <3> QED
        BY <1>0, <2>1, <3>1, AlikeTaken
    <2> QED
      BY <2>1, <2>2
  <1> QED
    BY <1>1, <1>2

\* A step about one stream keeps the ledgers of the others.
LEMMA LedgersOfOthers ==
    ASSUME LedgerInv, StateTyped, NEW p \in Peers, NEW i \in Ids, NEW t, SetStream(p, i, t),
           Keeps(p) \/ \E f \in SizedFrame : f.id = i /\ Sends(p, f),
           Keeps(Other(p)) \/ (Takes(Other(p)) /\ InFlight(Other(p))[1].id = i),
           seen'[Other(p)] = seen[Other(p)],
           \A j \in Ids \ {i} : j \in seen[p] <=> j \in seen'[p],
           Ledger(t, streams[Other(p)][i], InFlight(p)', InFlight(Other(p))',
                  seen'[p], seen[Other(p)], i)
    PROVE  LedgerInv'
  <1> DEFINE q == Other(p)
  <1>1. q \in Peers /\ Other(q) = p /\ SizedFlight
    BY OtherPeer DEF LedgerInv
  <1>2. PICK c, d, Z : c = InFlight(p)' /\ d = InFlight(q)' /\ Z = seen'[p]
    OBVIOUS
  <1>3. /\ streams'[p][i] = t /\ streams'[q][i] = streams[q][i]
        /\ \A j \in Ids \ {i} : streams'[p][j] = streams[p][j] /\ streams'[q][j] = streams[q][j]
    BY <1>1, OtherPeer DEF SetStream, StateTyped
  <1>4. c \in Seq(SizedFrame) /\ \A j : j # i => Alike(InFlight(p), c, j)
    BY <1>1, <1>2, SentAlike
  <1>5. d \in Seq(SizedFrame) /\ \A j : j # i => Alike(InFlight(q), d, j)
    BY <1>1, <1>2, TakenAlike
  <1>6. ASSUME NEW j \in Ids \ {i}
        PROVE  Ledger(streams[p][j], streams[q][j], c, d, Z, seen[q], j)
    <2>1. Ledger(streams[p][j], streams[q][j], InFlight(p), InFlight(q), seen[p], seen[q], j)
      BY DEF LedgerInv, LedgerOf
    <2>2. Alike(InFlight(p), c, j) /\ Alike(InFlight(q), d, j) /\ (j \in seen[p] <=> j \in Z)
      BY <1>2, <1>4, <1>5
    <2> QED
      BY <2>1, <2>2, LedgerStays
  <1>7. ASSUME NEW j \in Ids
        PROVE  Ledger(streams'[p][j], streams'[q][j], c, d, Z, seen'[q], j)
    <2>1. CASE j = i
      BY <1>2, <1>3, <2>1
    <2>2. CASE j # i
      BY <1>3, <1>6, <2>2
    <2> QED
      BY <2>1, <2>2
  <1> QED
    BY <1>2, <1>4, <1>5, <1>7, LedgersHold

\* So does one about none.
LEMMA LedgersRest ==
    ASSUME LedgerInv, NEW p \in Peers, UNCHANGED <<streams, seen>>,
           Keeps(p) \/ \E f \in SizedFrame : f.type \notin StreamFrames /\ Sends(p, f),
           Keeps(Other(p)) \/ (Takes(Other(p)) /\ InFlight(Other(p))[1].type \notin StreamFrames)
    PROVE  LedgerInv'
  <1> DEFINE q == Other(p)
  <1>1. q \in Peers /\ Other(q) = p /\ SizedFlight
    BY OtherPeer DEF LedgerInv
  <1>2. PICK c, d : c = InFlight(p)' /\ d = InFlight(q)'
    OBVIOUS
  <1>3. ASSUME NEW j \in Ids
        PROVE  /\ c \in Seq(SizedFrame) /\ d \in Seq(SizedFrame)
               /\ Ledger(streams[p][j], streams[q][j], c, d, seen[p], seen[q], j)
    <2>1. PICK i : i # j
      <3>1. j # j + 1
        BY DEF Ids
      <3> QED
        BY <3>1
    <2>2. c \in Seq(SizedFrame) /\ Alike(InFlight(p), c, j)
      BY <1>1, <1>2, <2>1, SentAlike
    <2>3. d \in Seq(SizedFrame) /\ Alike(InFlight(q), d, j)
      BY <1>1, <1>2, <2>1, TakenAlike
    <2>4. Ledger(streams[p][j], streams[q][j], InFlight(p), InFlight(q), seen[p], seen[q], j)
      BY DEF LedgerInv, LedgerOf
    <2> QED
      BY <2>2, <2>3, <2>4, LedgerStays
  <1>4. c \in Seq(SizedFrame) /\ d \in Seq(SizedFrame)
    BY <1>3, TransportAssumption DEF Ids
  <1> QED
    BY <1>2, <1>3, <1>4, LedgersHold

\* The frames and what they carry.
LEMMA EmptyFrames ==
    /\ \A type \in {"Hello", "Welcome", "Error"} :
         /\ Control(type) \in WireFrame /\ Control(type) \in SizedFrame
         /\ Control(type).type \notin StreamFrames
    /\ \A type \in {"Ping", "Pong"}, n \in PingSizes :
         LET f == Frame(type, 0, n)
         IN  f \in WireFrame /\ f \in SizedFrame /\ f.type \notin StreamFrames
    /\ \A type \in {"Open", "Close", "Reset"}, i \in Ids :
         LET f == Frame(type, i, 0)
         IN  f \in WireFrame /\ f \in SizedFrame /\ f.type = type /\ f.id = i /\ f.n = 0
    /\ \A type \in {"Data", "Window"}, i \in Ids, n \in Sizes :
         LET f == Frame(type, i, n)
         IN  f \in WireFrame /\ f \in SizedFrame /\ f.type = type /\ f.id = i /\ f.n = n
  <1>1. ASSUME NEW type \in {"Hello", "Welcome", "Error"}
        PROVE  /\ Control(type) \in WireFrame /\ Control(type) \in SizedFrame
               /\ Control(type).type \notin StreamFrames
    BY FramesTyped DEF Control, Frame, SizedFrame, StreamFrames
  <1>4. ASSUME NEW type \in {"Ping", "Pong"}, NEW n \in PingSizes
        PROVE  LET f == Frame(type, 0, n)
               IN  f \in WireFrame /\ f \in SizedFrame /\ f.type \notin StreamFrames
    <2>1. n \in Int
      BY TransportAssumption
    <2> QED
      BY <2>1, FramesTyped DEF Frame, SizedFrame, StreamFrames
  <1>2. ASSUME NEW type \in {"Open", "Close", "Reset"}, NEW i \in Ids
        PROVE  LET f == Frame(type, i, 0)
               IN  f \in WireFrame /\ f \in SizedFrame /\ f.type = type /\ f.id = i /\ f.n = 0
    BY FramesTyped DEF Frame, SizedFrame, StreamFrames
  <1>3. ASSUME NEW type \in {"Data", "Window"}, NEW i \in Ids, NEW n \in Sizes
        PROVE  LET f == Frame(type, i, n)
               IN  f \in WireFrame /\ f \in SizedFrame /\ f.type = type /\ f.id = i /\ f.n = n
    <2>1. n \in Int
      BY SizesNat
    <2> QED
      BY <2>1, FramesTyped DEF Frame, SizedFrame, StreamFrames
  <1> QED
    BY <1>1, <1>2, <1>3, <1>4

\* What the lemmas on a ledger need to know of the stream i, seen from p.
LEMMA LedgerHere ==
    ASSUME TransportInv, LedgerInv, NEW p \in Peers, NEW i \in Ids
    PROVE  /\ Ledger(streams[p][i], streams[Other(p)][i], InFlight(p), InFlight(Other(p)),
                     seen[p], seen[Other(p)], i)
           /\ InFlight(p) \in Seq(SizedFrame) /\ InFlight(Other(p)) \in Seq(SizedFrame)
           /\ SizedEntry(streams[p][i])
           /\ Has(p, i) => i \in seen[p] /\ streams[p][i].state \in StreamStates
           /\ streams[p][i].state = "HalfClosedRemote" =>
                i \in seen[Other(p)] /\ ~CanSend(streams[Other(p)][i])
  <1>1. Ledger(streams[p][i], streams[Other(p)][i], InFlight(p), InFlight(Other(p)),
               seen[p], seen[Other(p)], i)
    BY DEF LedgerInv, LedgerOf
  <1>2. InFlight(p) \in Seq(SizedFrame) /\ InFlight(Other(p)) \in Seq(SizedFrame)
    BY OtherPeer DEF LedgerInv, SizedFlight
  <1>3. SizedEntry(streams[p][i])
    BY <1>1 DEF Ledger, Lawful
  <1>4. Has(p, i) => i \in seen[p] /\ streams[p][i].state \in StreamStates
    BY DEF TransportInv, OpenInv, IdInv, Has
  <1>5. streams[p][i].state = "HalfClosedRemote" =>
          i \in seen[Other(p)] /\ ~CanSend(streams[Other(p)][i])
    BY DEF TransportInv, CloseInv, Finished
  <1> QED
    BY <1>1, <1>2, <1>3, <1>4, <1>5

LEMMA OpenCredit ==
    ASSUME TransportInv, LedgerInv, NEW p \in Peers, OpenStream(p)
    PROVE  LedgerInv'
  <1> DEFINE q == Other(p)
  <1>0. StateTyped /\ FlightTyped /\ OpenInv /\ RoomInv
    BY DEF TransportInv, TransportTyped
  <1>1. PICK i : i = next_local_id[p]
    OBVIOUS
  <1>2. i \in Ids
    BY <1>0, <1>1, TransportAssumption DEF OpenStream, NextId, Ids, StateTyped
  <1>3. PICK f : f = Frame("Open", i, 0)
    OBVIOUS
  <1>4. f \in WireFrame /\ f \in SizedFrame /\ f.type = "Open" /\ f.id = i
    BY <1>2, <1>3, EmptyFrames
  <1>5. Sends(p, f) /\ Keeps(q)
    BY <1>0, <1>1, <1>3, <1>4, FitsOfType, BufferFrameFlight DEF OpenStream
  <1>6. i \notin seen[p] /\ streams[p][i].state \notin StreamStates
    BY <1>0, <1>1, <1>2, NextIdIsNew DEF OpenInv, IdInv, Has
  <1>7. seen'[p] = seen[p] \cup {i} /\ seen'[q] = seen[q] /\ SetStream(p, i, NewStream)
    BY <1>0, <1>1, OtherPeer DEF OpenStream, StateTyped
  <1>8. Alike(InFlight(p), Append(InFlight(p), f), i)
    BY <1>2, <1>4, LedgerHere, AlikeSent DEF Credited
  <1>9. Ledger(NewStream, streams[q][i], Append(InFlight(p), f), InFlight(q),
               seen[p] \cup {i}, seen[q], i)
    BY <1>2, <1>6, <1>8, LedgerHere, AlikeSelf, LedgerBegins
  <1>10. Ledger(NewStream, streams[q][i], InFlight(p)', InFlight(q)', seen'[p], seen[q], i)
    BY <1>5, <1>7, <1>9 DEF Sends, Keeps
  <1> QED
    BY <1>0, <1>2, <1>4, <1>5, <1>7, <1>10, LedgersOfOthers

LEMMA SendCredit ==
    ASSUME TransportInv, LedgerInv, NEW p \in Peers, NEW i \in Ids, NEW n \in Sizes,
           SendData(p, i, n)
    PROVE  LedgerInv'
  <1> DEFINE q == Other(p)
             t == ConsumeSendWindow(streams[p][i], n)
  <1>0. StateTyped /\ FlightTyped /\ RoomInv
    BY DEF TransportInv, TransportTyped
  <1>1. PICK f : f = Frame("Data", i, n)
    OBVIOUS
  <1>2. f \in WireFrame /\ f \in SizedFrame /\ f.id = i
    BY <1>1, EmptyFrames
  <1>3. Sends(p, f) /\ Keeps(q)
    BY <1>0, <1>1, <1>2, FitsOfType, BufferFrameFlight DEF SendData
  <1>4. Ledger(t, streams[q][i], Append(InFlight(p), f), InFlight(q), seen[p], seen[q], i)
    BY <1>1, LedgerHere, LedgerSpends DEF SendData
  <1> HIDE DEF t
  <1>5. SetStream(p, i, t) /\ seen' = seen
    BY DEF SendData, t
  <1>6. PICK u : u = t
    OBVIOUS
  <1>7. Ledger(u, streams[q][i], InFlight(p)', InFlight(q)', seen'[p], seen[q], i)
    BY <1>3, <1>4, <1>5, <1>6 DEF Sends, Keeps
  <1> QED
    BY <1>0, <1>2, <1>3, <1>5, <1>6, <1>7, LedgersOfOthers

LEMMA CloseCredit ==
    ASSUME TransportInv, LedgerInv, NEW p \in Peers, NEW i \in Ids, CloseStream(p, i)
    PROVE  LedgerInv'
  <1> DEFINE q == Other(p)
  <1>0. StateTyped /\ FlightTyped /\ RoomInv
    BY DEF TransportInv, TransportTyped
  <1>1. PICK f, t : f = Frame("Close", i, 0) /\ t = OnLocalClose(streams[p][i])
    OBVIOUS
  <1>2. f \in WireFrame /\ f \in SizedFrame /\ f.id = i /\ f.type = "Close"
    BY <1>1, EmptyFrames
  <1>3. Sends(p, f) /\ Keeps(q)
    BY <1>0, <1>1, <1>2, FitsOfType, BufferFrameFlight DEF CloseStream
  <1>4. SetStream(p, i, t) /\ seen' = seen /\ Has(p, i)
    BY <1>1 DEF CloseStream
  <1>5. PICK c : c = Append(InFlight(p), f)
    OBVIOUS
  <1>6. Alike(InFlight(p), c, i)
    BY <1>2, <1>5, LedgerHere, AlikeSent DEF Credited
  <1>7. /\ SizedEntry(t)
        /\ CanSend(t) => CanSend(streams[p][i])
        /\ t = NoStream => streams[p][i].state = "HalfClosedRemote"
        /\ \/ t = NoStream
           \/ /\ t.state \in StreamStates /\ t.send_window = streams[p][i].send_window
              /\ t.recv_queue = streams[p][i].recv_queue
    BY <1>1, <1>4, LedgerHere, CloseMoves
  <1>8. Ledger(t, streams[q][i], c, InFlight(q), seen[p], seen[q], i)
    <2>1. CASE t = NoStream
      <3>1. i \in seen[p] /\ i \in seen[q] /\ ~CanSend(streams[q][i])
        BY <1>4, <1>7, <2>1, LedgerHere
      <3>2. \A type \in {"Data", "Window"} :
              /\ Holds(c, type, i) => Holds(InFlight(p), type, i)
              /\ Carried(c, type, i) = Carried(InFlight(p), type, i)
        BY <1>6 DEF Alike, Credited
      <3> QED
        BY <2>1, <3>1, <3>2, LedgerHere, LedgerDrops
    <2>2. CASE t # NoStream
      BY <1>4, <1>6, <1>7, <2>2, LedgerHere, AlikeSelf, LedgerHalfCloses
    <2> QED
      BY <2>1, <2>2
  <1>9. Ledger(t, streams[q][i], InFlight(p)', InFlight(q)', seen'[p], seen[q], i)
    BY <1>3, <1>4, <1>5, <1>8 DEF Sends, Keeps
  <1> QED
    BY <1>0, <1>2, <1>3, <1>4, <1>9, LedgersOfOthers

LEMMA ResetCredit ==
    ASSUME TransportInv, LedgerInv, NEW p \in Peers, NEW i \in Ids, ResetStream(p, i)
    PROVE  LedgerInv'
  <1> DEFINE q == Other(p)
  <1>0. StateTyped /\ FlightTyped /\ RoomInv
    BY DEF TransportInv, TransportTyped
  <1>1. PICK f : f = Frame("Reset", i, 0)
    OBVIOUS
  <1>2. f \in WireFrame /\ f \in SizedFrame /\ f.id = i /\ f.type = "Reset" /\ f.n = 0
    BY <1>1, EmptyFrames
  <1>3. Sends(p, f) /\ Keeps(q)
    BY <1>0, <1>1, <1>2, FitsOfType, SendFrameFlight DEF ResetStream
  <1>4. SetStream(p, i, NoStream) /\ seen' = seen /\ Has(p, i)
    BY DEF ResetStream
  <1>5. PICK c : c = Append(InFlight(p), f)
    OBVIOUS
  <1>6. InFlight(p) \in Seq(SizedFrame)
    BY LedgerHere
  <1>7. \A type \in {"Data", "Window"} :
          /\ Holds(c, type, i) => Holds(InFlight(p), type, i)
          /\ Carried(c, type, i) = Carried(InFlight(p), type, i)
    <2> SUFFICES ASSUME NEW type \in {"Data", "Window"}
                 PROVE  /\ Holds(c, type, i) => Holds(InFlight(p), type, i)
                        /\ Carried(c, type, i) = Carried(InFlight(p), type, i)
      OBVIOUS
    <2>1. Share(f, type, i) = 0 /\ Carried(InFlight(p), type, i) \in Nat
      BY <1>2, <1>6, CarriedNat DEF Share
    <2> QED
      BY <1>2, <1>5, <1>6, <2>1, HoldsAppend, CarriedAppend
  <1>8. Holds(c, "Reset", i)
    BY <1>2, <1>5, <1>6, HoldsAppend
  <1>9. Ledger(NoStream, streams[q][i], c, InFlight(q), seen[p], seen[q], i)
    BY <1>4, <1>7, <1>8, LedgerHere, LedgerDrops
  <1>10. Ledger(NoStream, streams[q][i], InFlight(p)', InFlight(q)', seen'[p], seen[q], i)
    BY <1>3, <1>4, <1>5, <1>9 DEF Sends, Keeps
  <1> QED
    BY <1>0, <1>2, <1>3, <1>4, <1>10, LedgersOfOthers

LEMMA ReadCredit ==
    ASSUME TransportInv, LedgerInv, NEW p \in Peers, NEW i \in Ids, RecvData(p, i)
    PROVE  LedgerInv'
  <1> DEFINE q == Other(p)
  <1>0. StateTyped /\ FlightTyped /\ RoomInv
    BY DEF TransportInv, TransportTyped
  <1>1. PICK s, t, n, f : /\ s = streams[p][i] /\ t = PopRecv(s) /\ n = Head(s.recv_queue)
                          /\ f = Frame("Window", i, n)
    OBVIOUS
  <1>2. SetStream(p, i, t) /\ seen' = seen /\ Has(p, i) /\ s.recv_queue # << >>
    BY <1>1 DEF RecvData
  <1>3. s.state \in StreamStates /\ n \in Sizes
    BY <1>1, <1>2, LedgerHere, PopMoves
  <1>4. f \in WireFrame /\ f \in SizedFrame /\ f.id = i
    BY <1>1, <1>3, EmptyFrames
  <1>5. CASE CanReceive(s)
    <2>1. Sends(p, f) /\ Keeps(q)
      BY <1>0, <1>1, <1>4, <1>5, FitsOfType, BufferFrameFlight DEF RecvData
    <2>2. Ledger(t, streams[q][i], Append(InFlight(p), f), InFlight(q), seen[p], seen[q], i)
      BY <1>1, <1>2, <1>3, LedgerHere, LedgerReads
    <2>3. Ledger(t, streams[q][i], InFlight(p)', InFlight(q)', seen'[p], seen[q], i)
      BY <1>2, <2>1, <2>2 DEF Sends, Keeps
    <2> QED
      BY <1>0, <1>2, <1>4, <2>1, <2>3, LedgersOfOthers
  <1>6. CASE ~CanReceive(s)
    <2>1. Keeps(p) /\ Keeps(q)
      BY <1>1, <1>6 DEF RecvData, connVars, Keeps, InFlight
    <2>2. s.state = "HalfClosedRemote"
      BY <1>3, <1>6 DEF CanReceive, StreamStates
    <2>3. ~CanSend(streams[q][i])
      BY <1>1, <2>2, LedgerHere
    <2>4. Ledger(t, streams[q][i], InFlight(p), InFlight(q), seen[p], seen[q], i)
      BY <1>1, <1>2, <1>3, <2>3, LedgerHere, LedgerReads
    <2>5. Ledger(t, streams[q][i], InFlight(p)', InFlight(q)', seen'[p], seen[q], i)
      BY <1>2, <2>1, <2>4 DEF Keeps
    <2> QED
      BY <1>0, <1>2, <2>1, <2>5, LedgersOfOthers
  <1> QED
    BY <1>5, <1>6

LEMMA CallCredit ==
    ASSUME TransportInv, LedgerInv, NEW p \in Peers, Call(p)
    PROVE  LedgerInv'
  <1>0. FlightTyped /\ RoomInv
    BY DEF TransportInv, TransportTyped
  <1>1. CASE StartHandshake(p)
    <2>1. Sends(p, Control("Hello")) /\ Keeps(Other(p))
      BY <1>0, <1>1, EmptyFrames, FitsOfType, SendFrameFlight DEF StartHandshake
    <2> QED
      BY <1>1, <2>1, EmptyFrames, LedgersRest DEF StartHandshake
  <1>2. ASSUME NEW n \in PingSizes, SendPing(p, n)
        PROVE  LedgerInv'
    <2> DEFINE f == Frame("Ping", 0, n)
    <2>1. f \in WireFrame /\ f \in SizedFrame /\ f.type \notin StreamFrames
      BY EmptyFrames
    <2>2. SendFrame(p, f) /\ UNCHANGED <<streams, seen>>
      BY <1>2 DEF SendPing
    <2> HIDE DEF f
    <2>3. CASE Fits(p, f)
      <3>1. Sends(p, f) /\ Keeps(Other(p))
        BY <1>0, <2>1, <2>2, <2>3, SendFrameFlight
      <3> QED
        BY <2>1, <2>2, <3>1, LedgersRest
    <2>4. CASE ~Fits(p, f)
      <3>1. Keeps(p) /\ Keeps(Other(p))
        BY <2>2, <2>4 DEF SendFrame, connVars, Keeps, InFlight
      <3> QED
        BY <2>2, <3>1, LedgersRest
    <2> QED
      BY <2>3, <2>4
  <1>3. CASE Flush(p)
    <2>1. Keeps(p) /\ Keeps(Other(p))
      BY <1>0, <1>3, FlushFlight DEF Flush
    <2> QED
      BY <1>3, <2>1, LedgersRest DEF Flush
  <1> QED
    BY <1>1, <1>2, <1>3, OpenCredit, SendCredit, CloseCredit, ResetCredit, ReadCredit DEF Call

\* What is refused is late.
LEMMA RefusedIsLate ==
    ASSUME TransportInv, NEW p \in Peers, wire[Other(p)] # << >>
    PROVE  LET f == Incoming(p)
           IN  \/ Refusal(p, f) = "none"
               \/ Refusal(p, f) = "UnknownStream" /\ f.id \in seen[p] /\ ~Has(p, f.id)
               \/ Refusal(p, f) = "BufferOverflow" /\ f.type = "Ping"
  <1> DEFINE q == Other(p)
             f == Incoming(p)
  <1>0. /\ FlightTyped /\ StateTyped /\ GreetInv /\ OpenInv /\ CloseInv
        /\ q \in Peers /\ Other(q) = p
    BY OtherPeer DEF TransportInv, TransportTyped
  <1>1. InFlight(q) # << >> /\ f = InFlight(q)[1] /\ InFlight(q) \in Seq(WireFrame)
    BY <1>0, OldestFlight, Places DEF Incoming
  <1>2. /\ 1 \in DOMAIN InFlight(q) /\ f \in WireFrame
        /\ ~Before(InFlight(q), 1, "Welcome") /\ \A x : ~OpenBefore(InFlight(q), 1, x)
    BY <1>0, <1>1, TailPlaces, Places
  <1>3. Greeted(q, 1, f) /\ Opened(q, 1, f)
    BY <1>0, <1>1, <1>2 DEF GreetInv, GreetedFrom, OpenInv, OpenedFrom
  <1> HIDE DEF f
  <1>4. CASE f.type \notin StreamFrames /\ Refusal(p, f) # "BufferOverflow"
    <2>1. f.type \in ControlTypes
      BY <1>2, <1>3, <1>4 DEF WireFrame, FrameTypes, ControlTypes, StreamFrames, Greeted
    <2> QED
      BY <1>0, <1>3, <1>4, <2>1 DEF Refusal, ControlTypes, Greeted, Established, Other, f
  <1>5. CASE f.type \in StreamFrames
    <2>1. Established(p) /\ f.id \in Ids
      BY <1>0, <1>2, <1>3, <1>5 DEF Greeted, WireFrame
    <2>2. f.type = "Open" => OpenAccepted(p, f.id)
      BY <1>0, <1>3, <2>1, Parities DEF Opened, OpenInv, IdInv
    <2>3. f.type # "Open" => f.id \in seen[p]
      BY <1>0, <1>2, <1>3, <1>5 DEF Opened
    <2>4. f.type = "Data" /\ Has(p, f.id) => CanReceive(streams[p][f.id])
      <3>1. f.type = "Data" => Underway(q, "Data", f.id)
        BY <1>1, <1>2 DEF Underway
      <3>2. f.type = "Data" => streams[p][f.id].state # "HalfClosedRemote"
        BY <1>0, <2>1, <3>1 DEF CloseInv
      <3> QED
        BY <3>2 DEF Has, CanReceive, StreamStates
    <2> QED
      BY <1>5, <2>1, <2>2, <2>3, <2>4 DEF Refusal, ControlTypes, StreamFrames, f
  <1>6. CASE Refusal(p, f) = "BufferOverflow"
    BY <1>6, OverflowIsPing DEF TransportInv, f
  <1> QED
    BY <1>4, <1>5, <1>6 DEF f

\* A frame of stream i is taken: the other frames in flight stay, and so do
\* the ledgers of the other streams.
LEMMA TakenCredit ==
    ASSUME TransportInv, LedgerInv, NEW p \in Peers, NEW type \in StreamFrames,
           Accepts(p, type), TakeFrame(p),
           NEW i, i = Incoming(p).id, NEW t, SetStream(p, i, t),
           seen'[Other(p)] = seen[Other(p)], \A j \in Ids \ {i} : j \in seen[p] <=> j \in seen'[p]
    PROVE  LET b == InFlight(Other(p))
           IN  /\ i \in Ids /\ b # << >> /\ b[1] = Incoming(p) /\ b[1].type = type /\ b[1].id = i
               /\ Refusal(p, b[1]) = "none" /\ Takes(Other(p))
               /\ type \notin {"Open", "Reset"} => Has(p, i)
               /\ Ledger(t, streams[Other(p)][i], InFlight(p), Tail(b), seen'[p], seen[Other(p)], i)
                    => LedgerInv'
  <1> DEFINE q == Other(p)
             b == InFlight(q)
  <1>0. StateTyped /\ FlightTyped
    BY DEF TransportInv, TransportTyped
  <1>1. Takes(q) /\ Keeps(p) /\ b[1] = Incoming(p) /\ b[1] \in WireFrame
    BY <1>0, TakeFrameFlight DEF Accepts
  <1>2. b # << >> /\ b[1].type = type /\ b[1].id = i /\ Refusal(p, b[1]) = "none"
    BY <1>1 DEF Accepts, Takes
  <1>3. i \in Ids
    BY <1>1, <1>2 DEF WireFrame
  <1>4. type \notin {"Open", "Reset"} => Has(p, i)
    BY <1>2 DEF Refusal, StreamFrames, ControlTypes
  <1>5. ASSUME Ledger(t, streams[q][i], InFlight(p), Tail(b), seen'[p], seen[q], i)
        PROVE  LedgerInv'
    <2>1. Ledger(t, streams[q][i], InFlight(p)', InFlight(q)', seen'[p], seen[q], i)
      BY <1>1, <1>5 DEF Keeps, Takes
    <2> QED
      BY <1>0, <1>1, <1>2, <1>3, <2>1, LedgersOfOthers
  <1> QED
    BY <1>1, <1>2, <1>3, <1>4, <1>5

LEMMA RecvOpenCredit ==
    ASSUME TransportInv, LedgerInv, NEW p \in Peers, RecvOpen(p)
    PROVE  LedgerInv'
  <1> DEFINE q == Other(p)
  <1>0. FlightTyped /\ OpenInv /\ StateTyped /\ q \in Peers /\ Other(q) = p /\ p # q
    BY OtherPeer DEF TransportInv, TransportTyped
  <1>1. PICK i, b, Z : i = Incoming(p).id /\ b = InFlight(q) /\ Z = seen[p] \cup {i}
    OBVIOUS
  <1>2. /\ Accepts(p, "Open") /\ TakeFrame(p) /\ SetStream(p, i, NewStream)
        /\ seen'[p] = Z /\ seen'[q] = seen[q]
    BY <1>0, <1>1 DEF RecvOpen, StateTyped
  <1>3. \A j \in Ids \ {i} : j \in seen[p] <=> j \in seen'[p]
    BY <1>1, <1>2
  <1>4. /\ i \in Ids /\ b # << >> /\ b[1].type = "Open" /\ b[1].id = i /\ Takes(q)
        /\ Ledger(NewStream, streams[q][i], InFlight(p), Tail(b), seen'[p], seen[q], i)
             => LedgerInv'
    BY <1>1, <1>2, <1>3, TakenCredit DEF StreamFrames
  <1>5. i \notin seen[p] /\ ~Has(p, i)
    BY <1>0, <1>1, <1>4, FirstOpened DEF OpenInv, IdInv
  <1>6. b \in Seq(SizedFrame)
    BY <1>1, <1>4, LedgerHere
  <1>7. Alike(b, Tail(b), i)
    BY <1>4, <1>6, AlikeTaken DEF Credited
  <1>8. Ledger(NewStream, streams[q][i], InFlight(p), Tail(b), Z, seen[q], i)
    BY <1>1, <1>4, <1>5, <1>7, LedgerHere, AlikeSelf, LedgerBegins DEF Has
  <1> QED
    BY <1>2, <1>4, <1>8

LEMMA RecvDataCredit ==
    ASSUME TransportInv, LedgerInv, NEW p \in Peers, RecvStreamData(p)
    PROVE  LedgerInv'
  <1> DEFINE q == Other(p)
  <1>1. PICK i, b, t : /\ i = Incoming(p).id /\ b = InFlight(q)
                       /\ t = PushRecv(streams[p][i], Incoming(p).n)
    OBVIOUS
  <1>2. /\ Accepts(p, "Data") /\ TakeFrame(p) /\ SetStream(p, i, t) /\ seen' = seen
    BY <1>1 DEF RecvStreamData, RecvOnStream
  <1>3. /\ i \in Ids /\ b # << >> /\ b[1] = Incoming(p) /\ b[1].type = "Data" /\ b[1].id = i
        /\ Has(p, i)
        /\ Ledger(t, streams[q][i], InFlight(p), Tail(b), seen'[p], seen[q], i) => LedgerInv'
    BY <1>1, <1>2, TakenCredit DEF StreamFrames
  <1>4. Ledger(t, streams[q][i], InFlight(p), Tail(b), seen[p], seen[q], i)
    BY <1>1, <1>3, LedgerHere, LedgerReceives
  <1> QED
    BY <1>2, <1>3, <1>4

LEMMA RecvWindowCredit ==
    ASSUME TransportInv, LedgerInv, NEW p \in Peers, RecvWindow(p)
    PROVE  LedgerInv'
  <1> DEFINE q == Other(p)
  <1>1. PICK i, b, t : /\ i = Incoming(p).id /\ b = InFlight(q)
                       /\ t = ApplyWindow(streams[p][i], Incoming(p).n)
    OBVIOUS
  <1>2. /\ Accepts(p, "Window") /\ TakeFrame(p) /\ SetStream(p, i, t) /\ seen' = seen
    BY <1>1 DEF RecvWindow, RecvOnStream
  <1>3. /\ i \in Ids /\ b # << >> /\ b[1] = Incoming(p) /\ b[1].type = "Window" /\ b[1].id = i
        /\ Has(p, i)
        /\ Ledger(t, streams[q][i], InFlight(p), Tail(b), seen'[p], seen[q], i) => LedgerInv'
    BY <1>1, <1>2, TakenCredit DEF StreamFrames
  <1>4. Ledger(t, streams[q][i], InFlight(p), Tail(b), seen[p], seen[q], i)
    BY <1>1, <1>3, LedgerHere, LedgerGranted
  <1> QED
    BY <1>2, <1>3, <1>4

LEMMA RecvCloseCredit ==
    ASSUME TransportInv, LedgerInv, NEW p \in Peers, RecvClose(p)
    PROVE  LedgerInv'
  <1> DEFINE q == Other(p)
  <1>0. FlightTyped /\ CloseInv /\ q \in Peers /\ Other(q) = p
    BY OtherPeer DEF TransportInv, TransportTyped
  <1>1. PICK i, b, s, t : /\ i = Incoming(p).id /\ b = InFlight(q)
                          /\ s = streams[p][i] /\ t = OnRemoteClose(s)
    OBVIOUS
  <1>2. /\ Accepts(p, "Close") /\ TakeFrame(p) /\ SetStream(p, i, t) /\ seen' = seen
    BY <1>1 DEF RecvClose, RecvOnStream
  <1>3. /\ i \in Ids /\ b # << >> /\ b[1].type = "Close" /\ b[1].id = i /\ Has(p, i)
        /\ Ledger(t, streams[q][i], InFlight(p), Tail(b), seen'[p], seen[q], i) => LedgerInv'
    BY <1>1, <1>2, TakenCredit DEF StreamFrames
  <1>4. i \in seen[q] /\ ~CanSend(streams[q][i])
    <2>1. 1 \in DOMAIN b
      BY <1>1, <1>3, LedgerHere, HoldsTail
    <2> QED
      BY <1>0, <1>1, <1>3, <2>1 DEF CloseInv, ClosedFrom, Closed, Finished
  <1>5. b \in Seq(SizedFrame) /\ SizedEntry(s) /\ s.state \in StreamStates /\ i \in seen[p]
    BY <1>1, <1>3, LedgerHere
  <1>6. Alike(b, Tail(b), i)
    BY <1>3, <1>5, AlikeTaken DEF Credited
  <1>7. /\ SizedEntry(t)
        /\ CanSend(t) => CanSend(s)
        /\ \/ t = NoStream
           \/ /\ t.state \in StreamStates /\ t.send_window = s.send_window
              /\ t.recv_queue = s.recv_queue
    BY <1>1, <1>5, CloseMoves
  <1>8. Ledger(t, streams[q][i], InFlight(p), Tail(b), seen[p], seen[q], i)
    <2>1. CASE t = NoStream
      <3>1. \A type \in Credited :
              /\ Holds(Tail(b), type, i) <=> Holds(b, type, i)
              /\ Carried(Tail(b), type, i) = Carried(b, type, i)
        BY <1>6 DEF Alike
      <3> QED
        BY <1>1, <1>3, <1>4, <1>5, <2>1, <3>1, LedgerHere, LedgerDrops DEF Credited
    <2>2. CASE t # NoStream
      BY <1>1, <1>3, <1>5, <1>6, <1>7, <2>2, LedgerHere, AlikeSelf, LedgerHalfCloses
    <2> QED
      BY <2>1, <2>2
  <1> QED
    BY <1>2, <1>3, <1>8

LEMMA RecvResetCredit ==
    ASSUME TransportInv, LedgerInv, NEW p \in Peers, RecvReset(p)
    PROVE  LedgerInv'
  <1> DEFINE q == Other(p)
  <1>0. FlightTyped /\ OpenInv /\ q \in Peers /\ Other(q) = p
    BY OtherPeer DEF TransportInv, TransportTyped
  <1>1. PICK i, b : i = Incoming(p).id /\ b = InFlight(q)
    OBVIOUS
  <1>2. /\ Accepts(p, "Reset") /\ TakeFrame(p) /\ SetStream(p, i, NoStream) /\ seen' = seen
    BY <1>1 DEF RecvReset, RecvOnStream
  <1>3. /\ i \in Ids /\ b # << >> /\ b[1].type = "Reset" /\ b[1].id = i /\ Takes(q)
        /\ Ledger(NoStream, streams[q][i], InFlight(p), Tail(b), seen'[p], seen[q], i) => LedgerInv'
    BY <1>1, <1>2, TakenCredit DEF StreamFrames
  <1>4. i \in seen[p]
    BY <1>0, <1>1, <1>3, FirstOpened DEF StreamFrames
  <1>5. b \in Seq(SizedFrame)
    BY <1>1, <1>3, LedgerHere
  <1>6. /\ Holds(b, "Reset", i)
        /\ \A type : Holds(Tail(b), type, i) => Holds(b, type, i)
        /\ \A type \in {"Data", "Window"} : Carried(Tail(b), type, i) = Carried(b, type, i)
    <2>1. Without(b, b[1], Tail(b), i)
      BY <1>3, <1>5, FirstTaken
    <2> QED
      BY <1>3, <2>1 DEF Without
  <1>7. i \in seen[q] /\ ~CanSend(streams[q][i])
    <2>1. Ledger(streams[p][i], streams[q][i], InFlight(p), b, seen[p], seen[q], i)
      BY <1>1, <1>3, LedgerHere
    <2> QED
      BY <1>6, <2>1 DEF Ledger, Lawful, Owned
  <1>8. Ledger(NoStream, streams[q][i], InFlight(p), Tail(b), seen[p], seen[q], i)
    BY <1>1, <1>3, <1>4, <1>6, <1>7, LedgerHere, LedgerDrops
  <1> QED
    BY <1>2, <1>3, <1>8

LEMMA RefusedCredit ==
    ASSUME TransportInv, LedgerInv, NEW p \in Peers, RecvRefused(p)
    PROVE  LedgerInv'
  <1> DEFINE q == Other(p)
             s == streams[p]
  <1>0. FlightTyped /\ StateTyped
    BY DEF TransportInv, TransportTyped
  <1>1. PICK f, i, b : f = Incoming(p) /\ i = f.id /\ b = InFlight(q)
    OBVIOUS
  <1>2. /\ wire[q] # << >> /\ Refusal(p, f) # "none" /\ UNCHANGED <<streams, seen>>
        /\ Established(p) => TakeFrame(p)
    BY <1>1 DEF RecvRefused
  <1> SUFFICES ASSUME Refusal(p, f) # "BufferOverflow"
               PROVE  LedgerInv'
    <2>1. ASSUME Refusal(p, f) = "BufferOverflow"
          PROVE  LedgerInv'
      <3>1. f.type = "Ping"
        BY <2>1, OverflowIsPing DEF TransportInv
      <3>2. TakeFrame(p)
        BY <1>1, <3>1 DEF RecvRefused, ControlTypes
      <3>3. Keeps(p) /\ Takes(q) /\ InFlight(q)[1].type \notin StreamFrames
        BY <1>0, <1>1, <1>2, <3>1, <3>2, TakeFrameFlight DEF StreamFrames
      <3> QED
        BY <1>2, <3>3, LedgersRest
    <2> QED
      BY <2>1
  <1>3. Refusal(p, f) = "UnknownStream" /\ i \in seen[p] /\ ~Has(p, i)
    BY <1>1, <1>2, RefusedIsLate
  <1>4. f.type \in {"Data", "Close", "Window"} /\ Established(p)
    BY <1>3 DEF Refusal, ControlTypes
  <1>5. Takes(q) /\ Keeps(p) /\ f = b[1] /\ b # << >> /\ f \in WireFrame
    BY <1>0, <1>1, <1>2, <1>4, TakeFrameFlight DEF Takes
  <1>6. i \in Ids
    BY <1>1, <1>4, <1>5 DEF WireFrame, StreamFrames
  <1>7. Ledger(s[i], streams[q][i], InFlight(p), Tail(b), seen[p], seen[q], i)
    BY <1>1, <1>3, <1>4, <1>5, <1>6, LedgerHere, LedgerLate DEF Has
  <1>8. PICK t : t = streams[p][i]
    OBVIOUS
  <1>9. SetStream(p, i, t)
    BY <1>0, <1>2, <1>6, <1>8 DEF SetStream, StateTyped
  <1>10. Ledger(t, streams[q][i], InFlight(p)', InFlight(q)', seen'[p], seen[q], i)
    BY <1>1, <1>2, <1>5, <1>7, <1>8 DEF Keeps, Takes
  <1> QED
    BY <1>0, <1>1, <1>2, <1>5, <1>6, <1>9, <1>10, LedgersOfOthers

LEMMA RecvCredit ==
    ASSUME TransportInv, LedgerInv, NEW p \in Peers, RecvFrame(p)
    PROVE  LedgerInv'
  <1> DEFINE q == Other(p)
  <1>0. FlightTyped
    BY DEF TransportInv, TransportTyped
  <1>1. ASSUME NEW type \in {"Hello", "Welcome", "Ping", "Pong"}, Accepts(p, type),
               UNCHANGED <<streams, seen>>,
               \/ TakeFrame(p)
               \/ type \in {"Hello", "Ping"} /\ TakeAndAnswer(p, Answer(Incoming(p)))
        PROVE  LedgerInv'
    <2>1. wire[q] # << >> /\ Incoming(p).type \notin StreamFrames
      BY <1>1 DEF Accepts, StreamFrames
    <2>2. CASE TakeFrame(p)
      <3>1. Keeps(p) /\ Takes(q) /\ InFlight(q)[1].type \notin StreamFrames
        BY <1>0, <2>1, <2>2, TakeFrameFlight
      <3> QED
        BY <1>1, <3>1, LedgersRest
    <2>3. ASSUME type \in {"Hello", "Ping"}, TakeAndAnswer(p, Answer(Incoming(p)))
          PROVE  LedgerInv'
      <3>0. PICK f, a : f = Incoming(p) /\ a = Answer(f)
        OBVIOUS
      <3>1. f \in SizedFrame
        <4>1. InFlight(q) \in Seq(SizedFrame) /\ InFlight(q) # << >> /\ f = InFlight(q)[1]
          BY <1>0, <2>1, <3>0, OtherPeer, OldestFlight DEF Incoming, LedgerInv, SizedFlight
        <4> QED
          BY <4>1, EmptySeq, LenProperties, ElementOfSeq
      <3>2. a \in WireFrame /\ a \in SizedFrame /\ a.type \notin StreamFrames
        <4>1. CASE f.type = "Ping"
          <5>1. f.n \in PingSizes
            BY <3>1, <4>1 DEF SizedFrame
          <5> QED
            BY <3>0, <4>1, <5>1, EmptyFrames DEF Answer
        <4>2. CASE f.type # "Ping"
          BY <3>0, <4>2, EmptyFrames DEF Answer
        <4> QED
          BY <4>1, <4>2
      <3>3. Sends(p, a) /\ Takes(q) /\ InFlight(q)[1].type \notin StreamFrames
        BY <1>0, <2>1, <2>3, <3>0, <3>2, TakeAndAnswerFlight
      <3> QED
        BY <1>1, <3>2, <3>3, LedgersRest
    <2> QED
      BY <1>1, <2>2, <2>3
  <1>2. RecvHello(p) \/ RecvWelcome(p) \/ RecvPing(p) \/ RecvPong(p) => LedgerInv'
    BY <1>1 DEF RecvHello, RecvWelcome, RecvPing, RecvPong
  <1> QED
    BY <1>2, RecvOpenCredit, RecvDataCredit, RecvCloseCredit, RecvResetCredit,
       RecvWindowCredit, RefusedCredit DEF RecvFrame

LEMMA InitCredit == TransportInit => LedgerInv
  <1> SUFFICES ASSUME TransportInit PROVE LedgerInv
    OBVIOUS
  <1>1. \A p \in Peers : InFlight(p) = << >>
    BY DEF TransportInit, InFlight
  <1>2. << >> \in Seq(SizedFrame)
    BY EmptySeq
  <1>3. \A type, i : ~Holds(<< >>, type, i) /\ Carried(<< >>, type, i) = 0
    <2>1. \A type, i : ~Holds(<< >>, type, i)
      BY DEF Holds
    <2> QED
      BY <1>2, <2>1, CarriedHeld
  <1>4. ASSUME NEW i \in Ids
        PROVE  Ledger(NoStream, NoStream, << >>, << >>, {}, {}, i)
    <2>1. Total(NoStream, NoStream, << >>, << >>, i) = 0
      BY <1>3, FreshEntries DEF Total
    <2>2. Balanced(NoStream, NoStream, << >>, << >>, i)
      BY <2>1, FreshEntries DEF Balanced, CanSend
    <2>3. Owned(NoStream, NoStream, << >>, {}, {}, i)
      BY <1>3, FreshEntries DEF Owned
    <2> QED
      BY <2>2, <2>3, FreshEntries, LedgerIs
  <1>5. ASSUME NEW p \in Peers, NEW i \in Ids
        PROVE  /\ streams[p][i] = NoStream /\ streams[Other(p)][i] = NoStream
               /\ seen[p] = {} /\ seen[Other(p)] = {}
    BY OtherPeer DEF TransportInit
  <1>6. ASSUME NEW p \in Peers, NEW i \in Ids
        PROVE  LedgerOf(p, i)
    BY <1>1, <1>4, <1>5, OtherPeer DEF LedgerOf
  <1> QED
    BY <1>1, <1>2, <1>6 DEF LedgerInv, SizedFlight

LEMMA StutterCredit ==
    ASSUME LedgerInv, UNCHANGED transportVars
    PROVE  LedgerInv'
  BY DEF LedgerInv, LedgerOf, SizedFlight, InFlight, transportVars, connVars

LEMMA LedgerInductive ==
    /\ TransportInit => LedgerInv
    /\ TransportInv /\ LedgerInv /\ [TransportNext]_transportVars => LedgerInv'
  <1>1. ASSUME TransportInv, LedgerInv, TransportNext
        PROVE  LedgerInv'
    <2>1. ASSUME NEW p \in Peers, ConnectionFails(p)
          PROVE  LedgerInv'
      BY <1>1, <2>1, FailureFlight, LedgersRest
         DEF ConnectionFails, TransportInv, TransportTyped
    <2> QED
      BY <1>1, <2>1, CallCredit, RecvCredit DEF TransportNext
  <1> QED
    BY <1>1, InitCredit, StutterCredit

-----------------------------------------------------------------------------
(* The write buffers.                                                      *)

\* The size of a buffer is counted, until its connection fails.
BufferInv ==
    /\ pings \in 0..MaxPings /\ broken \in [Peers -> BOOLEAN]
    /\ \A p \in Peers : ~broken[p] => buffered[p] = SizeOf(write_buffer[p])

LEMMA SizedParts ==
    ASSUME FlightTyped, SizedFlight, NEW p \in Peers
    PROVE  wire[p] \in Seq(SizedFrame) /\ write_buffer[p] \in Seq(SizedFrame)
  <1> DEFINE a == wire[p]
             b == write_buffer[p]
             c == a \o b
  <1>1. a \in Seq(WireFrame) /\ b \in Seq(WireFrame) /\ c \in Seq(SizedFrame)
    BY DEF FlightTyped, SizedFlight, InFlight
  <1>2. /\ Len(c) = Len(a) + Len(b) /\ Len(a) \in Nat /\ Len(b) \in Nat
        /\ \A k \in 1 .. Len(a) : c[k] = a[k]
        /\ \A k \in 1 .. Len(b) : c[Len(a) + k] = b[k]
    <2>1. /\ Len(c) = Len(a) + Len(b) /\ Len(a) \in Nat /\ Len(b) \in Nat
          /\ \A k \in 1 .. Len(a) + Len(b) :
               c[k] = IF k <= Len(a) THEN a[k] ELSE b[k - Len(a)]
      BY <1>1, ConcatProperties, LenProperties
    <2> HIDE DEF a, b, c
    <2>2. \A k \in 1 .. Len(a) : c[k] = a[k]
      BY <2>1
    <2>3. ASSUME NEW k \in 1 .. Len(b)
          PROVE  c[Len(a) + k] = b[k]
      <3>1. /\ Len(a) + k \in 1 .. Len(a) + Len(b) /\ ~(Len(a) + k <= Len(a))
            /\ (Len(a) + k) - Len(a) = k
        BY <2>1
      <3> QED
        BY <2>1, <3>1
    <2> QED
      BY <2>1, <2>2, <2>3
  <1> HIDE DEF a, b, c
  <1>3. \A k \in 1 .. Len(c) : c[k] \in SizedFrame
    BY <1>1, ElementOfSeq, LenProperties
  <1>4. \A k \in 1 .. Len(a) : a[k] \in SizedFrame
    BY <1>2, <1>3
  <1>5. \A k \in 1 .. Len(b) : b[k] \in SizedFrame
    <2> SUFFICES ASSUME NEW k \in 1 .. Len(b) PROVE b[k] \in SizedFrame
      OBVIOUS
    <2>1. Len(a) + k \in 1 .. Len(c)
      BY <1>2
    <2> QED
      BY <1>2, <1>3, <2>1
  <1>6. /\ a = [k \in 1 .. Len(a) |-> a[k]] /\ Len(a) \in Nat
        /\ b = [k \in 1 .. Len(b) |-> b[k]] /\ Len(b) \in Nat
    BY <1>1, LenProperties, SeqDef
  <1>7. a \in Seq(SizedFrame)
    BY <1>4, <1>6, SeqDef
  <1>8. b \in Seq(SizedFrame)
    BY <1>5, <1>6, SeqDef
  <1> QED
    BY <1>7, <1>8 DEF a, b

LEMMA InitBuffer == TransportInit => BufferInv
  <1> SUFFICES ASSUME TransportInit PROVE BufferInv
    OBVIOUS
  <1>1. SizeOf(<< >>) = 0
    BY EmptyFrames, SizeOfAppend, EmptySeq
  <1> QED
    BY <1>1, TransportAssumption DEF TransportInit, BufferInv

\* A frame is buffered and counted, or the buffer is emptied.
LEMMA BufferMoves ==
    ASSUME FlightTyped, SizedFlight, RoomInv, BufferInv, UNCHANGED broken,
           pings' \in 0 .. MaxPings, NEW p \in Peers,
           \/ UNCHANGED <<write_buffer, buffered>>
           \/ \E f \in SizedFrame : BufferFrame(p, f)
           \/ \E f : SendFrame(p, f)
           \/ \E s : Flushed(p, s)
           \/ \E f : TakeAndAnswer(p, f)
    PROVE  BufferInv'
  <1>0. write_buffer \in [Peers -> Seq(WireFrame)] /\ write_buffer[p] \in Seq(SizedFrame)
        /\ buffered \in [Peers -> Nat]
    BY SizedParts DEF FlightTyped, RoomInv
  <1>1. SizeOf(<< >>) = 0
    BY EmptyFrames, SizeOfAppend, EmptySeq
  <1>2. ASSUME write_buffer' = [write_buffer EXCEPT ![p] = << >>],
               buffered' = [buffered EXCEPT ![p] = 0]
        PROVE  BufferInv'
    BY <1>0, <1>1, <1>2 DEF BufferInv
  <1>3. ASSUME UNCHANGED <<write_buffer, buffered>>
        PROVE  BufferInv'
    BY <1>3 DEF BufferInv
  <1>4. ASSUME NEW f \in SizedFrame,
               write_buffer' = [write_buffer EXCEPT ![p] = Append(@, f)],
               buffered' = [buffered EXCEPT ![p] = @ + Size(f)]
        PROVE  BufferInv'
    <2>1. PICK b, n : b = Append(write_buffer[p], f) /\ n = buffered[p] + Size(f)
      OBVIOUS
    <2>2. SizeOf(b) = SizeOf(write_buffer[p]) + Size(f)
      BY <1>0, <2>1, SizeOfAppend
    <2>3. ~broken[p] => SizeOf(b) = n
      BY <2>1, <2>2 DEF BufferInv
    <2>4. /\ write_buffer' = [write_buffer EXCEPT ![p] = b]
          /\ buffered' = [buffered EXCEPT ![p] = n]
      BY <1>4, <2>1
    <2> QED
      BY <1>0, <2>3, <2>4 DEF BufferInv
  <1>5. ASSUME NEW f \in SizedFrame, BufferFrame(p, f)
        PROVE  BufferInv'
    BY <1>2, <1>3, <1>4, <1>5 DEF BufferFrame, Flushed, connVars
  <1> QED
    BY <1>2, <1>3, <1>5 DEF Flushed, TakeAndAnswer, SendFrame, connVars

LEMMA CallBuffer ==
    ASSUME TransportInv, LedgerInv, BufferInv, UNCHANGED broken, NEW p \in Peers, Call(p)
    PROVE  BufferInv'
  <1>0. FlightTyped /\ StateTyped /\ SizedFlight /\ RoomInv /\ pings \in 0 .. MaxPings
    BY DEF TransportInv, TransportTyped, LedgerInv, BufferInv
  <1>1. CASE StartHandshake(p)
    BY <1>0, <1>1, BufferMoves DEF StartHandshake
  <1>2. CASE OpenStream(p)
    <2>1. next_local_id[p] \in Ids
      BY <1>0, <1>2, TransportAssumption DEF OpenStream, NextId, Ids, StateTyped
    <2>2. Frame("Open", next_local_id[p], 0) \in SizedFrame
      BY <2>1, EmptyFrames
    <2> QED
      BY <1>0, <1>2, <2>2, BufferMoves DEF OpenStream
  <1>3. ASSUME NEW n \in PingSizes, SendPing(p, n)
        PROVE  BufferInv'
    <2>1. pings' \in 0 .. MaxPings
      BY <1>0, <1>3, TransportAssumption DEF SendPing
    <2> QED
      BY <1>0, <1>3, <2>1, BufferMoves DEF SendPing
  <1>4. CASE Flush(p)
    BY <1>0, <1>4, BufferMoves DEF Flush
  <1>5. ASSUME NEW i \in Ids, CloseStream(p, i)
        PROVE  BufferInv'
    BY <1>0, <1>5, EmptyFrames, BufferMoves DEF CloseStream
  <1>6. ASSUME NEW i \in Ids, ResetStream(p, i)
        PROVE  BufferInv'
    BY <1>0, <1>6, BufferMoves DEF ResetStream
  <1>7. ASSUME NEW i \in Ids, RecvData(p, i)
        PROVE  BufferInv'
    <2>1. Head(streams[p][i].recv_queue) \in Sizes
      BY <1>7, LedgerHere, PopMoves DEF RecvData
    <2>2. Frame("Window", i, Head(streams[p][i].recv_queue)) \in SizedFrame
      BY <2>1, EmptyFrames
    <2> QED
      BY <1>0, <1>7, <2>2, BufferMoves DEF RecvData, connVars
  <1>8. ASSUME NEW i \in Ids, NEW n \in Sizes, SendData(p, i, n)
        PROVE  BufferInv'
    BY <1>0, <1>8, EmptyFrames, BufferMoves DEF SendData
  <1> QED
    BY <1>1, <1>2, <1>3, <1>4, <1>5, <1>6, <1>7, <1>8 DEF Call

LEMMA RecvBuffer ==
    ASSUME TransportInv, LedgerInv, BufferInv, UNCHANGED broken, NEW p \in Peers, RecvFrame(p)
    PROVE  BufferInv'
  <1>0. FlightTyped /\ SizedFlight /\ RoomInv
    BY DEF TransportInv, TransportTyped, LedgerInv
  <1>1. UNCHANGED pings
    BY DEF RecvFrame, RecvHello, RecvWelcome, RecvPing, RecvPong, RecvOpen, RecvStreamData,
           RecvClose, RecvReset, RecvWindow, RecvOnStream, RecvRefused
  <1>2. TakeFrame(p) \/ \E f : TakeAndAnswer(p, f)
    BY DEF RecvFrame, RecvHello, RecvWelcome, RecvPing, RecvPong, RecvOpen, RecvStreamData,
           RecvClose, RecvReset, RecvWindow, RecvOnStream, RecvRefused
  <1>3. pings' \in 0 .. MaxPings
    BY <1>1 DEF BufferInv
  <1> QED
    BY <1>0, <1>2, <1>3, BufferMoves DEF TakeFrame

-----------------------------------------------------------------------------
(* What the ledgers and the buffers amount to.                             *)

AccountInv == TransportInv /\ LedgerInv /\ BufferInv

LEMMA AccountInductive ==
    /\ TransportInit => AccountInv
    /\ AccountInv /\ [TransportNext]_transportVars => AccountInv'
  <1>1. ASSUME AccountInv, TransportNext
        PROVE  BufferInv'
    <2>1. ASSUME NEW p \in Peers, ConnectionFails(p)
          PROVE  BufferInv'
      <3>1. /\ broken' = [broken EXCEPT ![p] = TRUE] /\ UNCHANGED <<buffered, pings>>
            /\ \A r \in Peers \ {p} : write_buffer'[r] = write_buffer[r]
        BY <1>1, <2>1 DEF ConnectionFails, AccountInv, TransportInv, TransportTyped, FlightTyped
      <3> QED
        BY <1>1, <3>1 DEF AccountInv, BufferInv
    <2>2. ASSUME NEW p \in Peers, Lives(p) /\ (Call(p) \/ RecvFrame(p))
          PROVE  BufferInv'
      BY <1>1, <2>2, CallBuffer, RecvBuffer DEF AccountInv, Lives
    <2> QED
      BY <1>1, <2>1, <2>2 DEF TransportNext
  <1>2. BufferInv /\ UNCHANGED transportVars => BufferInv'
    BY DEF BufferInv, transportVars, connVars
  <1> QED
    BY <1>1, <1>2, TransportInductive, LedgerInductive, InitBuffer DEF AccountInv

LEMMA AccountHolds == TransportSpec => []AccountInv
  BY AccountInductive, PTL DEF TransportSpec

\* The two ends of a stream, in the words of the properties.
LEMMA LedgerTells ==
    ASSUME AccountInv, NEW p \in Peers, NEW i \in Ids
    PROVE  /\ SizedEntry(streams[p][i])
           /\ Balanced(streams[p][i], streams[Other(p)][i], InFlight(p), InFlight(Other(p)), i)
           /\ Numbers(streams[p][i], streams[Other(p)][i], InFlight(p), InFlight(Other(p)), i)
  <1>1. /\ Ledger(streams[p][i], streams[Other(p)][i], InFlight(p), InFlight(Other(p)),
                  seen[p], seen[Other(p)], i)
        /\ InFlight(p) \in Seq(SizedFrame) /\ InFlight(Other(p)) \in Seq(SizedFrame)
    BY LedgerHere DEF AccountInv
  <1>2. Books(streams[p][i], streams[Other(p)][i], InFlight(p), InFlight(Other(p)),
              seen[p], seen[Other(p)], i)
    BY <1>1, LedgerSays
  <1> QED
    BY <1>2 DEF Books

-----------------------------------------------------------------------------
(* The theorems.                                                           *)

\* Both ends always have states, ids and streams of their types.
THEOREM TransportTypesHold == TransportSpec => []TransportTyped
  <1>1. TransportInv => TransportTyped
    BY DEF TransportInv
  <1> QED
    BY <1>1, TransportInductive, PTL DEF TransportSpec

\* The acceptor is established before the initiator, and before any stream
\* exists at either end.
THEOREM HandshakeFirstHolds == TransportSpec => []HandshakeFirst
  <1>1. TransportInv => HandshakeFirst
    BY DEF TransportInv, GreetInv, TurnInv, HandshakeFirst
  <1> QED
    BY <1>1, TransportInductive, PTL DEF TransportSpec

\* An end that believes its peer has finished is right.
THEOREM RemoteCloseIsFinalHolds == TransportSpec => []RemoteCloseIsFinal
  <1>1. TransportInv => RemoteCloseIsFinal
    BY DEF TransportInv, CloseInv, Finished, RemoteCloseIsFinal
  <1> QED
    BY <1>1, TransportInductive, PTL DEF TransportSpec

\* Legal traffic between two ends is never refused, whatever crosses on the
\* wire, but for frames of a stream the receiver has had and let go of and
\* pings whose Pong finds no room.
THEOREM OnlyLateFramesRefusedHolds == TransportSpec => []OnlyLateFramesRefused
  <1>1. TransportInv => OnlyLateFramesRefused
    BY RefusedIsLate DEF OnlyLateFramesRefused
  <1> QED
    BY <1>1, TransportInductive, PTL DEF TransportSpec

\* Neither end uses an id for a second stream.
THEOREM IdsNeverReusedHolds == TransportSpec => IdsNeverReused
  <1> DEFINE Fresh == \A p \in Peers, i \in Ids : ~Has(p, i) /\ Has(p, i)' => i \notin seen[p]
  <1>1. ASSUME TransportInv, TransportNext
        PROVE  Fresh
    <2>0. TransportTyped /\ RoomInv /\ StateTyped /\ FlightTyped /\ OpenInv
      BY <1>1 DEF TransportInv, TransportTyped
    <2>1. PICK p \in Peers : Kind(p)
      BY <1>1, <2>0, StepKind
    <2>2. SUFFICES ASSUME NEW r \in Peers, NEW i \in Ids, ~Has(r, i), Has(r, i)'
                   PROVE  i \notin seen[r]
      OBVIOUS
    <2>3. Other(p) \in Peers /\ (r = p \/ r = Other(p)) /\ Other(Other(p)) = p
      BY OtherPeer DEF Peers
    <2>4. ASSUME NEW j \in Ids, NEW st, StateSet(p, j, st)
          PROVE  r = p /\ i = j /\ st \in StreamStates
      BY <2>2, <2>3, <2>4 DEF StateSet, Has
    <2>5. CASE Opens(p)
      BY <2>0, <2>4, <2>5, NextIdIsNew DEF Opens
    <2>6. ASSUME NEW j \in Ids, TakesOpen(p, j)
          PROVE  i \notin seen[r]
      BY <2>0, <2>3, <2>4, <2>6, FirstOpened DEF TakesOpen, TakesType
    <2>7. ASSUME NEW j \in Ids, NEW type \in StreamFrames, Uses(p, j, type) \/ TakesUse(p, j, type)
          PROVE  FALSE
      <3>1. \E st : StateSet(p, j, st)
        BY <2>7 DEF Uses, TakesUse
      <3>2. r = p /\ i = j
        BY <2>4, <3>1
      <3>3. Has(p, j) \/ ~Has(p, j)'
        BY <2>7 DEF Uses, TakesUse, StateSet, Has, StreamStates
      <3> QED
        BY <2>2, <3>2, <3>3
    <2>8. streams' # streams
      BY <2>2 DEF Has
    <2> QED
      BY <2>1, <2>5, <2>6, <2>7, <2>8
         DEF Kind, Greets, AnswersHello, TakesWelcome, Idles, Refuses
  <1>2. TransportInv /\ [TransportNext]_transportVars => [Fresh]_transportVars
    BY <1>1
  <1> QED
    BY <1>2, TransportInductive, PTL DEF TransportSpec, IdsNeverReused

\* Every variable has its type: a frame carries what its kind may carry, a
\* window never goes below zero, and the size the code keeps of its write
\* buffer is the size of the frames in it.
THEOREM TypeOKHolds == TransportSpec => []TypeOK
  <1>1. ASSUME AccountInv
        PROVE  TypeOK
    <2>0. StateTyped /\ FlightTyped /\ SizedFlight /\ RoomInv /\ BufferInv
      BY <1>1 DEF AccountInv, TransportInv, TransportTyped, LedgerInv
    <2>1. SizedFrame \subseteq FrameType
      <3>1. ASSUME NEW f \in SizedFrame
            PROVE  f \in FrameType
        <4>1. f \in [type : FrameTypes, id : Ids \cup {0}, n : Int]
          BY DEF SizedFrame, WireFrame
        <4>2. f.n \in Sizes \cup PingSizes \cup {0}
          <5>1. IF f.type \in {"Data", "Window"} THEN f.n \in Sizes
                ELSE IF f.type \in {"Ping", "Pong"} THEN f.n \in PingSizes ELSE f.n = 0
            BY DEF SizedFrame
          <5> QED
            BY <5>1
        <4> QED
          BY <4>1, <4>2 DEF FrameType
      <3> QED
        BY <3>1
    <2>2. Seq(SizedFrame) \subseteq Seq(FrameType)
      BY <2>1, SeqMonotonic
    <2>3. ASSUME NEW p \in Peers
          PROVE  wire[p] \in Seq(FrameType) /\ write_buffer[p] \in Seq(FrameType)
      BY <2>0, <2>2, SizedParts
    <2>4. write_buffer \in [Peers -> Seq(FrameType)] /\ wire \in [Peers -> Seq(FrameType)]
      BY <2>0, <2>3 DEF FlightTyped
    <2>5. \A p \in Peers, i \in Ids : streams[p][i] \in StreamType \cup {NoStream}
      BY <1>1, LedgerTells DEF SizedEntry
    <2>6. next_local_id \in [Peers -> Nat]
      BY <2>0 DEF StateTyped
    <2> QED
      BY <2>0, <2>4, <2>5, <2>6 DEF TypeOK, StateTyped, RoomInv, BufferInv
  <1> QED
    BY <1>1, AccountHolds, PTL

\* Credit is never created and, while the sender may send, never lost: window,
\* data underway, data queued and grants underway make up the initial window.
THEOREM CreditConservedHolds == TransportSpec => []CreditConserved
  <1>1. ASSUME AccountInv
        PROVE  CreditConserved
    <2> SUFFICES ASSUME NEW p \in Peers, NEW i \in Ids
                 PROVE  LET total == streams[p][i].send_window + FlightSum(p, "Data", i)
                                     + QueuedBytes(Other(p), i)
                                     + FlightSum(Other(p), "Window", i)
                        IN  /\ total <= DefaultWindow
                            /\ CanSend(streams[p][i]) /\ ~Underway(Other(p), "Reset", i)
                                 => total = DefaultWindow
      BY DEF CreditConserved
    <2>1. Balanced(streams[p][i], streams[Other(p)][i], InFlight(p), InFlight(Other(p)), i)
      BY <1>1, LedgerTells
    <2>2. Holds(InFlight(Other(p)), "Reset", i) <=> Underway(Other(p), "Reset", i)
      BY DEF Holds, Underway
    <2> QED
      BY <2>1, <2>2 DEF Balanced, Total, FlightSum, QueuedBytes
  <1> QED
    BY <1>1, AccountHolds, PTL

\* The receive window is what is free of the receive queue: the clamp at zero
\* that the code puts there never takes effect.
THEOREM RecvWindowExactHolds == TransportSpec => []RecvWindowExact
  <1>1. ASSUME AccountInv, NEW p \in Peers, NEW i \in Ids, Has(p, i)
        PROVE  streams[p][i].recv_window + QueuedBytes(p, i) = DefaultWindow
    BY <1>1, LedgerTells DEF SizedEntry, Has, QueuedBytes
  <1>2. AccountInv => RecvWindowExact
    BY <1>1 DEF RecvWindowExact
  <1> QED
    BY <1>2, AccountHolds, PTL

\* Whatever pings are sent, answered or refused, no frame of a stream meets
\* BufferOverflow: what credit allows to send fits behind a buffer that is below
\* the flush threshold.
THEOREM OnlyPingsOverflowHolds == TransportSpec => []OnlyPingsOverflow
  <1>1. ASSUME AccountInv, NEW p \in Peers, NEW i \in Ids
        PROVE  Fits(p, Frame("Data", i, streams[p][i].send_window))
    <2>1. PICK n : n = streams[p][i].send_window
      OBVIOUS
    <2>2. /\ Balanced(streams[p][i], streams[Other(p)][i], InFlight(p), InFlight(Other(p)), i)
          /\ Numbers(streams[p][i], streams[Other(p)][i], InFlight(p), InFlight(Other(p)), i)
      BY <1>1, LedgerTells
    <2>3. n \in Nat /\ n <= DefaultWindow
      BY <2>1, <2>2, OtherPeer DEF Balanced, Total, Numbers
    <2>4. buffered[p] \in Nat /\ buffered[p] < FlushThreshold
      BY <1>1 DEF AccountInv, TransportInv, RoomInv
    <2>5. Size(Frame("Data", i, n)) = HeaderSize + n
      BY DEF Size, Frame
    <2> QED
      BY <2>1, <2>3, <2>4, <2>5, TransportAssumption DEF Fits
  <1>2. AccountInv => OnlyPingsOverflow
    BY <1>1 DEF OnlyPingsOverflow
  <1> QED
    BY <1>2, AccountHolds, PTL
=============================================================================
