------------------------- MODULE RequestReplyProofs -------------------------
(***************************************************************************)
(* Proofs about RequestReply, for any number of requests, retries,         *)
(* connections and breaks, and for both clients: a reply that a caller     *)
(* gets is the reply to its own request, which has been executed.          *)
(***************************************************************************)
EXTENDS RequestReply, SequenceTheorems, FiniteSetTheorems, TLAPS

-----------------------------------------------------------------------------
(* What is true of a connection c when r requests have been made and those *)
(* in `done` executed.                                                     *)

Done == {executed[i] : i \in DOMAIN executed}

\* Both ends have greeted and the client has read the Welcome.
Greeted(c) ==
    /\ c.server # "AwaitingHello"
    /\ \A i \in DOMAIN c.down : c.down[i] # Welcome

\* A frame on its way up or down.
UpFrame(f, r) ==
    /\ f \in FrameType
    /\ f.type \in {"Hello", "Request"}
    /\ f.type = "Request" => f.n \in 1 .. r
DownFrame(f, r, done) ==
    /\ f \in FrameType
    /\ f.type \in {"Welcome", "Response", "Close"}
    /\ f.type = "Response" => f.n \in 1 .. r /\ f.n \in done

\* The Welcome comes first and only once, and nothing but greetings before.
Sound(c, r, done) ==
    /\ c \in ConnectionType
    /\ \A i \in DOMAIN c.up : UpFrame(c.up[i], r)
    /\ \A i \in DOMAIN c.down : DownFrame(c.down[i], r, done)
    /\ c.server = "AwaitingHello" => c.down = << >>
    /\ \A i \in DOMAIN c.down : c.down[i] = Welcome => i = 1
    /\ ~Greeted(c) =>
         /\ \A i \in DOMAIN c.up : c.up[i].type = "Hello"
         /\ \A i \in DOMAIN c.down : c.down[i].type = "Welcome"

\* The ids of requests and responses are below `id`; those of one id are about
\* request n.
Below(c, id) ==
    /\ \A i \in DOMAIN c.up : c.up[i].type = "Request" => c.up[i].id < id
    /\ \A i \in DOMAIN c.down : c.down[i].type = "Response" => c.down[i].id < id
About(c, id, n) ==
    /\ \A i \in DOMAIN c.up :
         c.up[i].type = "Request" /\ c.up[i].id = id => c.up[i].n = n
    /\ \A i \in DOMAIN c.down :
         c.down[i].type = "Response" /\ c.down[i].id = id => c.down[i].n = n

\* A change of a connection that brings in no new request.
Descends(c, d) ==
    /\ Greeted(c) => Greeted(d)
    /\ \A i \in DOMAIN d.up : d.up[i].type = "Request" =>
         \E j \in DOMAIN c.up : d.up[i] = c.up[j]
    /\ \A i \in DOMAIN d.down : d.down[i].type = "Response" =>
         \/ \E j \in DOMAIN c.down : d.down[i] = c.down[j]
         \/ \E j \in DOMAIN c.up :
              c.up[j].type = "Request" /\ c.up[j].id = d.down[i].id /\ c.up[j].n = d.down[i].n

LEMMA DescendsKeeps ==
    ASSUME NEW c, NEW d, NEW id, NEW n, Descends(c, d)
    PROVE  /\ Greeted(c) => Greeted(d)
           /\ Below(c, id) => Below(d, id)
           /\ About(c, id, n) => About(d, id, n)
  BY DEF Descends, Below, About

LEMMA SoundLater ==
    ASSUME NEW c, NEW r \in Nat, NEW done, Sound(c, r, done),
           NEW s \in Nat, r <= s, NEW later, done \subseteq later
    PROVE  Sound(c, s, later)
  <1>1. 1 .. r \subseteq 1 .. s
    OBVIOUS
  <1>2. \A f : UpFrame(f, r) => UpFrame(f, s)
    BY <1>1 DEF UpFrame
  <1>3. \A f : DownFrame(f, r, done) => DownFrame(f, s, later)
    BY <1>1 DEF DownFrame
  <1> QED
    BY <1>2, <1>3 DEF Sound

\* The sequences of a connection.
LEMMA ConnectionTyped ==
    ASSUME NEW c \in ConnectionType
    PROVE  /\ c.up \in Seq(FrameType) /\ c.down \in Seq(FrameType)
           /\ Len(c.up) \in Nat /\ DOMAIN c.up = 1 .. Len(c.up)
           /\ Len(c.down) \in Nat /\ DOMAIN c.down = 1 .. Len(c.down)
  BY LenProperties DEF ConnectionType

\* A part of a sequence, and a frame behind it.
LEMMA Part ==
    ASSUME NEW S, NEW s \in Seq(S), NEW i \in Nat \ {0}, NEW j \in Nat, j <= Len(s)
    PROVE  /\ SubSeq(s, i, j) \in Seq(S)
           /\ \A x \in DOMAIN SubSeq(s, i, j) :
                /\ i + x - 1 \in DOMAIN s
                /\ SubSeq(s, i, j)[x] = s[i + x - 1]
  <1>1. Len(s) \in Nat /\ DOMAIN s = 1 .. Len(s)
    BY LenProperties
  <1>2. \A x \in i .. j : s[x] \in S
    BY <1>1
  <1>3. /\ SubSeq(s, i, j) \in Seq(S)
        /\ Len(SubSeq(s, i, j)) = IF i <= j THEN j - i + 1 ELSE 0
        /\ \A x \in 1 .. j - i + 1 : SubSeq(s, i, j)[x] = s[i + x - 1]
    BY <1>2, SubSeqProperties
  <1>4. DOMAIN SubSeq(s, i, j) = 1 .. Len(SubSeq(s, i, j))
    BY <1>3, LenProperties
  <1> QED
    BY <1>1, <1>3, <1>4

LEMMA PartTail ==
    ASSUME NEW S, NEW s \in Seq(S), s # << >>
    PROVE  /\ Tail(s) \in Seq(S)
           /\ \A x \in DOMAIN Tail(s) : x + 1 \in DOMAIN s /\ Tail(s)[x] = s[x + 1]
           /\ 1 \in DOMAIN s /\ Head(s) = s[1] /\ Head(s) \in S
  <1>1. /\ Len(s) \in Nat \ {0} /\ DOMAIN s = 1 .. Len(s)
    BY LenProperties, EmptySeq
  <1>2. /\ Tail(s) \in Seq(S) /\ Len(Tail(s)) = Len(s) - 1
        /\ \A x \in 1 .. Len(Tail(s)) : Tail(s)[x] = s[x + 1]
        /\ Head(s) \in S
    BY HeadTailProperties
  <1>3. DOMAIN Tail(s) = 1 .. Len(Tail(s))
    BY <1>2, LenProperties
  <1> QED
    BY <1>1, <1>2, <1>3

LEMMA Behind ==
    ASSUME NEW S, NEW s \in Seq(S), NEW f \in S
    PROVE  /\ s \o <<f>> \in Seq(S)
           /\ \A x \in DOMAIN (s \o <<f>>) :
                \/ x \in DOMAIN s /\ (s \o <<f>>)[x] = s[x]
                \/ x = Len(s) + 1 /\ (s \o <<f>>)[x] = f
  <1>1. /\ Len(s) \in Nat /\ DOMAIN s = 1 .. Len(s)
        /\ <<f>> \in Seq(S) /\ Len(<<f>>) = 1 /\ <<f>>[1] = f
    BY LenProperties
  <1>2. /\ s \o <<f>> \in Seq(S) /\ Len(s \o <<f>>) = Len(s) + Len(<<f>>)
        /\ \A x \in 1 .. Len(s) + Len(<<f>>) :
             (s \o <<f>>)[x] = IF x <= Len(s) THEN s[x] ELSE <<f>>[x - Len(s)]
    BY <1>1, ConcatProperties
  <1>3. DOMAIN (s \o <<f>>) = 1 .. Len(s) + 1
    BY <1>1, <1>2, LenProperties
  <1> QED
    BY <1>1, <1>2, <1>3

LEMMA BehindTwo ==
    ASSUME NEW S, NEW s \in Seq(S), NEW f \in S, NEW g \in S
    PROVE  /\ s \o <<f, g>> \in Seq(S)
           /\ \A x \in DOMAIN (s \o <<f, g>>) :
                \/ x \in DOMAIN s /\ (s \o <<f, g>>)[x] = s[x]
                \/ x = Len(s) + 1 /\ (s \o <<f, g>>)[x] = f
                \/ x = Len(s) + 2 /\ (s \o <<f, g>>)[x] = g
  <1>1. /\ Len(s) \in Nat /\ DOMAIN s = 1 .. Len(s)
        /\ <<f, g>> \in Seq(S) /\ Len(<<f, g>>) = 2 /\ <<f, g>>[1] = f /\ <<f, g>>[2] = g
    BY LenProperties
  <1>2. /\ s \o <<f, g>> \in Seq(S) /\ Len(s \o <<f, g>>) = Len(s) + Len(<<f, g>>)
        /\ \A x \in 1 .. Len(s) + Len(<<f, g>>) :
             (s \o <<f, g>>)[x] = IF x <= Len(s) THEN s[x] ELSE <<f, g>>[x - Len(s)]
    BY <1>1, ConcatProperties
  <1>3. DOMAIN (s \o <<f, g>>) = 1 .. Len(s) + 2
    BY <1>1, <1>2, LenProperties
  <1> QED
    BY <1>1, <1>2, <1>3

-----------------------------------------------------------------------------
(* What the steps do to one connection.                                    *)

LEMMA Greetings ==
    /\ Hello \in FrameType /\ Hello.type = "Hello"
    /\ Welcome \in FrameType /\ Welcome.type = "Welcome"
    /\ \A r : UpFrame(Hello, r)
    /\ \A r, done : DownFrame(Welcome, r, done)
  BY DEF Hello, Welcome, Frame, FrameType, UpFrame, DownFrame

\* Frames are read, lost or discarded, and a Hello may be sent.
Shrinks(c, d) ==
    /\ d \in ConnectionType
    /\ d.server = c.server \/ d.server = "Ended"
    /\ \A i \in DOMAIN d.up : d.up[i] = Hello \/ \E j \in DOMAIN c.up : d.up[i] = c.up[j]
    /\ \A i \in DOMAIN d.down : \E j \in DOMAIN c.down : d.down[i] = c.down[j] /\ i <= j

LEMMA ShrinksSound ==
    ASSUME NEW c, NEW d, NEW r \in Nat, NEW done, Sound(c, r, done), Shrinks(c, d)
    PROVE  Sound(d, r, done) /\ Descends(c, d)
  <1>1. c \in ConnectionType /\ d \in ConnectionType
    BY DEF Sound, Shrinks
  <1>2. /\ \A i \in DOMAIN d.up : UpFrame(d.up[i], r)
        /\ \A i \in DOMAIN d.down : DownFrame(d.down[i], r, done)
    BY Greetings DEF Sound, Shrinks
  <1>3. Greeted(c) => Greeted(d)
    BY DEF Shrinks, Greeted
  <1>4. d.server = "AwaitingHello" => d.down = << >>
    <2> SUFFICES ASSUME d.server = "AwaitingHello" PROVE d.down = << >>
      OBVIOUS
    <2>1. c.down = << >>
      BY DEF Shrinks, Sound
    <2>2. \A i \in DOMAIN d.down : FALSE
      BY <2>1 DEF Shrinks
    <2>3. d.down \in Seq(FrameType) /\ DOMAIN d.down = 1 .. Len(d.down) /\ Len(d.down) \in Nat
      BY <1>1, ConnectionTyped
    <2>4. Len(d.down) = 0
      BY <2>2, <2>3
    <2> QED
      BY <2>3, <2>4, EmptySeq
  <1>5. \A i \in DOMAIN d.down : d.down[i] = Welcome => i = 1
    <2> SUFFICES ASSUME NEW i \in DOMAIN d.down, d.down[i] = Welcome PROVE i = 1
      OBVIOUS
    <2>1. PICK j \in DOMAIN c.down : d.down[i] = c.down[j] /\ i <= j
      BY DEF Shrinks
    <2>2. j = 1
      BY <2>1 DEF Sound
    <2>3. i \in Nat \ {0}
      BY <1>1, ConnectionTyped
    <2> QED
      BY <2>1, <2>2, <2>3
  <1>6. ~Greeted(d) =>
          /\ \A i \in DOMAIN d.up : d.up[i].type = "Hello"
          /\ \A i \in DOMAIN d.down : d.down[i].type = "Welcome"
    BY <1>3, Greetings DEF Sound, Shrinks
  <1>7. Descends(c, d)
    BY <1>3, Greetings DEF Shrinks, Descends
  <1> QED
    BY <1>1, <1>2, <1>4, <1>5, <1>6, <1>7 DEF Sound

\* The client's request goes out.
LEMMA RequestSent ==
    ASSUME NEW c, NEW r \in Nat \ {0}, NEW done, Sound(c, r, done),
           Greeted(c), NEW id \in Nat, Below(c, id)
    PROVE  LET d == [c EXCEPT !.up = @ \o <<Frame("Request", id, r)>>]
           IN  /\ Sound(d, r, done) /\ Greeted(d)
               /\ Below(d, id + 2) /\ About(d, id, r)
  <1> DEFINE f == Frame("Request", id, r)
             d == [c EXCEPT !.up = @ \o <<f>>]
  <1>1. f \in FrameType /\ f.type = "Request" /\ f.id = id /\ f.n = r /\ UpFrame(f, r)
    BY DEF Frame, FrameType, UpFrame
  <1> HIDE DEF f
  <1>2. c \in ConnectionType
    BY DEF Sound
  <1>3. /\ c.up \o <<f>> \in Seq(FrameType)
        /\ \A x \in DOMAIN (c.up \o <<f>>) :
             \/ x \in DOMAIN c.up /\ (c.up \o <<f>>)[x] = c.up[x]
             \/ (c.up \o <<f>>)[x] = f
    <2>1. c.up \in Seq(FrameType)
      BY <1>2, ConnectionTyped
    <2> QED
      BY <1>1, <2>1, Behind
  <1>4. /\ d \in ConnectionType /\ d.up = c.up \o <<f>>
        /\ d.down = c.down /\ d.server = c.server
    BY <1>2, <1>3 DEF ConnectionType
  <1> HIDE DEF d
  <1>5. \A x \in DOMAIN d.up : (\E y \in DOMAIN c.up : d.up[x] = c.up[y]) \/ d.up[x] = f
    BY <1>3, <1>4
  <1>6. Greeted(d)
    BY <1>4 DEF Greeted
  <1>7. Sound(d, r, done)
    BY <1>1, <1>4, <1>5, <1>6 DEF Sound
  <1>8. \A i \in DOMAIN c.up : UpFrame(c.up[i], r)
    BY DEF Sound
  <1>9. \A i \in DOMAIN c.down : DownFrame(c.down[i], r, done)
    BY DEF Sound
  <1>10. /\ \A i \in DOMAIN c.up : c.up[i].id \in Nat
         /\ \A i \in DOMAIN c.down : c.down[i].id \in Nat
    BY <1>8, <1>9 DEF UpFrame, DownFrame, FrameType
  <1>11. Below(d, id + 2)
    BY <1>1, <1>4, <1>5, <1>10 DEF Below
  <1>12. About(d, id, r)
    <2>1. /\ \A i \in DOMAIN c.up : c.up[i].type = "Request" => c.up[i].id # id
          /\ \A i \in DOMAIN c.down : c.down[i].type = "Response" => c.down[i].id # id
      BY <1>10 DEF Below
    <2> QED
      BY <1>1, <1>4, <1>5, <2>1 DEF About
  <1> QED
    BY <1>6, <1>7, <1>11, <1>12 DEF d, f

\* The client reads a frame, or several: whatever is left, there is no Welcome.
LEMMA DownRead ==
    ASSUME NEW c, NEW r \in Nat, NEW done, Sound(c, r, done), c.down # << >>,
           NEW i \in 2 .. Len(c.down) + 1
    PROVE  LET d == [c EXCEPT !.down = SubSeq(@, i, Len(@))]
           IN  Sound(d, r, done) /\ Descends(c, d) /\ Greeted(d)
  <1> DEFINE s == SubSeq(c.down, i, Len(c.down))
             d == [c EXCEPT !.down = SubSeq(@, i, Len(@))]
  <1>1. c \in ConnectionType
    BY DEF Sound
  <1>2. /\ c.down \in Seq(FrameType) /\ Len(c.down) \in Nat
        /\ DOMAIN c.down = 1 .. Len(c.down)
    BY <1>1, ConnectionTyped
  <1>3. /\ s \in Seq(FrameType)
        /\ \A x \in DOMAIN s : i + x - 1 \in DOMAIN c.down /\ s[x] = c.down[i + x - 1]
    BY <1>2, Part
  <1>4. \A x \in DOMAIN s : x \in Nat \ {0}
    BY <1>3, LenProperties
  <1>5. /\ d \in ConnectionType /\ d.down = s /\ d.up = c.up /\ d.server = c.server
    BY <1>1, <1>3 DEF ConnectionType
  <1> HIDE DEF s, d
  <1>6. \A x \in DOMAIN s : \E j \in DOMAIN c.down : s[x] = c.down[j] /\ x <= j /\ j # 1
    <2> SUFFICES ASSUME NEW x \in DOMAIN s
                 PROVE  \E j \in DOMAIN c.down : s[x] = c.down[j] /\ x <= j /\ j # 1
      OBVIOUS
    <2>1. x \in Nat \ {0} /\ i + x - 1 \in DOMAIN c.down /\ s[x] = c.down[i + x - 1]
      BY <1>3, <1>4
    <2>2. x <= i + x - 1 /\ i + x - 1 # 1
      BY <1>2, <2>1
    <2> QED
      BY <2>1, <2>2
  <1>7. Shrinks(c, d)
    BY <1>5, <1>6 DEF Shrinks
  <1>8. Greeted(d)
    BY <1>5, <1>6 DEF Greeted, Sound
  <1> QED
    BY <1>7, <1>8, ShrinksSound DEF d

LEMMA DownTail ==
    ASSUME NEW c, NEW r \in Nat, NEW done, Sound(c, r, done), c.down # << >>
    PROVE  LET d == [c EXCEPT !.down = Tail(@)]
           IN  Sound(d, r, done) /\ Descends(c, d) /\ Greeted(d)
  <1>1. c.down \in Seq(FrameType) /\ Len(c.down) \in Nat
    BY ConnectionTyped DEF Sound
  <1>2. Len(c.down) # 0
    BY <1>1, EmptySeq
  <1>3. 2 \in 2 .. Len(c.down) + 1
    BY <1>1, <1>2
  <1>4. Tail(c.down) = SubSeq(c.down, 2, Len(c.down))
    BY <1>1, TailIsSubSeq
  <1> QED
    BY <1>3, <1>4, DownRead

\* An end is dropped, the server's task returns, the connection breaks.
LEMMA EndsShrink ==
    ASSUME NEW c \in ConnectionType
    PROVE  /\ Shrinks(c, [c EXCEPT !.up_open = FALSE, !.down = << >>, !.down_open = FALSE])
           /\ Shrinks(c, Ended(c))
           /\ c.up # << >> => Shrinks(c, [c EXCEPT !.up = Tail(@)])
           /\ c.up # << >> => Shrinks(c, Ended([c EXCEPT !.up = Tail(@)]))
           /\ \A i \in 0 .. Len(c.up), j \in 0 .. Len(c.down) :
                Shrinks(c, [c EXCEPT !.up = SubSeq(@, 1, i), !.up_open = FALSE,
                                     !.down = SubSeq(@, 1, j), !.down_open = FALSE])
  <1>1. /\ c.up \in Seq(FrameType) /\ Len(c.up) \in Nat
        /\ c.down \in Seq(FrameType) /\ Len(c.down) \in Nat /\ DOMAIN c.down = 1 .. Len(c.down)
    BY ConnectionTyped
  <1>2. << >> \in Seq(FrameType) /\ DOMAIN << >> = {}
    OBVIOUS
  <1>3. Shrinks(c, [c EXCEPT !.up_open = FALSE, !.down = << >>, !.down_open = FALSE])
    BY <1>2 DEF Shrinks, ConnectionType
  <1>4. Shrinks(c, Ended(c))
    <2> DEFINE d == Ended(c)
    <2>1. /\ d \in ConnectionType /\ d.up = << >> /\ d.down = c.down /\ d.server = "Ended"
      BY <1>2 DEF Ended, ConnectionType
    <2>2. \A i \in DOMAIN c.down : i <= i
      BY <1>1
    <2> HIDE DEF d
    <2>3. Shrinks(c, d)
      BY <1>2, <2>1, <2>2 DEF Shrinks
    <2> QED
      BY <2>3 DEF d
  <1>5. ASSUME c.up # << >>
        PROVE  /\ Shrinks(c, [c EXCEPT !.up = Tail(@)])
               /\ Shrinks(c, Ended([c EXCEPT !.up = Tail(@)]))
    <2> DEFINE d == [c EXCEPT !.up = Tail(@)]
               e == Ended([c EXCEPT !.up = Tail(@)])
    <2>1. /\ Tail(c.up) \in Seq(FrameType)
          /\ \A x \in DOMAIN Tail(c.up) : \E j \in DOMAIN c.up : Tail(c.up)[x] = c.up[j]
      BY <1>1, <1>5, PartTail
    <2>2. d \in ConnectionType /\ d.up = Tail(c.up) /\ d.down = c.down /\ d.server = c.server
      BY <2>1 DEF ConnectionType
    <2>3. e \in ConnectionType /\ e.up = << >> /\ e.down = c.down /\ e.server = "Ended"
      BY <1>2, <2>1 DEF ConnectionType, Ended
    <2>4. \A i \in DOMAIN c.down : i <= i
      BY <1>1
    <2> HIDE DEF d, e
    <2>5. Shrinks(c, d)
      BY <2>1, <2>2, <2>4 DEF Shrinks
    <2>6. Shrinks(c, e)
      BY <1>2, <2>3, <2>4 DEF Shrinks
    <2> QED
      BY <2>5, <2>6 DEF d, e
  <1>6. ASSUME NEW i \in 0 .. Len(c.up), NEW j \in 0 .. Len(c.down)
        PROVE  Shrinks(c, [c EXCEPT !.up = SubSeq(@, 1, i), !.up_open = FALSE,
                                    !.down = SubSeq(@, 1, j), !.down_open = FALSE])
    <2> DEFINE u == SubSeq(c.up, 1, i)
               v == SubSeq(c.down, 1, j)
               d == [c EXCEPT !.up = SubSeq(@, 1, i), !.up_open = FALSE,
                              !.down = SubSeq(@, 1, j), !.down_open = FALSE]
    <2>1. /\ u \in Seq(FrameType)
          /\ \A x \in DOMAIN u : 1 + x - 1 \in DOMAIN c.up /\ u[x] = c.up[1 + x - 1]
      BY <1>1, Part
    <2>2. /\ v \in Seq(FrameType)
          /\ \A x \in DOMAIN v : 1 + x - 1 \in DOMAIN c.down /\ v[x] = c.down[1 + x - 1]
      BY <1>1, Part
    <2>3. d \in ConnectionType /\ d.up = u /\ d.down = v /\ d.server = c.server
      BY <2>1, <2>2 DEF ConnectionType
    <2> HIDE DEF u, v, d
    <2>4. /\ \A x \in DOMAIN u : x \in Nat /\ 1 + x - 1 = x
          /\ \A x \in DOMAIN v : x \in Nat /\ 1 + x - 1 = x /\ x <= x
      BY <2>1, <2>2, LenProperties
    <2>5. /\ \A x \in DOMAIN u : x \in DOMAIN c.up /\ u[x] = c.up[x]
          /\ \A x \in DOMAIN v : x \in DOMAIN c.down /\ v[x] = c.down[x] /\ x <= x
      BY <2>1, <2>2, <2>4
    <2>6. Shrinks(c, d)
      BY <2>3, <2>5 DEF Shrinks
    <2> QED
      BY <2>6 DEF d
  <1> QED
    BY <1>3, <1>4, <1>5, <1>6

\* A client greets.
LEMMA HelloShrinks ==
    ASSUME NEW c \in ConnectionType
    PROVE  Shrinks(c, [c EXCEPT !.up = IF c.up_open /\ c.server # "Ended"
                                       THEN @ \o <<Hello>> ELSE @])
  <1> DEFINE s == IF c.up_open /\ c.server # "Ended" THEN c.up \o <<Hello>> ELSE c.up
             d == [c EXCEPT !.up = IF c.up_open /\ c.server # "Ended"
                                   THEN @ \o <<Hello>> ELSE @]
  <1>1. c.up \in Seq(FrameType) /\ DOMAIN c.down \subseteq Nat
    BY ConnectionTyped
  <1>2. /\ c.up \o <<Hello>> \in Seq(FrameType)
        /\ \A x \in DOMAIN (c.up \o <<Hello>>) :
             \/ (c.up \o <<Hello>>)[x] = Hello
             \/ x \in DOMAIN c.up /\ (c.up \o <<Hello>>)[x] = c.up[x]
    BY <1>1, Greetings, Behind
  <1>3. /\ s \in Seq(FrameType)
        /\ \A x \in DOMAIN s : s[x] = Hello \/ (x \in DOMAIN c.up /\ s[x] = c.up[x])
    BY <1>1, <1>2
  <1>4. d \in ConnectionType /\ d.up = s /\ d.down = c.down /\ d.server = c.server
    BY <1>3 DEF ConnectionType
  <1>5. \A i \in DOMAIN c.down : i <= i
    BY <1>1
  <1> HIDE DEF s, d
  <1>6. Shrinks(c, d)
    BY <1>3, <1>4, <1>5 DEF Shrinks
  <1> QED
    BY <1>6 DEF d

\* The task welcomes the client.
LEMMA WelcomeWritten ==
    ASSUME NEW c, NEW r \in Nat, NEW done, Sound(c, r, done),
           c.server = "AwaitingHello", c.up # << >>
    PROVE  LET d == Written([[c EXCEPT !.up = Tail(@)] EXCEPT !.server = "Established"],
                            <<Welcome>>)
           IN  Sound(d, r, done) /\ Descends(c, d)
  <1> DEFINE d == Written([[c EXCEPT !.up = Tail(@)] EXCEPT !.server = "Established"],
                          <<Welcome>>)
             s == IF c.down_open THEN <<Welcome>> ELSE << >>
  <1>1. c \in ConnectionType /\ c.down = << >> /\ ~Greeted(c)
    BY DEF Sound, Greeted
  <1>2. /\ c.up \in Seq(FrameType)
        /\ \A i \in DOMAIN c.up : c.up[i].type = "Hello" /\ UpFrame(c.up[i], r)
    BY <1>1, ConnectionTyped DEF Sound
  <1>3. /\ Tail(c.up) \in Seq(FrameType)
        /\ \A x \in DOMAIN Tail(c.up) : \E j \in DOMAIN c.up : Tail(c.up)[x] = c.up[j]
    BY <1>2, PartTail
  <1>4. << >> \o <<Welcome>> = <<Welcome>> /\ <<Welcome>> \in Seq(FrameType)
    BY Greetings, ConcatEmptySeq
  <1>5. s \in Seq(FrameType) /\ \A x \in DOMAIN s : x = 1 /\ s[x] = Welcome
    BY <1>4
  <1>6. /\ d \in ConnectionType /\ d.up = Tail(c.up) /\ d.down = s
        /\ d.server = "Established"
    BY <1>1, <1>3, <1>4, <1>5 DEF Written, ConnectionType
  <1> HIDE DEF d, s
  <1>7. Sound(d, r, done)
    BY <1>2, <1>3, <1>5, <1>6, Greetings DEF Sound
  <1>8. Descends(c, d)
    BY <1>1, <1>3, <1>5, <1>6, Greetings DEF Descends
  <1> QED
    BY <1>7, <1>8 DEF d

\* The task serves a request and writes the reply.
LEMMA ReplyWritten ==
    ASSUME NEW c, NEW r \in Nat, NEW done, Sound(c, r, done), c.up # << >>,
           Head(c.up).type = "Request", Head(c.up).n \in done
    PROVE  LET f == Head(c.up)
               d == Written([c EXCEPT !.up = Tail(@)],
                            <<Frame("Response", ReplyId(f), f.n),
                              Frame("Close", ReplyId(f), 0)>>)
           IN  Sound(d, r, done) /\ Descends(c, d)
  <1> DEFINE f == Head(c.up)
             g == Frame("Response", ReplyId(f), f.n)
             h == Frame("Close", ReplyId(f), 0)
             s == IF c.down_open THEN c.down \o <<g, h>> ELSE c.down
             d == Written([c EXCEPT !.up = Tail(@)], <<g, h>>)
  <1>1. /\ c \in ConnectionType
        /\ c.up \in Seq(FrameType) /\ c.down \in Seq(FrameType)
    BY ConnectionTyped DEF Sound
  <1>2. /\ Tail(c.up) \in Seq(FrameType)
        /\ \A x \in DOMAIN Tail(c.up) : \E j \in DOMAIN c.up : Tail(c.up)[x] = c.up[j]
        /\ 1 \in DOMAIN c.up /\ f = c.up[1] /\ f \in FrameType
    BY <1>1, PartTail
  <1>3. f.type = "Request" /\ f.n \in done
    OBVIOUS
  <1> HIDE DEF f
  <1>4. Greeted(c)
    BY <1>2, <1>3 DEF Sound
  <1>5. f.n \in 1 .. r
    BY <1>2, <1>3 DEF Sound, UpFrame
  <1>6. /\ g \in FrameType /\ g.type = "Response" /\ g.id = f.id /\ g.n = f.n /\ g # Welcome
        /\ h \in FrameType /\ h.type = "Close" /\ h # Welcome
    BY <1>2, Greetings DEF Frame, FrameType, ReplyId
  <1>7. DownFrame(g, r, done) /\ DownFrame(h, r, done)
    BY <1>3, <1>5, <1>6 DEF DownFrame
  <1> HIDE DEF g, h
  <1>8. /\ c.down \o <<g, h>> \in Seq(FrameType)
        /\ \A x \in DOMAIN (c.down \o <<g, h>>) :
             \/ x \in DOMAIN c.down /\ (c.down \o <<g, h>>)[x] = c.down[x]
             \/ (c.down \o <<g, h>>)[x] = g
             \/ (c.down \o <<g, h>>)[x] = h
    BY <1>1, <1>6, BehindTwo
  <1>9. /\ s \in Seq(FrameType)
        /\ \A x \in DOMAIN s : (x \in DOMAIN c.down /\ s[x] = c.down[x]) \/ s[x] = g \/ s[x] = h
    BY <1>1, <1>8
  <1>10. /\ d \in ConnectionType /\ d.up = Tail(c.up) /\ d.down = s
         /\ d.server = c.server
    BY <1>1, <1>2, <1>9 DEF Written, ConnectionType
  <1> HIDE DEF d, s
  <1>11. Greeted(d)
    BY <1>4, <1>6, <1>9, <1>10 DEF Greeted
  <1>12. Sound(d, r, done)
    BY <1>2, <1>4, <1>6, <1>7, <1>9, <1>10, <1>11 DEF Sound, Greeted
  <1>13. Descends(c, d)
    <2>1. \A x \in DOMAIN d.up : \E j \in DOMAIN c.up : d.up[x] = c.up[j]
      BY <1>2, <1>10
    <2>2. ASSUME NEW x \in DOMAIN d.down, d.down[x].type = "Response"
          PROVE  \/ \E j \in DOMAIN c.down : d.down[x] = c.down[j]
                 \/ \E j \in DOMAIN c.up : /\ c.up[j].type = "Request"
                                           /\ c.up[j].id = d.down[x].id
                                           /\ c.up[j].n = d.down[x].n
      BY <1>2, <1>3, <1>6, <1>9, <1>10, <2>2
    <2> QED
      BY <1>11, <2>1, <2>2 DEF Descends
  <1> QED
    BY <1>12, <1>13 DEF d, f, g, h

-----------------------------------------------------------------------------
(* The invariant.                                                          *)

Result == [tag : {"pending", "ok", "failed", "unreachable"}, n : Nat]
ScalarsTyped ==
    /\ kind \in Kinds /\ kind \in {"persistent", "resilient"}
    /\ phase \in {"idle", "connect", "welcome", "request", "await"}
    /\ next_id \in Nat
    /\ attempt \in 0 .. MaxRetries
    /\ connects \in 0 .. MaxRetries
    /\ results \in Seq(Result)
    /\ Request <= MaxRequests
    /\ phase # "idle" => results # << >>
    /\ executed \in Seq(1 .. MaxRequests)
    /\ breaks \in 0 .. MaxBreaks
    /\ outcome \in [1 .. MaxRequests -> Outcomes]

\* Where the client is, and which connections it holds.
ClientInv ==
    /\ {inner, link} \subseteq {0} \cup DOMAIN conns
    /\ phase \in {"welcome", "request", "await"} => link # 0
    /\ kind = "persistent" /\ phase \in {"connect", "welcome"} => inner = 0
    /\ kind = "persistent" /\ phase \in {"request", "await"} => inner = link

ConnsSound ==
    /\ conns \in Seq(ConnectionType)
    /\ \A k \in DOMAIN conns : Sound(conns[k], Request, Done)

\* The connections on which the client numbers streams with next_id.
Active(k) ==
    \/ phase \in {"request", "await"} /\ k = link
    \/ kind = "persistent" /\ k = inner
ActiveInv ==
    /\ \A k \in DOMAIN conns : Active(k) => Greeted(conns[k]) /\ Below(conns[k], next_id)
    /\ phase = "await" => About(conns[link], next_id - 2, Request)

Matched(n) == results[n].tag = "ok" => results[n].n = n /\ n \in Done
MatchedInv == \A n \in DOMAIN results : Matched(n)

ExchangeInv == ScalarsTyped /\ ClientInv /\ ConnsSound /\ ActiveInv /\ MatchedInv

-----------------------------------------------------------------------------
(* What the steps do to the connections, results and executions.           *)

LEMMA UpdatedConn ==
    ASSUME NEW S, NEW s \in Seq(S), NEW k \in DOMAIN s, NEW d \in S,
           NEW t, t = [s EXCEPT ![k] = d]
    PROVE  /\ t \in Seq(S) /\ Len(t) = Len(s) /\ DOMAIN t = DOMAIN s
           /\ \A j \in DOMAIN s : t[j] = IF j = k THEN d ELSE s[j]
  BY LenProperties, ExceptSeq

\* One connection changes.
One(k, d) ==
    /\ k \in DOMAIN conns
    /\ conns' = [conns EXCEPT ![k] = d]

LEMMA OneConn ==
    ASSUME conns \in Seq(ConnectionType), NEW k, NEW d \in ConnectionType, One(k, d)
    PROVE  /\ conns' \in Seq(ConnectionType) /\ DOMAIN conns' = DOMAIN conns
           /\ \A j \in DOMAIN conns : conns'[j] = IF j = k THEN d ELSE conns[j]
  BY UpdatedConn DEF One

\* No request is taken back and none is unexecuted.
Onward == Request \in Nat /\ Request' \in Nat /\ Request <= Request' /\ Done \subseteq Done'

LEMMA OneSound ==
    ASSUME ConnsSound, Onward, NEW k, NEW d, One(k, d), Sound(d, Request', Done')
    PROVE  ConnsSound' /\ DOMAIN conns' = DOMAIN conns
  <1>1. d \in ConnectionType
    BY DEF Sound
  <1>2. /\ conns' \in Seq(ConnectionType) /\ DOMAIN conns' = DOMAIN conns
        /\ \A j \in DOMAIN conns : conns'[j] = IF j = k THEN d ELSE conns[j]
    BY <1>1, OneConn DEF ConnsSound
  <1>3. \A j \in DOMAIN conns : Sound(conns[j], Request', Done')
    BY SoundLater DEF ConnsSound, Onward
  <1>4. \A j \in DOMAIN conns' : Sound(conns'[j], Request', Done')
    BY <1>2, <1>3
  <1> QED
    BY <1>2, <1>4 DEF ConnsSound

LEMMA SameSound ==
    ASSUME ConnsSound, Onward, conns' = conns
    PROVE  ConnsSound' /\ DOMAIN conns' = DOMAIN conns
  <1>1. \A j \in DOMAIN conns : Sound(conns[j], Request', Done')
    BY SoundLater DEF ConnsSound, Onward
  <1> QED
    BY <1>1 DEF ConnsSound

LEMMA NewSound ==
    ASSUME ConnsSound, Onward, NEW frames \in {<< >>, <<Hello>>},
           conns' = Append(conns, NewConnection(frames))
    PROVE  /\ ConnsSound' /\ Len(conns) + 1 \in DOMAIN conns'
           /\ DOMAIN conns \subseteq DOMAIN conns'
           /\ \A j \in DOMAIN conns : conns'[j] = conns[j]
           /\ \A j \in DOMAIN conns' : j \in DOMAIN conns \/ j = Len(conns) + 1
  <1> DEFINE d == NewConnection(frames)
  <1>1. /\ frames \in Seq(FrameType) /\ \A i \in DOMAIN frames : frames[i] = Hello
        /\ << >> \in Seq(FrameType) /\ DOMAIN << >> = {}
    <2>1. << >> \in Seq(FrameType) /\ DOMAIN << >> = {}
      OBVIOUS
    <2>2. <<Hello>> \in Seq(FrameType)
      BY Greetings
    <2>3. \A i \in DOMAIN <<Hello>> : <<Hello>>[i] = Hello
      OBVIOUS
    <2>4. CASE frames = << >>
      BY <2>1, <2>4
    <2>5. CASE frames = <<Hello>>
      BY <2>1, <2>2, <2>3, <2>5
    <2> QED
      BY <2>4, <2>5
  <1>2. /\ d \in ConnectionType /\ d.up = frames /\ d.down = << >>
        /\ d.server = "AwaitingHello"
    BY <1>1 DEF NewConnection, ConnectionType
  <1> HIDE DEF d
  <1>3. Sound(d, Request', Done')
    BY <1>1, <1>2, Greetings DEF Sound
  <1>4. \A j \in DOMAIN conns : Sound(conns[j], Request', Done')
    BY SoundLater DEF ConnsSound, Onward
  <1>5. /\ conns \in Seq(ConnectionType) /\ conns' = Append(conns, d)
        /\ Len(conns) \in Nat /\ DOMAIN conns = 1 .. Len(conns)
    BY LenProperties DEF ConnsSound, d
  <1>6. /\ conns' \in Seq(ConnectionType) /\ Len(conns') = Len(conns) + 1
        /\ \A j \in 1 .. Len(conns) : conns'[j] = conns[j]
        /\ conns'[Len(conns) + 1] = d
    BY <1>2, <1>5, AppendProperties
  <1>7. DOMAIN conns' = 1 .. Len(conns) + 1
    BY <1>6, LenProperties
  <1>8. \A j \in DOMAIN conns' : j \in DOMAIN conns \/ j = Len(conns) + 1
    BY <1>5, <1>7
  <1>9. \A j \in DOMAIN conns' : Sound(conns'[j], Request', Done')
    BY <1>3, <1>4, <1>5, <1>6, <1>8
  <1> QED
    BY <1>5, <1>6, <1>7, <1>8, <1>9 DEF ConnsSound

\* The results after a step of an exchange: only the last one may change, and
\* not to a reply.
Unreplied ==
    /\ results' \in Seq(Result) /\ Len(results') = Len(results) /\ results' # << >>
    /\ \A m \in DOMAIN results' :
         /\ m \in DOMAIN results
         /\ results'[m] = results[m] \/ results'[m].tag # "ok"

LEMMA Given ==
    ASSUME ScalarsTyped, phase # "idle", NEW tag \in {"ok", "failed", "unreachable"},
           NEW n \in Nat, Give(tag, n)
    PROVE  /\ results' \in Seq(Result) /\ Len(results') = Len(results) /\ results' # << >>
           /\ phase' = "idle"
           /\ \A m \in DOMAIN results' :
                /\ m \in DOMAIN results
                /\ results'[m] = IF m = Request THEN [tag |-> tag, n |-> n] ELSE results[m]
  <1>1. results \in Seq(Result) /\ results # << >>
    BY DEF ScalarsTyped
  <1>2. Len(results) \in Nat \ {0} /\ DOMAIN results = 1 .. Len(results)
    BY <1>1, LenProperties, EmptySeq
  <1>3. Request \in DOMAIN results
    BY <1>2 DEF Request
  <1>4. [tag |-> tag, n |-> n] \in Result
    BY DEF Result
  <1>5. results' = [results EXCEPT ![Request] = [tag |-> tag, n |-> n]]
    BY DEF Give
  <1>6. /\ results' \in Seq(Result) /\ Len(results') = Len(results)
        /\ DOMAIN results' = DOMAIN results
        /\ \A m \in DOMAIN results :
             results'[m] = IF m = Request THEN [tag |-> tag, n |-> n] ELSE results[m]
    BY <1>1, <1>3, <1>4, <1>5, UpdatedConn
  <1>7. results' # << >>
    BY <1>2, <1>6
  <1> QED
    BY <1>6, <1>7 DEF Give

LEMMA Unchanged ==
    ASSUME ScalarsTyped, phase # "idle", results' = results
    PROVE  Unreplied
  BY DEF ScalarsTyped, Unreplied

LEMMA GivenError ==
    ASSUME ScalarsTyped, phase # "idle", NEW tag \in {"failed", "unreachable"}, Give(tag, 0)
    PROVE  Unreplied /\ phase' = "idle"
  <1>1. tag \in {"ok", "failed", "unreachable"} /\ 0 \in Nat
    OBVIOUS
  <1>2. /\ results' \in Seq(Result) /\ Len(results') = Len(results) /\ results' # << >>
        /\ phase' = "idle"
        /\ \A m \in DOMAIN results' :
             /\ m \in DOMAIN results
             /\ results'[m] = IF m = Request THEN [tag |-> tag, n |-> 0] ELSE results[m]
    BY <1>1, Given
  <1> QED
    BY <1>2 DEF Unreplied

LEMMA ConnectFails ==
    ASSUME ScalarsTyped, phase # "idle", ConnectFailed
    PROVE  Unreplied /\ connects' \in 0 .. MaxRetries /\ phase' \in {"connect", "idle"}
  <1>1. CASE connects < MaxRetries
    <2>1. connects' = connects + 1 /\ phase' = "connect" /\ results' = results
      BY <1>1 DEF ConnectFailed
    <2>2. connects' \in 0 .. MaxRetries
      BY <1>1, <2>1, ExchangeAssumption DEF ScalarsTyped
    <2> QED
      BY <2>1, <2>2, Unchanged
  <1>2. CASE ~(connects < MaxRetries)
    <2>1. Give("unreachable", 0) /\ connects' = connects
      BY <1>2 DEF ConnectFailed
    <2> QED
      BY <2>1, GivenError DEF ScalarsTyped
  <1> QED
    BY <1>1, <1>2

LEMMA AttemptFails ==
    ASSUME ScalarsTyped, phase # "idle", AttemptFailed
    PROVE  /\ Unreplied /\ inner' = 0
           /\ connects' \in 0 .. MaxRetries /\ attempt' \in 0 .. MaxRetries
           /\ phase' \in {"connect", "idle"}
  <1>1. CASE kind = "persistent" /\ attempt < MaxRetries
    <2>1. /\ inner' = 0 /\ attempt' = attempt + 1 /\ connects' = 0 /\ phase' = "connect"
          /\ results' = results
      BY <1>1 DEF AttemptFailed
    <2>2. attempt' \in 0 .. MaxRetries /\ connects' \in 0 .. MaxRetries
      BY <1>1, <2>1, ExchangeAssumption DEF ScalarsTyped
    <2> QED
      BY <2>1, <2>2, Unchanged
  <1>2. CASE ~(kind = "persistent" /\ attempt < MaxRetries)
    <2>1. inner' = 0 /\ Give("failed", 0) /\ UNCHANGED <<attempt, connects>>
      BY <1>2 DEF AttemptFailed
    <2> QED
      BY <2>1, GivenError DEF ScalarsTyped
  <1> QED
    BY <1>1, <1>2

\* What the rest of the invariant needs of a step without a reply.
LEMMA UnrepliedKeeps ==
    ASSUME ScalarsTyped, MatchedInv, executed' = executed, Unreplied
    PROVE  /\ Onward /\ MatchedInv' /\ Request' = Request /\ Done' = Done
           /\ Request' <= MaxRequests
  <1>1. Request \in Nat /\ Request' = Request /\ Request <= MaxRequests
    BY LenProperties DEF ScalarsTyped, Unreplied, Request
  <1>2. Done' = Done
    BY DEF Done
  <1>3. MatchedInv'
    BY <1>2 DEF MatchedInv, Matched, Unreplied
  <1> QED
    BY <1>1, <1>2, <1>3 DEF Onward

\* A request on a connection whose ends are still there, or a lost one.
LEMMA RequestUpward ==
    ASSUME NEW c, NEW r \in Nat \ {0}, NEW done, Sound(c, r, done),
           Greeted(c), NEW id \in Nat, Below(c, id)
    PROVE  LET d == [c EXCEPT !.up = IF c.up_open /\ c.server # "Ended"
                                     THEN @ \o <<Frame("Request", id, r)>> ELSE @]
           IN  /\ Sound(d, r, done) /\ Greeted(d)
               /\ Below(d, id + 2) /\ About(d, id, r)
  <1> DEFINE d == [c EXCEPT !.up = IF c.up_open /\ c.server # "Ended"
                                   THEN @ \o <<Frame("Request", id, r)>> ELSE @]
  <1>1. CASE c.up_open /\ c.server # "Ended"
    BY <1>1, RequestSent
  <1>2. CASE ~(c.up_open /\ c.server # "Ended")
    <2>1. c \in ConnectionType
      BY DEF Sound
    <2>2. d = c
      BY <1>2, <2>1 DEF ConnectionType
    <2>3. \A i \in DOMAIN c.up : UpFrame(c.up[i], r)
      BY DEF Sound
    <2>4. \A i \in DOMAIN c.down : DownFrame(c.down[i], r, done)
      BY DEF Sound
    <2>5. /\ \A i \in DOMAIN c.up : c.up[i].id \in Nat
          /\ \A i \in DOMAIN c.down : c.down[i].id \in Nat
      BY <2>3, <2>4 DEF UpFrame, DownFrame, FrameType
    <2>6. Below(c, id + 2) /\ About(c, id, r)
      BY <2>5 DEF Below, About
    <2> HIDE DEF d
    <2>7. Sound(d, r, done) /\ Greeted(d) /\ Below(d, id + 2) /\ About(d, id, r)
      BY <2>2, <2>6
    <2> QED
      BY <2>7 DEF d
  <1> QED
    BY <1>1, <1>2

-----------------------------------------------------------------------------
(* The connections in use.                                                 *)

LEMMA ConnectionsNumbered ==
    ASSUME ConnsSound
    PROVE  0 \notin DOMAIN conns /\ Len(conns) \in Nat /\ DOMAIN conns = 1 .. Len(conns)
  <1>1. conns \in Seq(ConnectionType)
    BY DEF ConnsSound
  <1>2. Len(conns) \in Nat /\ DOMAIN conns = 1 .. Len(conns)
    BY <1>1, LenProperties
  <1> QED
    BY <1>2

\* A client that is not in an exchange, or only at its beginning, uses none.
LEMMA Passive ==
    ASSUME 0 \notin DOMAIN conns', phase' \in {"idle", "connect", "welcome"},
           kind' # "persistent" \/ inner' = 0
    PROVE  ActiveInv'
  BY DEF ActiveInv, Active

\* The client goes on using what it used, and its numbering goes on.
StillUsed ==
    /\ \A j \in DOMAIN conns : Active(j)' => Active(j)
    /\ phase' = "await" => phase = "await" /\ link' = link
    /\ next_id' = next_id /\ Request' = Request

LEMMA StillActive ==
    ASSUME ActiveInv, ClientInv, ConnsSound, StillUsed,
           NEW k, NEW d \in ConnectionType, One(k, d), Descends(conns[k], d)
    PROVE  ActiveInv'
  <1>1. /\ DOMAIN conns' = DOMAIN conns
        /\ \A j \in DOMAIN conns : conns'[j] = IF j = k THEN d ELSE conns[j]
    BY OneConn DEF ConnsSound
  <1>2. \A j \in DOMAIN conns : Active(j) =>
          Greeted(conns'[j]) /\ Below(conns'[j], next_id)
    BY <1>1, DescendsKeeps DEF ActiveInv
  <1>3. \A j \in DOMAIN conns' : Active(j)' => Greeted(conns'[j]) /\ Below(conns'[j], next_id')
    BY <1>1, <1>2 DEF StillUsed
  <1>4. ASSUME phase' = "await"
        PROVE  About(conns'[link'], next_id' - 2, Request')
    <2>1. phase = "await" /\ link' = link /\ next_id' = next_id /\ Request' = Request
      BY <1>4 DEF StillUsed
    <2>2. link \in DOMAIN conns
      BY <2>1 DEF ClientInv
    <2>3. About(conns[link], next_id - 2, Request)
      BY <2>1 DEF ActiveInv
    <2>4. About(conns'[link], next_id - 2, Request)
      BY <1>1, <2>2, <2>3, DescendsKeeps
    <2> QED
      BY <2>1, <2>4
  <1> QED
    BY <1>3, <1>4 DEF ActiveInv

LEMMA StillUnchanged ==
    ASSUME ActiveInv, ClientInv, StillUsed, conns' = conns
    PROVE  ActiveInv'
  <1>1. \A j \in DOMAIN conns' : Active(j)' => Greeted(conns'[j]) /\ Below(conns'[j], next_id')
    BY DEF StillUsed, ActiveInv
  <1>2. phase' = "await" => About(conns'[link'], next_id' - 2, Request')
    BY DEF StillUsed, ActiveInv
  <1> QED
    BY <1>1, <1>2 DEF ActiveInv

LEMMA SameUse ==
    ASSUME UNCHANGED clientVars, UNCHANGED given
    PROVE  StillUsed
  BY DEF StillUsed, Active, clientVars, given, Request

-----------------------------------------------------------------------------
(* Every step keeps the invariant: first the server and the network.       *)

LEMMA ServerKeeps ==
    ASSUME ExchangeInv, Onward, UNCHANGED clientVars, UNCHANGED given,
           executed' \in Seq(1 .. MaxRequests), breaks' \in 0 .. MaxBreaks,
           NEW k, NEW d, One(k, d), Sound(d, Request', Done'), Descends(conns[k], d)
    PROVE  ExchangeInv'
  <1>1. ConnsSound' /\ DOMAIN conns' = DOMAIN conns
    BY OneSound DEF ExchangeInv
  <1>2. ScalarsTyped'
    BY DEF ExchangeInv, ScalarsTyped, clientVars, given, Request
  <1>3. ClientInv'
    BY <1>1 DEF ExchangeInv, ClientInv, clientVars, given
  <1>4. StillUsed
    BY SameUse
  <1>5. d \in ConnectionType
    BY DEF Sound
  <1>6. ActiveInv'
    BY <1>4, <1>5, StillActive DEF ExchangeInv
  <1>7. MatchedInv'
    BY DEF ExchangeInv, MatchedInv, Matched, Onward, clientVars
  <1> QED
    BY <1>1, <1>2, <1>3, <1>6, <1>7 DEF ExchangeInv

\* A step of the task or the network that only reads, loses or ends.
LEMMA ShrinkKeeps ==
    ASSUME ExchangeInv, UNCHANGED clientVars, UNCHANGED given, UNCHANGED executed,
           breaks' \in 0 .. MaxBreaks,
           NEW k, NEW d, One(k, d), Shrinks(conns[k], d)
    PROVE  ExchangeInv'
  <1>1. Request \in Nat /\ Request' = Request /\ Done' = Done
    BY LenProperties DEF ExchangeInv, ScalarsTyped, Request, Done, clientVars
  <1>2. Onward
    BY <1>1 DEF Onward
  <1>3. Sound(conns[k], Request, Done)
    BY DEF ExchangeInv, ConnsSound, One
  <1>4. Sound(d, Request, Done) /\ Descends(conns[k], d)
    BY <1>1, <1>3, ShrinksSound
  <1>5. executed' \in Seq(1 .. MaxRequests)
    BY DEF ExchangeInv, ScalarsTyped
  <1> QED
    BY <1>1, <1>2, <1>4, <1>5, ServerKeeps

LEMMA ConnectionOf ==
    ASSUME ExchangeInv, NEW k \in DOMAIN conns
    PROVE  /\ conns[k] \in ConnectionType /\ Sound(conns[k], Request, Done)
           /\ Request \in Nat /\ breaks \in 0 .. MaxBreaks
           /\ executed \in Seq(1 .. MaxRequests)
  <1>1. Sound(conns[k], Request, Done)
    BY DEF ExchangeInv, ConnsSound
  <1>2. results \in Seq(Result) /\ breaks \in 0 .. MaxBreaks
    BY DEF ExchangeInv, ScalarsTyped
  <1>3. Request \in Nat
    BY <1>2, LenProperties DEF Request
  <1> QED
    BY <1>1, <1>2, <1>3 DEF Sound, ExchangeInv, ScalarsTyped

LEMMA ServeHelloKeeps ==
    ASSUME ExchangeInv, NEW k \in DOMAIN conns, ServeHello(k)
    PROVE  ExchangeInv'
  <1> DEFINE c == conns[k]
             rest == [c EXCEPT !.up = Tail(@)]
  <1>1. /\ c.up # << >>
        /\ UNCHANGED clientVars /\ UNCHANGED given
        /\ UNCHANGED executed /\ UNCHANGED breaks
        /\ conns' = [conns EXCEPT ![k] =
             IF c.server = "AwaitingHello"
             THEN Written([rest EXCEPT !.server = "Established"], <<Welcome>>)
             ELSE Ended(rest)]
    BY DEF ServeHello
  <1>2. /\ c \in ConnectionType /\ Sound(c, Request, Done)
        /\ Request \in Nat /\ breaks' \in 0 .. MaxBreaks
        /\ executed' \in Seq(1 .. MaxRequests)
    BY <1>1, ConnectionOf
  <1>3. Request' = Request /\ Done' = Done /\ Onward
    BY <1>1, <1>2 DEF Request, Done, clientVars, Onward
  <1>4. CASE c.server = "AwaitingHello"
    <2> DEFINE d == Written([rest EXCEPT !.server = "Established"], <<Welcome>>)
    <2>1. Sound(d, Request, Done) /\ Descends(c, d)
      BY <1>1, <1>2, <1>4, WelcomeWritten
    <2>2. One(k, d)
      BY <1>1, <1>4 DEF One
    <2> HIDE DEF d
    <2> QED
      BY <1>1, <1>2, <1>3, <2>1, <2>2, ServerKeeps
  <1>5. CASE c.server # "AwaitingHello"
    <2> DEFINE d == Ended(rest)
    <2>1. Shrinks(c, d)
      BY <1>1, <1>2, EndsShrink
    <2>2. One(k, d)
      BY <1>1, <1>5 DEF One
    <2> HIDE DEF d
    <2> QED
      BY <1>1, <1>2, <2>1, <2>2, ShrinkKeeps
  <1> QED
    BY <1>4, <1>5

LEMMA ServeEndKeeps ==
    ASSUME ExchangeInv, NEW k \in DOMAIN conns, ServeEnd(k)
    PROVE  ExchangeInv'
  <1> DEFINE d == Ended(conns[k])
  <1>1. /\ UNCHANGED clientVars /\ UNCHANGED given
        /\ UNCHANGED executed /\ UNCHANGED breaks /\ One(k, d)
    BY DEF ServeEnd, One
  <1>2. conns[k] \in ConnectionType /\ breaks' \in 0 .. MaxBreaks
    BY <1>1, ConnectionOf
  <1>3. Shrinks(conns[k], d)
    BY <1>2, EndsShrink
  <1> HIDE DEF d
  <1> QED
    BY <1>1, <1>2, <1>3, ShrinkKeeps

LEMMA BreakKeeps ==
    ASSUME ExchangeInv, NEW k \in DOMAIN conns, Break(k)
    PROVE  ExchangeInv'
  <1>1. conns[k] \in ConnectionType /\ breaks \in 0 .. MaxBreaks
    BY ConnectionOf
  <1>2. PICK i \in 0 .. Len(conns[k].up), j \in 0 .. Len(conns[k].down) :
          conns' = [conns EXCEPT ![k].up = SubSeq(@, 1, i), ![k].up_open = FALSE,
                                 ![k].down = SubSeq(@, 1, j), ![k].down_open = FALSE]
    BY DEF Break
  <1> DEFINE d == [conns[k] EXCEPT !.up = SubSeq(@, 1, i), !.up_open = FALSE,
                                   !.down = SubSeq(@, 1, j), !.down_open = FALSE]
  <1>3. One(k, d)
    BY <1>2 DEF One
  <1>4. breaks' \in 0 .. MaxBreaks
    BY <1>1, ExchangeAssumption DEF Break
  <1>5. UNCHANGED clientVars /\ UNCHANGED given /\ UNCHANGED executed
    BY DEF Break
  <1>6. Shrinks(conns[k], d)
    BY <1>1, EndsShrink
  <1> HIDE DEF d
  <1> QED
    BY <1>3, <1>4, <1>5, <1>6, ShrinkKeeps

\* What executing request n adds.
LEMMA Executed ==
    ASSUME executed \in Seq(1 .. MaxRequests), NEW n \in 1 .. MaxRequests,
           executed' = Append(executed, n)
    PROVE  executed' \in Seq(1 .. MaxRequests) /\ Done \subseteq Done' /\ n \in Done'
  <1>1. Len(executed) \in Nat /\ DOMAIN executed = 1 .. Len(executed)
    BY LenProperties
  <1>2. /\ executed' \in Seq(1 .. MaxRequests) /\ Len(executed') = Len(executed) + 1
        /\ \A i \in 1 .. Len(executed) : executed'[i] = executed[i]
        /\ executed'[Len(executed) + 1] = n
    BY AppendProperties
  <1>3. DOMAIN executed' = 1 .. Len(executed) + 1
    BY <1>2, LenProperties
  <1>4. ASSUME NEW m \in Done
        PROVE  m \in Done'
    <2>1. PICK i \in DOMAIN executed : m = executed[i]
      BY <1>4 DEF Done
    <2>2. i \in DOMAIN executed' /\ executed'[i] = m
      BY <1>1, <1>2, <1>3, <2>1
    <2> QED
      BY <2>2 DEF Done
  <1>5. n \in Done'
    <2>1. Len(executed) + 1 \in DOMAIN executed'
      BY <1>1, <1>3
    <2> QED
      BY <1>2, <2>1 DEF Done
  <1> QED
    BY <1>2, <1>4, <1>5

LEMMA ServeRequestKeeps ==
    ASSUME ExchangeInv, NEW k \in DOMAIN conns, ServeRequest(k)
    PROVE  ExchangeInv'
  <1> DEFINE c == conns[k]
             f == Head(c.up)
             rest == [c EXCEPT !.up = Tail(@)]
             reply == <<Frame("Response", ReplyId(f), f.n), Frame("Close", ReplyId(f), 0)>>
  <1>1. /\ c.up # << >> /\ f.type = "Request"
        /\ UNCHANGED clientVars /\ UNCHANGED given /\ UNCHANGED breaks
        /\ executed' = IF Succeeds(f.n) THEN Append(executed, f.n) ELSE executed
        /\ conns' = [conns EXCEPT ![k] =
             IF Succeeds(f.n) /\ outcome[f.n] # "oversized"
             THEN Written(rest, reply) ELSE Ended(rest)]
    BY DEF ServeRequest
  <1>2. /\ c \in ConnectionType /\ Sound(c, Request, Done)
        /\ Request \in Nat /\ breaks' \in 0 .. MaxBreaks
        /\ executed \in Seq(1 .. MaxRequests) /\ Request <= MaxRequests
    BY <1>1, ConnectionOf DEF ExchangeInv, ScalarsTyped
  <1>3. Request' = Request
    BY <1>1 DEF Request, clientVars
  <1>4. f.n \in 1 .. MaxRequests
    <2>1. c.up \in Seq(FrameType)
      BY <1>2, ConnectionTyped
    <2>2. 1 \in DOMAIN c.up /\ f = c.up[1]
      BY <1>1, <2>1, PartTail
    <2>3. f.n \in 1 .. Request
      BY <1>1, <1>2, <2>2 DEF Sound, UpFrame
    <2> QED
      BY <1>2, <2>3, ExchangeAssumption
  <1>5. /\ executed' \in Seq(1 .. MaxRequests) /\ Done \subseteq Done'
        /\ Succeeds(f.n) => f.n \in Done'
    <2>1. CASE Succeeds(f.n)
      BY <1>1, <1>2, <1>4, <2>1, Executed
    <2>2. CASE ~Succeeds(f.n)
      BY <1>1, <1>2, <2>2 DEF Done
    <2> QED
      BY <2>1, <2>2
  <1>6. Onward
    BY <1>2, <1>3, <1>5 DEF Onward
  <1>7. Sound(c, Request', Done')
    BY <1>2, <1>3, <1>5, SoundLater
  <1>8. Request' \in Nat
    BY <1>2, <1>3
  <1>9. CASE Succeeds(f.n) /\ outcome[f.n] # "oversized"
    <2> DEFINE d == Written(rest, reply)
    <2>1. Sound(d, Request', Done') /\ Descends(c, d)
      BY <1>1, <1>5, <1>7, <1>8, <1>9, ReplyWritten
    <2>2. One(k, d)
      BY <1>1, <1>9 DEF One
    <2> HIDE DEF d
    <2> QED
      BY <1>1, <1>2, <1>5, <1>6, <2>1, <2>2, ServerKeeps
  <1>10. CASE ~(Succeeds(f.n) /\ outcome[f.n] # "oversized")
    <2> DEFINE d == Ended(rest)
    <2>1. Shrinks(c, d)
      BY <1>1, <1>2, EndsShrink
    <2>2. Sound(d, Request', Done') /\ Descends(c, d)
      BY <1>7, <1>8, <2>1, ShrinksSound
    <2>3. One(k, d)
      BY <1>1, <1>10 DEF One
    <2> HIDE DEF d
    <2> QED
      BY <1>1, <1>2, <1>5, <1>6, <2>2, <2>3, ServerKeeps
  <1> QED
    BY <1>9, <1>10

-----------------------------------------------------------------------------
(* The client.                                                             *)

\* A request begins.
LEMMA Begun ==
    ASSUME ScalarsTyped, MatchedInv, Request < MaxRequests,
           results' = Append(results, Pending), executed' = executed
    PROVE  /\ results' \in Seq(Result) /\ results' # << >>
           /\ Request' <= MaxRequests /\ Onward /\ MatchedInv'
  <1>1. results \in Seq(Result) /\ Pending \in Result
    BY DEF ScalarsTyped, Pending, Result
  <1>2. Len(results) \in Nat /\ DOMAIN results = 1 .. Len(results)
    BY <1>1, LenProperties
  <1>3. /\ results' \in Seq(Result) /\ Len(results') = Len(results) + 1
        /\ \A i \in 1 .. Len(results) : results'[i] = results[i]
        /\ results'[Len(results) + 1] = Pending
    BY <1>1, AppendProperties
  <1>4. DOMAIN results' = 1 .. Len(results) + 1
    BY <1>3, LenProperties
  <1>5. results' # << >>
    BY <1>2, <1>3, EmptySeq
  <1>6. Request' <= MaxRequests /\ Onward
    BY <1>2, <1>3, ExchangeAssumption DEF Request, Onward, Done
  <1>7. ASSUME NEW m \in DOMAIN results', results'[m].tag = "ok"
        PROVE  results'[m].n = m /\ m \in Done'
    <2>1. m # Len(results) + 1
      BY <1>3, <1>7 DEF Pending
    <2>2. m \in DOMAIN results /\ results'[m] = results[m]
      BY <1>2, <1>3, <1>4, <2>1
    <2>3. Done' = Done
      BY DEF Done
    <2> QED
      BY <1>7, <2>2, <2>3 DEF MatchedInv, Matched
  <1> QED
    BY <1>3, <1>5, <1>6, <1>7 DEF MatchedInv, Matched

LEMMA SendKeeps ==
    ASSUME ExchangeInv, Send
    PROVE  ExchangeInv'
  <1>1. /\ kind = "persistent" /\ phase = "idle" /\ Request < MaxRequests
        /\ results' = Append(results, Pending)
        /\ phase' = IF inner # 0 THEN "request" ELSE "connect"
        /\ link' = inner /\ attempt' = 0 /\ connects' = 0
        /\ conns' = conns /\ inner' = inner /\ next_id' = next_id
        /\ kind' = kind /\ outcome' = outcome
        /\ executed' = executed /\ breaks' = breaks
    BY DEF Send, given
  <1>2. /\ results' \in Seq(Result) /\ results' # << >>
        /\ Request' <= MaxRequests /\ Onward /\ MatchedInv'
    BY <1>1, Begun DEF ExchangeInv
  <1>3. ConnsSound' /\ DOMAIN conns' = DOMAIN conns
    BY <1>1, <1>2, SameSound DEF ExchangeInv
  <1>4. ScalarsTyped'
    BY <1>1, <1>2, ExchangeAssumption DEF ExchangeInv, ScalarsTyped
  <1>5. ClientInv'
    BY <1>1 DEF ExchangeInv, ClientInv
  <1>6. ActiveInv'
    <2>1. 0 \notin DOMAIN conns
      BY ConnectionsNumbered DEF ExchangeInv
    <2>2. \A j \in DOMAIN conns : Active(j)' => Active(j)
      BY <1>1, <2>1 DEF Active
    <2>3. phase' # "await"
      BY <1>1
    <2> QED
      BY <1>1, <2>2, <2>3 DEF ExchangeInv, ActiveInv
  <1> QED
    BY <1>2, <1>3, <1>4, <1>5, <1>6 DEF ExchangeInv

LEMMA SendMessageKeeps ==
    ASSUME ExchangeInv, SendMessage
    PROVE  ExchangeInv'
  <1> DEFINE c == conns[inner]
             d == [c EXCEPT !.up = IF c.up_open /\ c.server # "Ended"
                                   THEN @ \o <<Hello>> ELSE @]
  <1>1. /\ kind = "resilient" /\ phase = "idle" /\ Request < MaxRequests
        /\ results' = Append(results, Pending) /\ inner # 0
        /\ phase' = "welcome" /\ link' = inner /\ inner' = 0
        /\ conns' = Upward(inner, <<Hello>>)
        /\ next_id' = next_id /\ attempt' = attempt /\ connects' = connects
        /\ kind' = kind /\ outcome' = outcome
        /\ executed' = executed /\ breaks' = breaks
    BY DEF SendMessage, given
  <1>2. /\ results' \in Seq(Result) /\ results' # << >>
        /\ Request' <= MaxRequests /\ Onward /\ MatchedInv'
    BY <1>1, Begun DEF ExchangeInv
  <1>3. inner \in DOMAIN conns
    BY <1>1 DEF ExchangeInv, ClientInv
  <1>4. One(inner, d)
    BY <1>1, <1>3 DEF One, Upward
  <1>5. c \in ConnectionType /\ Sound(c, Request, Done) /\ Request \in Nat
    BY <1>3, ConnectionOf
  <1>6. Shrinks(c, d)
    BY <1>5, HelloShrinks
  <1>7. Sound(d, Request, Done)
    BY <1>5, <1>6, ShrinksSound
  <1> HIDE DEF d
  <1>8. Sound(d, Request', Done')
    BY <1>2, <1>7, SoundLater DEF Onward
  <1>9. ConnsSound' /\ DOMAIN conns' = DOMAIN conns
    BY <1>2, <1>4, <1>8, OneSound DEF ExchangeInv
  <1>10. ScalarsTyped'
    BY <1>1, <1>2 DEF ExchangeInv, ScalarsTyped
  <1>11. ClientInv'
    BY <1>1, <1>3, <1>9 DEF ExchangeInv, ClientInv
  <1>12. 0 \notin DOMAIN conns'
    BY <1>9, ConnectionsNumbered DEF ExchangeInv
  <1>13. ActiveInv'
    BY <1>1, <1>12, Passive
  <1> QED
    BY <1>2, <1>9, <1>10, <1>11, <1>13 DEF ExchangeInv

LEMMA ConnectKeeps ==
    ASSUME ExchangeInv, Connect
    PROVE  ExchangeInv'
  <1>1. /\ phase = "connect" /\ conns' = Append(conns, NewConnection(<<Hello>>))
        /\ link' = Len(conns) + 1 /\ phase' = "welcome"
        /\ inner' = inner /\ next_id' = next_id /\ attempt' = attempt
        /\ connects' = connects /\ results' = results
        /\ kind' = kind /\ outcome' = outcome
        /\ executed' = executed /\ breaks' = breaks
    BY DEF Connect, given
  <1>2. Onward /\ MatchedInv'
    BY <1>1, Unchanged, UnrepliedKeeps DEF ExchangeInv
  <1>3. /\ ConnsSound' /\ Len(conns) + 1 \in DOMAIN conns'
        /\ DOMAIN conns \subseteq DOMAIN conns'
    BY <1>1, <1>2, NewSound DEF ExchangeInv
  <1>4. ScalarsTyped'
    BY <1>1 DEF ExchangeInv, ScalarsTyped, Request
  <1>5. Len(conns) + 1 # 0
    BY ConnectionsNumbered DEF ExchangeInv
  <1>6. ClientInv'
    BY <1>1, <1>3, <1>5 DEF ExchangeInv, ClientInv
  <1>7. 0 \notin DOMAIN conns'
    <2>1. /\ \A j \in DOMAIN conns' : j \in DOMAIN conns \/ j = Len(conns) + 1
          /\ 0 \notin DOMAIN conns
      BY <1>1, <1>2, NewSound, ConnectionsNumbered DEF ExchangeInv
    <2> QED
      BY <1>5, <2>1
  <1>8. ActiveInv'
    BY <1>1, <1>7, Passive DEF ExchangeInv, ClientInv
  <1> QED
    BY <1>2, <1>3, <1>4, <1>6, <1>8 DEF ExchangeInv

LEMMA BuildStreamKeeps ==
    ASSUME ExchangeInv, BuildStream
    PROVE  ExchangeInv'
  <1>1. /\ kind = "resilient" /\ phase = "idle"
        /\ conns' = Append(conns, NewConnection(<< >>))
        /\ inner' = Len(conns) + 1 /\ phase' = phase /\ link' = link
        /\ next_id' = next_id /\ attempt' = attempt
        /\ connects' = connects /\ results' = results
        /\ kind' = kind /\ outcome' = outcome
        /\ executed' = executed /\ breaks' = breaks
    BY DEF BuildStream, given
  <1>2. Onward
    BY <1>1, LenProperties DEF ExchangeInv, ScalarsTyped, Onward, Request, Done
  <1>3. /\ ConnsSound' /\ Len(conns) + 1 \in DOMAIN conns'
        /\ DOMAIN conns \subseteq DOMAIN conns'
        /\ \A j \in DOMAIN conns' : j \in DOMAIN conns \/ j = Len(conns) + 1
    BY <1>1, <1>2, NewSound DEF ExchangeInv
  <1>4. ScalarsTyped' /\ MatchedInv'
    BY <1>1 DEF ExchangeInv, ScalarsTyped, MatchedInv, Matched, Request, Done
  <1>5. 0 \notin DOMAIN conns /\ Len(conns) + 1 # 0
    BY ConnectionsNumbered DEF ExchangeInv
  <1>6. ClientInv'
    BY <1>1, <1>3 DEF ExchangeInv, ClientInv
  <1>7. 0 \notin DOMAIN conns'
    BY <1>3, <1>5
  <1>8. ActiveInv'
    BY <1>1, <1>7, Passive
  <1> QED
    BY <1>3, <1>4, <1>6, <1>8 DEF ExchangeInv

LEMMA ConnectRefusedKeeps ==
    ASSUME ExchangeInv, ConnectRefused
    PROVE  ExchangeInv'
  <1>1. /\ phase = "connect" /\ ConnectFailed
        /\ conns' = conns /\ inner' = inner /\ link' = link /\ next_id' = next_id
        /\ attempt' = attempt /\ kind' = kind /\ outcome' = outcome
        /\ executed' = executed /\ breaks' = breaks
    BY DEF ConnectRefused, given
  <1>2. Unreplied /\ connects' \in 0 .. MaxRetries /\ phase' \in {"connect", "idle"}
    BY <1>1, ConnectFails DEF ExchangeInv
  <1>3. Onward /\ MatchedInv' /\ Request' <= MaxRequests
    BY <1>1, <1>2, UnrepliedKeeps DEF ExchangeInv
  <1>4. ConnsSound' /\ 0 \notin DOMAIN conns'
    BY <1>1, <1>3, SameSound, ConnectionsNumbered DEF ExchangeInv
  <1>5. ScalarsTyped'
    BY <1>1, <1>2, <1>3 DEF ExchangeInv, ScalarsTyped, Unreplied
  <1>6. ClientInv'
    BY <1>1, <1>2 DEF ExchangeInv, ClientInv
  <1>7. ActiveInv'
    BY <1>1, <1>2, <1>4, Passive DEF ExchangeInv, ClientInv
  <1> QED
    BY <1>3, <1>4, <1>5, <1>6, <1>7 DEF ExchangeInv

\* The client gives the connection of the exchange up.
LEMMA GivenUpKeeps ==
    ASSUME ExchangeInv, phase \in {"welcome", "request", "await"}, conns' = Dropped(link),
           Unreplied, inner' = 0, phase' \in {"connect", "idle"},
           connects' \in 0 .. MaxRetries, attempt' \in 0 .. MaxRetries,
           UNCHANGED <<link, next_id, given, executed, breaks>>
    PROVE  ExchangeInv'
  <1> DEFINE d == [conns[link] EXCEPT !.up_open = FALSE, !.down = << >>, !.down_open = FALSE]
  <1>1. /\ link' = link /\ next_id' = next_id /\ kind' = kind /\ outcome' = outcome
        /\ executed' = executed /\ breaks' = breaks
    BY DEF given
  <1>2. link \in DOMAIN conns
    BY DEF ExchangeInv, ClientInv
  <1>3. One(link, d)
    BY <1>2 DEF One, Dropped
  <1>4. /\ conns[link] \in ConnectionType /\ Sound(conns[link], Request, Done)
        /\ Request \in Nat
    BY <1>2, ConnectionOf
  <1>5. Shrinks(conns[link], d)
    BY <1>4, EndsShrink
  <1>6. Sound(d, Request, Done)
    BY <1>4, <1>5, ShrinksSound
  <1> HIDE DEF d
  <1>7. /\ Onward /\ MatchedInv' /\ Request' = Request /\ Done' = Done
        /\ Request' <= MaxRequests
    BY <1>1, UnrepliedKeeps DEF ExchangeInv
  <1>8. ConnsSound' /\ DOMAIN conns' = DOMAIN conns
    BY <1>3, <1>6, <1>7, OneSound DEF ExchangeInv
  <1>9. ScalarsTyped'
    BY <1>1, <1>7 DEF ExchangeInv, ScalarsTyped, Unreplied
  <1>10. ClientInv'
    BY <1>1, <1>8 DEF ExchangeInv, ClientInv
  <1>11. 0 \notin DOMAIN conns'
    BY <1>8, ConnectionsNumbered DEF ExchangeInv
  <1>12. ActiveInv'
    BY <1>11, Passive
  <1> QED
    BY <1>7, <1>8, <1>9, <1>10, <1>12 DEF ExchangeInv

LEMMA AwaitWelcomeKeeps ==
    ASSUME ExchangeInv, AwaitWelcome
    PROVE  ExchangeInv'
  <1> DEFINE c == conns[link]
             welcomed == ~EndOfStream /\ Head(Downward) = Welcome
  <1>1. /\ phase = "welcome" /\ (Downward # << >> \/ EndOfStream)
        /\ UNCHANGED <<link, given, executed, breaks>>
    BY DEF AwaitWelcome
  <1>2. link \in DOMAIN conns /\ Downward = c.down
    BY <1>1 DEF ExchangeInv, ClientInv, Downward
  <1>3. c \in ConnectionType /\ Sound(c, Request, Done) /\ Request \in Nat
    BY <1>2, ConnectionOf
  <1>4. CASE welcomed
    <2> DEFINE d == [c EXCEPT !.down = Tail(@)]
    <2>1. /\ conns' = [conns EXCEPT ![link].down = Tail(@)]
          /\ phase' = "request" /\ inner' = IF kind = "persistent" THEN link ELSE 0
          /\ next_id' = 1 /\ attempt' = attempt /\ connects' = connects
          /\ results' = results /\ link' = link /\ kind' = kind /\ outcome' = outcome
          /\ executed' = executed /\ breaks' = breaks
      BY <1>4 DEF AwaitWelcome, given
    <2>2. c.down # << >> /\ Head(c.down) = Welcome
      BY <1>1, <1>2, <1>4
    <2>3. Sound(d, Request, Done) /\ Descends(c, d) /\ Greeted(d)
      BY <1>3, <2>2, DownTail
    <2>4. One(link, d)
      BY <1>2, <2>1 DEF One
    <2>5. ~Greeted(c)
      <3>1. c.down \in Seq(FrameType)
        BY <1>3, ConnectionTyped
      <3>2. 1 \in DOMAIN c.down /\ c.down[1] = Welcome
        BY <2>2, <3>1, PartTail
      <3> QED
        BY <3>2 DEF Greeted
    <2>6. Below(c, 1)
      BY <1>3, <2>5 DEF Sound, Below
    <2>7. Below(d, 1)
      BY <2>3, <2>6, DescendsKeeps
    <2>8. d \in ConnectionType
      BY <2>3 DEF Sound
    <2> HIDE DEF d
    <2>9. Onward /\ MatchedInv' /\ Request' = Request /\ Done' = Done
      BY <1>1, <2>1, Unchanged, UnrepliedKeeps DEF ExchangeInv
    <2>10. ConnsSound' /\ DOMAIN conns' = DOMAIN conns
      BY <2>3, <2>4, <2>9, OneSound DEF ExchangeInv
    <2>11. conns'[link] = d
      BY <1>2, <2>4, <2>8, OneConn DEF ExchangeInv, ConnsSound
    <2>12. ScalarsTyped'
      BY <1>1, <2>1 DEF ExchangeInv, ScalarsTyped, Request
    <2>13. ClientInv'
      BY <1>1, <1>2, <2>1, <2>10 DEF ExchangeInv, ClientInv
    <2>14. \A j \in DOMAIN conns' : Active(j)' => j = link
      BY <2>1 DEF Active
    <2>15. ActiveInv'
      BY <2>1, <2>3, <2>7, <2>11, <2>14 DEF ActiveInv
    <2> QED
      BY <2>9, <2>10, <2>12, <2>13, <2>15 DEF ExchangeInv
  <1>5. CASE ~welcomed
    <2>1. /\ conns' = Dropped(link) /\ next_id' = next_id
          /\ IF kind = "persistent"
             THEN ConnectFailed /\ inner' = inner /\ attempt' = attempt
             ELSE AttemptFailed
      BY <1>5 DEF AwaitWelcome
    <2>2. /\ Unreplied /\ inner' = 0 /\ phase' \in {"connect", "idle"}
          /\ connects' \in 0 .. MaxRetries /\ attempt' \in 0 .. MaxRetries
      <3>1. CASE kind = "persistent"
        <4>1. ConnectFailed /\ inner' = inner /\ attempt' = attempt
          BY <2>1, <3>1
        <4>2. inner = 0 /\ attempt \in 0 .. MaxRetries
          BY <1>1, <3>1 DEF ExchangeInv, ClientInv, ScalarsTyped
        <4> QED
          BY <1>1, <4>1, <4>2, ConnectFails DEF ExchangeInv
      <3>2. CASE kind # "persistent"
        BY <1>1, <2>1, <3>2, AttemptFails DEF ExchangeInv
      <3> QED
        BY <3>1, <3>2
    <2> QED
      BY <1>1, <2>1, <2>2, GivenUpKeeps
  <1> QED
    BY <1>4, <1>5

LEMMA SendRequestKeeps ==
    ASSUME ExchangeInv, SendRequest
    PROVE  ExchangeInv'
  <1> DEFINE c == conns[link]
             d == [c EXCEPT !.up = IF c.up_open /\ c.server # "Ended"
                                   THEN @ \o <<Frame("Request", next_id, Request)>> ELSE @]
  <1>1. /\ phase = "request" /\ phase' = "await" /\ next_id' = next_id + 2
        /\ conns' = Upward(link, <<Frame("Request", next_id, Request)>>)
        /\ inner' = inner /\ link' = link /\ attempt' = attempt
        /\ connects' = connects /\ results' = results
        /\ kind' = kind /\ outcome' = outcome
        /\ executed' = executed /\ breaks' = breaks
    BY DEF SendRequest, given
  <1>2. link \in DOMAIN conns
    BY <1>1 DEF ExchangeInv, ClientInv
  <1>3. c \in ConnectionType /\ Sound(c, Request, Done) /\ Request \in Nat /\ next_id \in Nat
    BY <1>2, ConnectionOf DEF ExchangeInv, ScalarsTyped
  <1>4. Request # 0
    BY <1>1, EmptySeq DEF ExchangeInv, ScalarsTyped, Request
  <1>5. Greeted(c) /\ Below(c, next_id)
    BY <1>1, <1>2 DEF ExchangeInv, ActiveInv, Active
  <1>6. /\ Sound(d, Request, Done) /\ Greeted(d)
        /\ Below(d, next_id + 2) /\ About(d, next_id, Request)
    BY <1>3, <1>4, <1>5, RequestUpward
  <1>7. One(link, d)
    BY <1>1, <1>2 DEF One, Upward
  <1>8. d \in ConnectionType
    BY <1>6 DEF Sound
  <1> HIDE DEF d
  <1>9. Onward /\ MatchedInv' /\ Request' = Request /\ Done' = Done
    BY <1>1, Unchanged, UnrepliedKeeps DEF ExchangeInv
  <1>10. ConnsSound' /\ DOMAIN conns' = DOMAIN conns
    BY <1>6, <1>7, <1>9, OneSound DEF ExchangeInv
  <1>11. conns'[link] = d
    BY <1>2, <1>7, <1>8, OneConn DEF ExchangeInv, ConnsSound
  <1>12. ScalarsTyped'
    BY <1>1, <1>3 DEF ExchangeInv, ScalarsTyped, Request
  <1>13. ClientInv'
    BY <1>1, <1>2, <1>10 DEF ExchangeInv, ClientInv
  <1>14. \A j \in DOMAIN conns' : Active(j)' => j = link
    BY <1>1 DEF Active, ExchangeInv, ClientInv
  <1>15. next_id' - 2 = next_id
    BY <1>1, <1>3
  <1>16. ActiveInv'
    BY <1>1, <1>6, <1>9, <1>11, <1>14, <1>15 DEF ActiveInv
  <1> QED
    BY <1>9, <1>10, <1>12, <1>13, <1>16 DEF ExchangeInv

LEMMA AttemptLostKeeps ==
    ASSUME ExchangeInv, LoseConnection \/ RequestRefused
    PROVE  ExchangeInv'
  <1>1. /\ phase \in {"request", "await"} /\ conns' = Dropped(link) /\ AttemptFailed
        /\ UNCHANGED <<link, next_id, given, executed, breaks>>
    BY DEF LoseConnection, RequestRefused
  <1>2. /\ Unreplied /\ inner' = 0 /\ phase' \in {"connect", "idle"}
        /\ connects' \in 0 .. MaxRetries /\ attempt' \in 0 .. MaxRetries
    BY <1>1, AttemptFails DEF ExchangeInv
  <1> QED
    BY <1>1, <1>2, GivenUpKeeps

\* The reply: the frame's id says that it answers the request, and a response
\* in flight is one of an executed request.
LEMMA ReplyTaken ==
    ASSUME ExchangeInv, phase = "await", Downward # << >>,
           OfThisStream(Head(Downward)), Head(Downward).type = "Response"
    PROVE  Head(Downward).n = Request /\ Request \in Done /\ Request \in Nat
  <1>1. link \in DOMAIN conns /\ Downward = conns[link].down
    BY DEF ExchangeInv, ClientInv, Downward
  <1>2. /\ conns[link] \in ConnectionType /\ Sound(conns[link], Request, Done)
        /\ Request \in Nat
    BY <1>1, ConnectionOf
  <1>3. Downward \in Seq(FrameType)
    BY <1>1, <1>2, ConnectionTyped
  <1>4. 1 \in DOMAIN Downward /\ Head(Downward) = Downward[1]
    BY <1>3, PartTail
  <1>5. About(conns[link], next_id - 2, Request)
    BY DEF ExchangeInv, ActiveInv
  <1>6. Head(Downward).n = Request
    BY <1>1, <1>4, <1>5 DEF About, OfThisStream
  <1>7. Head(Downward).n \in Done
    BY <1>1, <1>2, <1>4 DEF Sound, DownFrame
  <1> QED
    BY <1>2, <1>6, <1>7

LEMMA AwaitResponseKeeps ==
    ASSUME ExchangeInv, AwaitResponse
    PROVE  ExchangeInv'
  <1> DEFINE c == conns[link]
             f == Head(Downward)
             replied == OfThisStream(f) /\ f.type = "Response"
             closed == OfThisStream(f) /\ f.type = "Close"
  <1>1. /\ phase = "await" /\ Downward # << >>
        /\ UNCHANGED <<link, next_id, given, executed, breaks>>
    BY DEF AwaitResponse
  <1>2. /\ link' = link /\ next_id' = next_id /\ kind' = kind /\ outcome' = outcome
        /\ executed' = executed /\ breaks' = breaks /\ Done' = Done
    BY <1>1 DEF given, Done
  <1>3. link \in DOMAIN conns /\ Downward = c.down
    BY <1>1 DEF ExchangeInv, ClientInv, Downward
  <1>4. c \in ConnectionType /\ Sound(c, Request, Done) /\ Request \in Nat /\ c.down # << >>
    BY <1>1, <1>3, ConnectionOf
  <1>5. CASE replied
    <2>1. /\ Give("ok", f.n) /\ attempt' = attempt /\ connects' = connects
          /\ IF kind = "persistent"
             THEN conns' = [conns EXCEPT ![link].down = Tail(@)] /\ inner' = inner
             ELSE /\ \E i \in 2 .. Len(Downward) + 1 :
                       conns' = [conns EXCEPT ![link].down = SubSeq(@, i, Len(@))]
                  /\ inner' = link
      BY <1>5 DEF AwaitResponse
    <2>2. f.n = Request /\ Request \in Done
      BY <1>1, <1>5, ReplyTaken
    <2>3. Give("ok", Request)
      BY <2>1, <2>2
    <2>4. /\ results' \in Seq(Result) /\ Len(results') = Len(results) /\ results' # << >>
          /\ phase' = "idle"
          /\ \A m \in DOMAIN results' :
               /\ m \in DOMAIN results
               /\ results'[m] = IF m = Request THEN [tag |-> "ok", n |-> Request]
                                               ELSE results[m]
      BY <1>1, <1>4, <2>3, Given DEF ExchangeInv
    <2>5. Request' = Request /\ Onward /\ Request <= MaxRequests
      BY <1>2, <1>4, <2>4 DEF Request, Onward, ExchangeInv, ScalarsTyped
    <2>6. MatchedInv'
      BY <1>2, <2>2, <2>4 DEF ExchangeInv, MatchedInv, Matched
    <2>7. ScalarsTyped'
      BY <1>2, <2>1, <2>4, <2>5 DEF ExchangeInv, ScalarsTyped
    <2>8. PICK d : One(link, d) /\ Sound(d, Request, Done) /\ Descends(c, d)
      <3>1. CASE kind = "persistent"
        <4> DEFINE d == [c EXCEPT !.down = Tail(@)]
        <4>1. One(link, d)
          BY <1>3, <2>1, <3>1 DEF One
        <4>2. Sound(d, Request, Done) /\ Descends(c, d)
          BY <1>4, DownTail
        <4> HIDE DEF d
        <4> QED
          BY <4>1, <4>2
      <3>2. CASE kind # "persistent"
        <4>1. PICK i \in 2 .. Len(c.down) + 1 :
                conns' = [conns EXCEPT ![link].down = SubSeq(@, i, Len(@))]
          BY <1>3, <2>1, <3>2
        <4> DEFINE d == [c EXCEPT !.down = SubSeq(@, i, Len(@))]
        <4>2. One(link, d)
          BY <1>3, <4>1 DEF One
        <4>3. Sound(d, Request, Done) /\ Descends(c, d)
          BY <1>4, DownRead
        <4> HIDE DEF d
        <4> QED
          BY <4>2, <4>3
      <3> QED
        BY <3>1, <3>2
    <2>9. ConnsSound' /\ DOMAIN conns' = DOMAIN conns
      BY <1>2, <2>5, <2>8, OneSound DEF ExchangeInv
    <2>10. ClientInv'
      BY <1>1, <1>2, <1>3, <2>1, <2>4, <2>9 DEF ExchangeInv, ClientInv
    <2>11. ActiveInv'
      <3>1. CASE kind = "persistent"
        <4>1. \A j \in DOMAIN conns : Active(j)' => Active(j)
          BY <1>1, <1>2, <2>1, <2>4, <3>1 DEF Active
        <4>2. StillUsed
          BY <1>2, <2>4, <2>5, <4>1 DEF StillUsed
        <4>3. d \in ConnectionType
          BY <2>8 DEF Sound
        <4> QED
          BY <2>8, <4>2, <4>3, StillActive DEF ExchangeInv
      <3>2. CASE kind # "persistent"
        <4>1. 0 \notin DOMAIN conns'
          BY <2>9, ConnectionsNumbered DEF ExchangeInv
        <4> QED
          BY <1>2, <2>4, <3>2, <4>1, Passive
      <3> QED
        BY <3>1, <3>2
    <2> QED
      BY <2>6, <2>7, <2>9, <2>10, <2>11 DEF ExchangeInv
  <1>6. CASE closed
    <2>1. conns' = Dropped(link) /\ AttemptFailed
      BY <1>6 DEF AwaitResponse
    <2>2. /\ Unreplied /\ inner' = 0 /\ phase' \in {"connect", "idle"}
          /\ connects' \in 0 .. MaxRetries /\ attempt' \in 0 .. MaxRetries
      BY <1>1, <2>1, AttemptFails DEF ExchangeInv
    <2> QED
      BY <1>1, <2>1, <2>2, GivenUpKeeps
  <1>7. CASE ~replied /\ ~closed
    <2> DEFINE d == [c EXCEPT !.down = Tail(@)]
    <2>1. /\ conns' = [conns EXCEPT ![link].down = Tail(@)]
          /\ phase' = phase /\ inner' = inner /\ attempt' = attempt
          /\ connects' = connects /\ results' = results
      BY <1>7 DEF AwaitResponse
    <2>2. One(link, d)
      BY <1>3, <2>1 DEF One
    <2>3. Sound(d, Request, Done) /\ Descends(c, d)
      BY <1>4, DownTail
    <2>4. d \in ConnectionType
      BY <2>3 DEF Sound
    <2> HIDE DEF d
    <2>5. Onward /\ MatchedInv' /\ Request' = Request
      BY <1>1, <1>2, <2>1, Unchanged, UnrepliedKeeps DEF ExchangeInv
    <2>6. ConnsSound' /\ DOMAIN conns' = DOMAIN conns
      BY <1>2, <2>2, <2>3, <2>5, OneSound DEF ExchangeInv
    <2>7. ScalarsTyped'
      BY <1>2, <2>1 DEF ExchangeInv, ScalarsTyped, Request
    <2>8. ClientInv'
      BY <1>2, <2>1, <2>6 DEF ExchangeInv, ClientInv
    <2>9. StillUsed
      BY <1>2, <2>1, <2>5 DEF StillUsed, Active
    <2>10. ActiveInv'
      BY <2>2, <2>3, <2>4, <2>9, StillActive DEF ExchangeInv
    <2> QED
      BY <2>5, <2>6, <2>7, <2>8, <2>10 DEF ExchangeInv
  <1> QED
    BY <1>5, <1>6, <1>7

-----------------------------------------------------------------------------
(* The theorems.                                                           *)

LEMMA InitInvariant ==
    ASSUME ExchangeInit
    PROVE  ExchangeInv
  <1>1. /\ conns = << >> /\ results = << >> /\ executed = << >>
        /\ phase = "idle" /\ inner = 0 /\ link = 0
    BY DEF ExchangeInit
  <1>2. /\ << >> \in Seq(ConnectionType) /\ << >> \in Seq(Result)
        /\ << >> \in Seq(1 .. MaxRequests) /\ DOMAIN << >> = {} /\ Len(<< >>) = 0
    OBVIOUS
  <1>3. ScalarsTyped
    BY <1>2, ExchangeAssumption DEF ExchangeInit, ScalarsTyped, Request
  <1>4. ClientInv /\ ConnsSound /\ ActiveInv /\ MatchedInv
    BY <1>1, <1>2 DEF ClientInv, ConnsSound, ActiveInv, MatchedInv
  <1> QED
    BY <1>3, <1>4 DEF ExchangeInv

LEMMA StepKeeps ==
    ASSUME ExchangeInv, [ExchangeNext]_exchangeVars
    PROVE  ExchangeInv'
  <1>1. CASE ClientStep
    BY <1>1, ConnectKeeps, AwaitWelcomeKeeps, SendRequestKeeps, AwaitResponseKeeps,
       AttemptLostKeeps DEF ClientStep
  <1>2. CASE \E k \in DOMAIN conns : ServerStep(k) \/ Break(k)
    BY <1>2, ServeRequestKeeps, ServeHelloKeeps, ServeEndKeeps, BreakKeeps DEF ServerStep
  <1>3. CASE UNCHANGED exchangeVars
    <2>1. /\ conns' = conns /\ UNCHANGED clientVars /\ UNCHANGED given
          /\ executed' = executed /\ breaks' = breaks
      BY <1>3 DEF exchangeVars
    <2>2. ScalarsTyped' /\ ClientInv'
      BY <2>1 DEF ExchangeInv, ScalarsTyped, ClientInv, clientVars, given, Request
    <2>3. ConnsSound' /\ MatchedInv'
      BY <2>1 DEF ExchangeInv, ConnsSound, MatchedInv, Matched, Done, clientVars, Request
    <2>4. ActiveInv'
      BY <2>1, SameUse, StillUnchanged DEF ExchangeInv
    <2> QED
      BY <2>2, <2>3, <2>4 DEF ExchangeInv
  <1> QED
    BY <1>1, <1>2, <1>3, SendKeeps, SendMessageKeeps, BuildStreamKeeps,
       ConnectRefusedKeeps DEF ExchangeNext

\* The types, the order of the greetings, the ids and the results, together.
THEOREM ExchangeInvariant == ExchangeSpec => []ExchangeInv
  <1>1. ExchangeInit => ExchangeInv
    BY InitInvariant
  <1>2. ExchangeInv /\ [ExchangeNext]_exchangeVars => ExchangeInv'
    BY StepKeeps
  <1> QED
    BY <1>1, <1>2, PTL DEF ExchangeSpec

\* Every variable keeps its type, and the client uses only connections there are.
THEOREM ExchangeTypesHold == ExchangeSpec => []ExchangeTypeOK
  <1>1. ExchangeInv => ExchangeTypeOK
    BY DEF ExchangeInv, ScalarsTyped, ClientInv, ConnsSound, ExchangeTypeOK, Result
  <1> QED
    BY <1>1, ExchangeInvariant, PTL

LEMMA DoneIsExecuted ==
    ASSUME executed \in Seq(1 .. MaxRequests), NEW n \in Done
    PROVE  Executions(n) >= 1
  <1> DEFINE I == {i \in DOMAIN executed : executed[i] = n}
  <1>1. Len(executed) \in Nat /\ DOMAIN executed = 1 .. Len(executed)
    BY LenProperties
  <1>2. IsFiniteSet(1 .. Len(executed))
    BY <1>1, FS_Interval
  <1>3. IsFiniteSet(I)
    BY <1>1, <1>2, FS_Subset
  <1>4. I # {}
    BY DEF Done
  <1>5. Cardinality(I) \in Nat /\ Cardinality(I) # 0
    BY <1>3, <1>4, FS_CardinalityType, FS_EmptySet
  <1> QED
    BY <1>5 DEF Executions

\* A reply that the caller of send or send_message gets is the reply to its own
\* request, which a handler has executed, whatever broke or was left over.
THEOREM RepliesMatchHolds == ExchangeSpec => []RepliesMatch
  <1>1. ExchangeInv => RepliesMatch
    BY DoneIsExecuted DEF ExchangeInv, ScalarsTyped, MatchedInv, Matched, RepliesMatch
  <1> QED
    BY <1>1, ExchangeInvariant, PTL
=============================================================================
