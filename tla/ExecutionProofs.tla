-------------------------- MODULE ExecutionProofs --------------------------
(***************************************************************************)
(* More proofs about RequestReply, for any number of requests, retries,    *)
(* connections and breaks: how often a request may be executed, and what   *)
(* PersistentClient promises as long as nothing breaks.                    *)
(***************************************************************************)
EXTENDS RequestReplyProofs

-----------------------------------------------------------------------------
(* The requests that a task may still read.                                *)

Asks(c, n) == \E i \in DOMAIN c.up : c.up[i].type = "Request" /\ c.up[i].n = n

\* A connection carries a request once: a retry goes out on another one.
AskedOnce(c) ==
    \A i, j \in DOMAIN c.up :
        c.up[i].type = "Request" /\ c.up[j].type = "Request" /\ c.up[i].n = c.up[j].n
            => i = j

\* Requests are read or lost, at the front or at the end.
Fewer(c, d) ==
    \E m \in {0, 1} : \A i \in DOMAIN d.up :
        d.up[i].type = "Request" => i + m \in DOMAIN c.up /\ d.up[i] = c.up[i + m]

LEMMA FewerAsks ==
    ASSUME NEW c, NEW d \in ConnectionType, AskedOnce(c), Fewer(c, d)
    PROVE  AskedOnce(d) /\ \A n : Asks(d, n) => Asks(c, n)
  <1>1. PICK m \in {0, 1} : \A i \in DOMAIN d.up :
          d.up[i].type = "Request" => i + m \in DOMAIN c.up /\ d.up[i] = c.up[i + m]
    BY DEF Fewer
  <1>2. \A i \in DOMAIN d.up : i \in Nat
    BY ConnectionTyped
  <1>3. AskedOnce(d)
    <2> SUFFICES ASSUME NEW i \in DOMAIN d.up, NEW j \in DOMAIN d.up,
                        d.up[i].type = "Request", d.up[j].type = "Request",
                        d.up[i].n = d.up[j].n
                 PROVE  i = j
      BY DEF AskedOnce
    <2>1. i + m = j + m
      BY <1>1 DEF AskedOnce
    <2> QED
      BY <1>2, <2>1
  <1>4. \A n : Asks(d, n) => Asks(c, n)
    BY <1>1 DEF Asks
  <1> QED
    BY <1>3, <1>4

LEMMA FewerUp ==
    ASSUME NEW c \in ConnectionType, NEW d
    PROVE  /\ d.up = c.up => Fewer(c, d)
           /\ d.up = << >> => Fewer(c, d)
           /\ c.up # << >> /\ d.up = Tail(c.up) => Fewer(c, d)
           /\ d.up = c.up \o <<Hello>> => Fewer(c, d)
           /\ \A i \in 0 .. Len(c.up) : d.up = SubSeq(c.up, 1, i) => Fewer(c, d)
  <1>1. /\ c.up \in Seq(FrameType) /\ Len(c.up) \in Nat
        /\ DOMAIN c.up = 1 .. Len(c.up)
    BY ConnectionTyped
  <1>2. d.up = c.up => Fewer(c, d)
    BY <1>1 DEF Fewer
  <1>3. d.up = << >> => Fewer(c, d)
    BY DEF Fewer
  <1>4. ASSUME c.up # << >>, d.up = Tail(c.up)
        PROVE  Fewer(c, d)
    <2>1. \A x \in DOMAIN d.up : x + 1 \in DOMAIN c.up /\ d.up[x] = c.up[x + 1]
      BY <1>1, <1>4, PartTail
    <2> QED
      BY <2>1 DEF Fewer
  <1>5. ASSUME d.up = c.up \o <<Hello>>
        PROVE  Fewer(c, d)
    <2>1. Hello \in FrameType /\ Hello.type # "Request"
      BY Greetings
    <2>2. \A x \in DOMAIN d.up : (x \in DOMAIN c.up /\ d.up[x] = c.up[x]) \/ d.up[x] = Hello
      BY <1>1, <1>5, <2>1, Behind
    <2>3. \A x \in DOMAIN c.up : x + 0 = x
      BY <1>1
    <2> QED
      BY <2>1, <2>2, <2>3 DEF Fewer
  <1>6. ASSUME NEW i \in 0 .. Len(c.up), d.up = SubSeq(c.up, 1, i)
        PROVE  Fewer(c, d)
    <2>1. /\ d.up \in Seq(FrameType)
          /\ \A x \in DOMAIN d.up : 1 + x - 1 \in DOMAIN c.up /\ d.up[x] = c.up[1 + x - 1]
      BY <1>1, <1>6, Part
    <2>2. \A x \in DOMAIN d.up : 1 + x - 1 = x + 0
      BY <2>1, LenProperties
    <2>3. \A x \in DOMAIN d.up : x + 0 \in DOMAIN c.up /\ d.up[x] = c.up[x + 0]
      BY <2>1, <2>2
    <2> QED
      BY <2>3 DEF Fewer
  <1> QED
    BY <1>2, <1>3, <1>4, <1>5, <1>6

-----------------------------------------------------------------------------
(* Counting.                                                               *)

\* The connections that still carry request n, and the executions of it.
Holders(n) == {k \in DOMAIN conns : Asks(conns[k], n)}
Runs(n) == {i \in DOMAIN executed : executed[i] = n}
Spent(n) == Executions(n) + Leftover(n)

\* What request n may have cost by now: an attempt whose request is not sent
\* yet has cost nothing.
Allowed(n) ==
    IF n # Request THEN Attempts
    ELSE IF phase \in {"connect", "welcome", "request"} THEN attempt ELSE attempt + 1

\* What the request under way may have cost.
Owed == Allowed(Request)

SpentInv ==
    /\ \A k \in DOMAIN conns : AskedOnce(conns[k])
    /\ phase = "request" => ~Asks(conns[link], Request)
    /\ kind = "resilient" => attempt = 0
    /\ \A i \in DOMAIN executed : executed[i] <= Request
    /\ \A n \in DOMAIN results : Spent(n) <= Allowed(n)

LEMMA Counting ==
    ASSUME conns \in Seq(ConnectionType), executed \in Seq(1 .. MaxRequests), NEW n
    PROVE  /\ IsFiniteSet(Holders(n)) /\ Leftover(n) = Cardinality(Holders(n))
           /\ IsFiniteSet(Runs(n)) /\ Executions(n) = Cardinality(Runs(n))
           /\ Leftover(n) \in Nat /\ Executions(n) \in Nat
  <1>1. /\ Len(conns) \in Nat /\ DOMAIN conns = 1 .. Len(conns)
        /\ Len(executed) \in Nat /\ DOMAIN executed = 1 .. Len(executed)
    BY LenProperties
  <1>2. IsFiniteSet(DOMAIN conns) /\ IsFiniteSet(DOMAIN executed)
    BY <1>1, FS_Interval
  <1>3. IsFiniteSet(Holders(n))
    BY <1>2, FS_Subset DEF Holders
  <1>4. IsFiniteSet(Runs(n))
    BY <1>2, FS_Subset DEF Runs
  <1>5. Leftover(n) = Cardinality(Holders(n)) /\ Executions(n) = Cardinality(Runs(n))
    BY DEF Leftover, Holders, Asks, Executions, Runs
  <1> QED
    BY <1>3, <1>4, <1>5, FS_CardinalityType

\* No request is added, and none asked for twice.
Recedes ==
    \A k \in DOMAIN conns' :
        /\ AskedOnce(conns'[k])
        /\ \A n : Asks(conns'[k], n) => k \in DOMAIN conns /\ Asks(conns[k], n)

LEMMA OneMore ==
    ASSUME NEW S, NEW x, IsFiniteSet(S)
    PROVE  /\ IsFiniteSet(S \cup {x})
           /\ Cardinality(S \cup {x}) <= Cardinality(S) + 1
  <1>1. /\ IsFiniteSet(S \cup {x})
        /\ Cardinality(S \cup {x}) = IF x \in S THEN Cardinality(S) ELSE Cardinality(S) + 1
    BY FS_AddElement
  <1>2. Cardinality(S) \in Nat
    BY FS_CardinalityType
  <1> QED
    BY <1>1, <1>2

LEMMA RecedesCounts ==
    ASSUME conns \in Seq(ConnectionType), executed \in Seq(1 .. MaxRequests),
           Recedes, NEW n
    PROVE  Holders(n)' \subseteq Holders(n) /\ Leftover(n)' <= Leftover(n)
  <1>1. Holders(n)' \subseteq Holders(n)
    BY DEF Recedes, Holders
  <1>2. Leftover(n) = Cardinality(Holders(n)) /\ IsFiniteSet(Holders(n))
    BY Counting
  <1>3. Leftover(n)' = Cardinality(Holders(n)')
    BY DEF Leftover, Holders, Asks
  <1> QED
    BY <1>1, <1>2, <1>3, FS_Subset

LEMMA OneRecedes ==
    ASSUME conns \in Seq(ConnectionType), SpentInv, NEW k, NEW d \in ConnectionType,
           One(k, d), Fewer(conns[k], d)
    PROVE  Recedes
  <1>1. /\ DOMAIN conns' = DOMAIN conns
        /\ \A j \in DOMAIN conns : conns'[j] = IF j = k THEN d ELSE conns[j]
    BY OneConn
  <1>2. AskedOnce(d) /\ \A n : Asks(d, n) => Asks(conns[k], n)
    BY FewerAsks DEF SpentInv, One
  <1> QED
    BY <1>1, <1>2 DEF Recedes, SpentInv

LEMMA SameRecedes ==
    ASSUME SpentInv, conns' = conns
    PROVE  Recedes
  BY DEF Recedes, SpentInv

LEMMA NewRecedes ==
    ASSUME conns \in Seq(ConnectionType), SpentInv, NEW frames \in {<< >>, <<Hello>>},
           conns' = Append(conns, NewConnection(frames))
    PROVE  Recedes
  <1> DEFINE d == NewConnection(frames)
  <1>1. \A i \in DOMAIN frames : i = 1 /\ frames[i].type # "Request"
    <2>1. Hello.type # "Request"
      BY Greetings
    <2>2. CASE frames = << >>
      BY <2>2
    <2>3. CASE frames = <<Hello>>
      BY <2>1, <2>3
    <2> QED
      BY <2>2, <2>3
  <1>2. d.up = frames
    BY DEF NewConnection
  <1>3. AskedOnce(d) /\ \A n : ~Asks(d, n)
    BY <1>1, <1>2 DEF AskedOnce, Asks
  <1>4. d \in ConnectionType
    <2>1. << >> \in Seq(FrameType) /\ frames \in Seq(FrameType)
      <3>1. << >> \in Seq(FrameType)
        OBVIOUS
      <3>2. <<Hello>> \in Seq(FrameType)
        BY Greetings
      <3> QED
        BY <3>1, <3>2
    <2> QED
      BY <2>1 DEF NewConnection, ConnectionType
  <1> HIDE DEF d
  <1>5. /\ Len(conns) \in Nat /\ DOMAIN conns = 1 .. Len(conns) /\ conns' = Append(conns, d)
    BY LenProperties DEF d
  <1>6. /\ conns' \in Seq(ConnectionType) /\ Len(conns') = Len(conns) + 1
        /\ \A j \in 1 .. Len(conns) : conns'[j] = conns[j]
        /\ conns'[Len(conns) + 1] = d
    BY <1>4, <1>5, AppendProperties
  <1>7. \A j \in DOMAIN conns' : j \in DOMAIN conns \/ j = Len(conns) + 1
    BY <1>5, <1>6, LenProperties
  <1>8. \A j \in DOMAIN conns : conns'[j] = conns[j]
    BY <1>5, <1>6
  <1> QED
    BY <1>3, <1>6, <1>7, <1>8 DEF Recedes, SpentInv

-----------------------------------------------------------------------------
(* The steps that add no copy of a request and execute none.               *)

LEMMA AllowedNat ==
    ASSUME ExchangeInv, NEW n
    PROVE  Allowed(n) \in Nat /\ Attempts \in Nat
  BY ExchangeAssumption DEF ExchangeInv, ScalarsTyped, Allowed, Attempts

LEMMA CalmKeeps ==
    ASSUME ExchangeInv, ExchangeInv', SpentInv, Recedes, executed' = executed,
           kind' = kind, Len(results') = Len(results),
           kind = "resilient" => attempt' = 0,
           phase' = "request" => ~Asks(conns'[link'], Request),
           Owed <= Owed'
    PROVE  SpentInv'
  <1>1. /\ conns \in Seq(ConnectionType) /\ executed \in Seq(1 .. MaxRequests)
        /\ conns' \in Seq(ConnectionType) /\ executed' \in Seq(1 .. MaxRequests)
        /\ results \in Seq(Result) /\ results' \in Seq(Result)
    BY DEF ExchangeInv, ScalarsTyped, ConnsSound
  <1>2. Request' = Request /\ DOMAIN results' = DOMAIN results
    BY <1>1, LenProperties DEF Request
  <1>3. ASSUME NEW n \in DOMAIN results
        PROVE  Spent(n)' <= Allowed(n)'
    <2>1. Executions(n)' = Executions(n)
      BY DEF Executions
    <2>2. Leftover(n)' <= Leftover(n) /\ Leftover(n) \in Nat /\ Executions(n) \in Nat
      BY <1>1, RecedesCounts, Counting
    <2>3. Leftover(n)' \in Nat
      <3>1. IsFiniteSet(Holders(n)) /\ Holders(n)' \subseteq Holders(n)
        BY <1>1, RecedesCounts, Counting
      <3>2. Leftover(n)' = Cardinality(Holders(n)')
        BY DEF Leftover, Holders, Asks
      <3> QED
        BY <3>1, <3>2, FS_Subset, FS_CardinalityType
    <2>4. Spent(n) <= Allowed(n) /\ Allowed(n) \in Nat
      BY AllowedNat DEF SpentInv
    <2>5. Allowed(n) <= Allowed(n)' /\ Allowed(n)' \in Nat
      <3>1. attempt' \in Nat /\ MaxRetries \in Nat
        <4>1. (attempt \in 0 .. MaxRetries)'
          BY DEF ExchangeInv, ScalarsTyped
        <4> QED
          BY <4>1, ExchangeAssumption
      <3>2. CASE n = Request
        <4>1. Owed' = attempt' \/ Owed' = attempt' + 1
          BY Zenon DEF Owed, Allowed
        <4>2. Owed' \in Nat
          BY <3>1, <4>1
        <4>3. Request' = n
          BY <1>2, <3>2
        <4>4. Allowed(n)' = Owed'
          BY <4>3, Zenon DEF Owed, Allowed
        <4>5. Allowed(n) = Owed
          BY <3>2 DEF Owed
        <4> QED
          BY <4>2, <4>4, <4>5
      <3>3. CASE n # Request
        <4>1. Allowed(n)' = Allowed(n)
          BY <1>2, <3>3 DEF Allowed, Attempts
        <4> QED
          BY <2>4, <4>1
      <3> QED
        BY <3>2, <3>3
    <2> QED
      BY <2>1, <2>2, <2>3, <2>4, <2>5 DEF Spent
  <1>4. \A k \in DOMAIN conns' : AskedOnce(conns'[k])
    BY DEF Recedes
  <1> QED
    BY <1>2, <1>3, <1>4 DEF SpentInv

\* The task reads a Hello or the end, or the connection breaks.
LEMMA ServerCalm ==
    ASSUME ExchangeInv, ExchangeInv', SpentInv, UNCHANGED clientVars, UNCHANGED given,
           executed' = executed,
           NEW k, NEW d \in ConnectionType, One(k, d), Fewer(conns[k], d)
    PROVE  SpentInv'
  <1>1. conns \in Seq(ConnectionType)
    BY DEF ExchangeInv, ConnsSound
  <1>2. Recedes /\ DOMAIN conns' = DOMAIN conns
    BY <1>1, OneRecedes, OneConn
  <1>3. /\ phase' = phase /\ link' = link /\ attempt' = attempt /\ results' = results
        /\ kind' = kind
    BY DEF clientVars, given
  <1>4. phase' = "request" => ~Asks(conns'[link'], Request)
    BY <1>2, <1>3 DEF Recedes, SpentInv, ExchangeInv, ClientInv
  <1>5. Owed' = Owed
    BY <1>3 DEF Owed, Allowed, Request, Attempts
  <1>6. Owed <= Owed'
    BY <1>5, AllowedNat DEF Owed
  <1>7. kind = "resilient" => attempt' = 0
    BY <1>3 DEF SpentInv
  <1> QED
    BY <1>2, <1>3, <1>4, <1>6, <1>7, CalmKeeps

LEMMA ServeHelloCalm ==
    ASSUME ExchangeInv, ExchangeInv', SpentInv, NEW k \in DOMAIN conns, ServeHello(k)
    PROVE  SpentInv'
  <1> DEFINE c == conns[k]
             rest == [c EXCEPT !.up = Tail(@)]
             d == IF c.server = "AwaitingHello"
                  THEN Written([rest EXCEPT !.server = "Established"], <<Welcome>>)
                  ELSE Ended(rest)
  <1>1. /\ c.up # << >> /\ UNCHANGED clientVars /\ UNCHANGED given
        /\ executed' = executed /\ One(k, d)
    BY DEF ServeHello, One
  <1>2. c \in ConnectionType /\ Sound(c, Request, Done) /\ Request \in Nat
    BY ConnectionOf
  <1>3. d \in ConnectionType
    <2>1. CASE c.server = "AwaitingHello"
      BY <1>1, <1>2, <2>1, WelcomeWritten DEF Sound
    <2>2. CASE c.server # "AwaitingHello"
      BY <1>1, <1>2, <2>2, EndsShrink DEF Shrinks
    <2> QED
      BY <2>1, <2>2
  <1>4. d.up = Tail(c.up) \/ d.up = << >>
    BY <1>2 DEF Written, Ended, ConnectionType
  <1> HIDE DEF d
  <1>5. Fewer(c, d)
    BY <1>1, <1>2, <1>4, FewerUp
  <1> QED
    BY <1>1, <1>3, <1>5, ServerCalm

LEMMA ServeEndCalm ==
    ASSUME ExchangeInv, ExchangeInv', SpentInv, NEW k \in DOMAIN conns, ServeEnd(k)
    PROVE  SpentInv'
  <1> DEFINE d == Ended(conns[k])
  <1>1. /\ UNCHANGED clientVars /\ UNCHANGED given
        /\ executed' = executed /\ One(k, d)
    BY DEF ServeEnd, One
  <1>2. conns[k] \in ConnectionType
    BY ConnectionOf
  <1>3. d \in ConnectionType
    BY <1>2, EndsShrink DEF Shrinks
  <1>4. d.up = << >>
    BY <1>2 DEF Ended, ConnectionType
  <1> HIDE DEF d
  <1>5. Fewer(conns[k], d)
    BY <1>2, <1>4, FewerUp
  <1> QED
    BY <1>1, <1>3, <1>5, ServerCalm

LEMMA BreakCalm ==
    ASSUME ExchangeInv, ExchangeInv', SpentInv, NEW k \in DOMAIN conns, Break(k)
    PROVE  SpentInv'
  <1>1. conns[k] \in ConnectionType
    BY ConnectionOf
  <1>2. PICK i \in 0 .. Len(conns[k].up), j \in 0 .. Len(conns[k].down) :
          conns' = [conns EXCEPT ![k].up = SubSeq(@, 1, i), ![k].up_open = FALSE,
                                 ![k].down = SubSeq(@, 1, j), ![k].down_open = FALSE]
    BY DEF Break
  <1> DEFINE d == [conns[k] EXCEPT !.up = SubSeq(@, 1, i), !.up_open = FALSE,
                                   !.down = SubSeq(@, 1, j), !.down_open = FALSE]
  <1>3. One(k, d)
    BY <1>2 DEF One
  <1>4. UNCHANGED clientVars /\ UNCHANGED given /\ executed' = executed
    BY DEF Break
  <1>5. d \in ConnectionType
    BY <1>1, EndsShrink DEF Shrinks
  <1>6. d.up = SubSeq(conns[k].up, 1, i)
    BY <1>1 DEF ConnectionType
  <1> HIDE DEF d
  <1>7. Fewer(conns[k], d)
    BY <1>1, <1>6, FewerUp
  <1> QED
    BY <1>3, <1>4, <1>5, <1>7, ServerCalm

\* What a failure leaves of the exchange.
LEMMA FailureAllows ==
    ASSUME ExchangeInv, SpentInv, Len(results') = Len(results), kind' = kind,
           \/ phase \in {"connect", "welcome"} /\ ConnectFailed /\ attempt' = attempt
           \/ phase = "welcome" /\ kind # "persistent" /\ AttemptFailed
           \/ phase \in {"request", "await"} /\ AttemptFailed
    PROVE  /\ kind = "resilient" => attempt' = 0
           /\ Owed <= Owed'
           /\ phase' # "request"
  <1>1. Request' = Request /\ attempt \in Nat /\ kind \in {"persistent", "resilient"}
    BY DEF Request, ExchangeInv, ScalarsTyped
  <1>2. CASE phase \in {"connect", "welcome"} /\ ConnectFailed /\ attempt' = attempt
    <2>1. phase' \in {"connect", "idle"}
      BY <1>2 DEF ConnectFailed, Give
    <2> QED
      BY <1>1, <1>2, <2>1 DEF Owed, Allowed, SpentInv
  <1>3. CASE phase \in {"welcome", "request", "await"} /\ AttemptFailed
    <2>1. CASE kind = "persistent" /\ attempt < MaxRetries
      <3>1. attempt' = attempt + 1 /\ phase' = "connect"
        BY <1>3, <2>1 DEF AttemptFailed
      <3> QED
        BY <1>1, <1>3, <2>1, <3>1 DEF Owed, Allowed
    <2>2. CASE ~(kind = "persistent" /\ attempt < MaxRetries)
      <3>1. attempt' = attempt /\ phase' = "idle"
        BY <1>3, <2>2 DEF AttemptFailed, Give
      <3> QED
        BY <1>1, <1>3, <3>1 DEF Owed, Allowed, SpentInv
    <2> QED
      BY <2>1, <2>2
  <1> QED
    BY <1>2, <1>3

LEMMA ConnectRefusedCalm ==
    ASSUME ExchangeInv, ExchangeInv', SpentInv, ConnectRefused
    PROVE  SpentInv'
  <1>1. /\ phase = "connect" /\ ConnectFailed /\ attempt' = attempt
        /\ conns' = conns /\ kind' = kind /\ executed' = executed
    BY DEF ConnectRefused, given
  <1>2. Len(results') = Len(results)
    BY <1>1, ConnectFails DEF ExchangeInv, Unreplied
  <1> QED
    BY <1>1, <1>2, FailureAllows, SameRecedes, CalmKeeps

\* The client gives a connection up.
LEMMA GivenUpCalm ==
    ASSUME ExchangeInv, ExchangeInv', SpentInv, conns' = Dropped(link),
           executed' = executed, kind' = kind,
           \/ phase = "welcome" /\ ConnectFailed /\ attempt' = attempt
           \/ phase = "welcome" /\ kind # "persistent" /\ AttemptFailed
           \/ phase \in {"request", "await"} /\ AttemptFailed
    PROVE  SpentInv'
  <1> DEFINE d == [conns[link] EXCEPT !.up_open = FALSE, !.down = << >>, !.down_open = FALSE]
  <1>1. link \in DOMAIN conns
    BY DEF ExchangeInv, ClientInv
  <1>2. One(link, d)
    BY <1>1 DEF One, Dropped
  <1>3. conns[link] \in ConnectionType /\ conns \in Seq(ConnectionType)
    BY <1>1, ConnectionOf DEF ExchangeInv, ConnsSound
  <1>4. d \in ConnectionType
    BY <1>3, EndsShrink DEF Shrinks
  <1>5. d.up = conns[link].up
    BY <1>3 DEF ConnectionType
  <1> HIDE DEF d
  <1>6. Recedes
    BY <1>2, <1>3, <1>4, <1>5, FewerUp, OneRecedes
  <1>7. Len(results') = Len(results)
    BY ConnectFails, AttemptFails DEF ExchangeInv, Unreplied
  <1> QED
    BY <1>6, <1>7, FailureAllows, CalmKeeps

LEMMA ConnectCalm ==
    ASSUME ExchangeInv, ExchangeInv', SpentInv, Connect
    PROVE  SpentInv'
  <1>1. /\ phase = "connect" /\ conns' = Append(conns, NewConnection(<<Hello>>))
        /\ phase' = "welcome" /\ attempt' = attempt /\ results' = results
        /\ kind' = kind /\ executed' = executed
    BY DEF Connect, given
  <1>2. conns \in Seq(ConnectionType)
    BY DEF ExchangeInv, ConnsSound
  <1>3. Recedes
    BY <1>1, <1>2, NewRecedes
  <1>4. Owed' = Owed
    BY <1>1 DEF Owed, Allowed, Request
  <1>5. Owed <= Owed'
    BY <1>4, AllowedNat DEF Owed
  <1>6. phase' # "request" /\ Len(results') = Len(results)
    BY <1>1
  <1>7. kind = "resilient" => attempt' = 0
    BY <1>1 DEF SpentInv
  <1> QED
    BY <1>1, <1>3, <1>5, <1>6, <1>7, CalmKeeps

LEMMA BuildStreamCalm ==
    ASSUME ExchangeInv, ExchangeInv', SpentInv, BuildStream
    PROVE  SpentInv'
  <1>1. /\ phase = "idle" /\ conns' = Append(conns, NewConnection(<< >>))
        /\ phase' = "idle" /\ attempt' = attempt /\ results' = results
        /\ kind' = kind /\ executed' = executed
    BY DEF BuildStream, given
  <1>2. conns \in Seq(ConnectionType)
    BY DEF ExchangeInv, ConnsSound
  <1>3. Recedes
    BY <1>1, <1>2, NewRecedes
  <1>4. Owed' = Owed
    BY <1>1 DEF Owed, Allowed, Request
  <1>5. Owed <= Owed'
    BY <1>4, AllowedNat DEF Owed
  <1>6. phase' # "request" /\ Len(results') = Len(results)
    BY <1>1
  <1>7. kind = "resilient" => attempt' = 0
    BY <1>1 DEF SpentInv
  <1> QED
    BY <1>1, <1>3, <1>5, <1>6, <1>7, CalmKeeps

LEMMA AwaitWelcomeCalm ==
    ASSUME ExchangeInv, ExchangeInv', SpentInv, AwaitWelcome
    PROVE  SpentInv'
  <1> DEFINE c == conns[link]
             welcomed == ~EndOfStream /\ Head(Downward) = Welcome
  <1>1. /\ phase = "welcome" /\ (Downward # << >> \/ EndOfStream)
        /\ link' = link /\ executed' = executed /\ kind' = kind
    BY DEF AwaitWelcome, given
  <1>2. link \in DOMAIN conns /\ Downward = c.down
    BY <1>1 DEF ExchangeInv, ClientInv, Downward
  <1>3. /\ c \in ConnectionType /\ Sound(c, Request, Done) /\ Request \in Nat
        /\ conns \in Seq(ConnectionType)
    BY <1>2, ConnectionOf DEF ExchangeInv, ConnsSound
  <1>4. CASE welcomed
    <2> DEFINE d == [c EXCEPT !.down = Tail(@)]
    <2>1. /\ conns' = [conns EXCEPT ![link].down = Tail(@)]
          /\ phase' = "request" /\ attempt' = attempt /\ results' = results
      BY <1>4 DEF AwaitWelcome
    <2>2. c.down # << >> /\ Head(c.down) = Welcome
      BY <1>1, <1>2, <1>4
    <2>3. Sound(d, Request, Done)
      BY <1>3, <2>2, DownTail
    <2>4. One(link, d) /\ d \in ConnectionType /\ d.up = c.up
      BY <1>2, <1>3, <2>1, <2>3 DEF One, Sound, ConnectionType
    <2> HIDE DEF d
    <2>5. ~Greeted(c)
      <3>1. c.down \in Seq(FrameType)
        BY <1>3, ConnectionTyped
      <3>2. 1 \in DOMAIN c.down /\ c.down[1] = Welcome
        BY <2>2, <3>1, PartTail
      <3> QED
        BY <3>2 DEF Greeted
    <2>6. ~Asks(c, Request)
      BY <1>3, <2>5 DEF Sound, Asks
    <2>7. Recedes /\ conns'[link] = d
      BY <1>2, <1>3, <2>4, FewerUp, OneRecedes, OneConn
    <2>8. ~Asks(conns'[link'], Request)
      BY <1>1, <2>4, <2>6, <2>7 DEF Asks
    <2>9. Owed' = Owed
      BY <1>1, <2>1 DEF Owed, Allowed, Request
    <2>10. Owed <= Owed' /\ Len(results') = Len(results)
      BY <2>1, <2>9, AllowedNat DEF Owed
    <2>11. kind = "resilient" => attempt' = 0
      BY <2>1 DEF SpentInv
    <2> QED
      BY <1>1, <2>7, <2>8, <2>10, <2>11, CalmKeeps
  <1>5. CASE ~welcomed
    <2>1. /\ conns' = Dropped(link)
          /\ IF kind = "persistent"
             THEN ConnectFailed /\ attempt' = attempt
             ELSE AttemptFailed
      BY <1>5 DEF AwaitWelcome
    <2> QED
      BY <1>1, <2>1, GivenUpCalm
  <1> QED
    BY <1>4, <1>5

LEMMA AwaitResponseCalm ==
    ASSUME ExchangeInv, ExchangeInv', SpentInv, AwaitResponse
    PROVE  SpentInv'
  <1> DEFINE c == conns[link]
             f == Head(Downward)
             replied == OfThisStream(f) /\ f.type = "Response"
             closed == OfThisStream(f) /\ f.type = "Close"
  <1>1. /\ phase = "await" /\ Downward # << >>
        /\ link' = link /\ executed' = executed /\ kind' = kind
    BY DEF AwaitResponse, given
  <1>2. link \in DOMAIN conns /\ Downward = c.down
    BY <1>1 DEF ExchangeInv, ClientInv, Downward
  <1>3. /\ c \in ConnectionType /\ Sound(c, Request, Done) /\ Request \in Nat
        /\ conns \in Seq(ConnectionType) /\ c.down # << >>
    BY <1>1, <1>2, ConnectionOf DEF ExchangeInv, ConnsSound
  <1>4. CASE closed
    <2>1. conns' = Dropped(link) /\ AttemptFailed
      BY <1>4 DEF AwaitResponse
    <2> QED
      BY <1>1, <2>1, GivenUpCalm
  <1>5. CASE ~closed
    <2>1. /\ attempt' = attempt /\ phase' \in {"idle", "await"}
          /\ Len(results') = Len(results)
      <3>1. CASE replied
        <4>1. Give("ok", f.n) /\ attempt' = attempt
          BY <3>1 DEF AwaitResponse
        <4>2. phase' = "idle" /\ Len(results') = Len(results)
          BY <4>1, LenProperties DEF Give, ExchangeInv, ScalarsTyped
        <4> QED
          BY <4>1, <4>2
      <3>2. CASE ~replied
        BY <1>1, <1>5, <3>2 DEF AwaitResponse
      <3> QED
        BY <3>1, <3>2
    <2>2. PICK d : One(link, d) /\ Sound(d, Request, Done) /\ d.up = c.up
      <3>1. CASE conns' = [conns EXCEPT ![link].down = Tail(@)]
        <4> DEFINE d == [c EXCEPT !.down = Tail(@)]
        <4>1. One(link, d) /\ d.up = c.up
          BY <1>2, <1>3, <3>1 DEF One, ConnectionType
        <4>2. Sound(d, Request, Done)
          BY <1>3, DownTail
        <4> HIDE DEF d
        <4> QED
          BY <4>1, <4>2
      <3>2. CASE \E i \in 2 .. Len(Downward) + 1 :
                   conns' = [conns EXCEPT ![link].down = SubSeq(@, i, Len(@))]
        <4>1. PICK i \in 2 .. Len(c.down) + 1 :
                conns' = [conns EXCEPT ![link].down = SubSeq(@, i, Len(@))]
          BY <1>2, <3>2
        <4> DEFINE d == [c EXCEPT !.down = SubSeq(@, i, Len(@))]
        <4>2. One(link, d) /\ d.up = c.up
          BY <1>2, <1>3, <4>1 DEF One, ConnectionType
        <4>3. Sound(d, Request, Done)
          BY <1>3, DownRead
        <4> HIDE DEF d
        <4> QED
          BY <4>2, <4>3
      <3> QED
        BY <1>5, <3>1, <3>2 DEF AwaitResponse
    <2>3. Recedes
      BY <1>3, <2>2, FewerUp, OneRecedes DEF Sound
    <2>4. Request' = Request
      BY <2>1 DEF Request
    <2>5. Owed' = Owed
      BY <1>1, <2>1, <2>4 DEF Owed, Allowed
    <2>6. Owed <= Owed'
      BY <2>5, AllowedNat DEF Owed
    <2>7. kind = "resilient" => attempt' = 0
      BY <2>1 DEF SpentInv
    <2>8. phase' # "request"
      BY <2>1
    <2> QED
      BY <1>1, <2>1, <2>3, <2>6, <2>7, <2>8, CalmKeeps
  <1> QED
    BY <1>4, <1>5

LEMMA AttemptLostCalm ==
    ASSUME ExchangeInv, ExchangeInv', SpentInv, LoseConnection \/ RequestRefused
    PROVE  SpentInv'
  BY GivenUpCalm DEF LoseConnection, RequestRefused, given

-----------------------------------------------------------------------------
(* The steps that begin a request, send it or execute it.                  *)

\* Nobody asks for a request that is not made yet, or executes it.
LEMMA FutureUnspent ==
    ASSUME ExchangeInv, SpentInv, NEW n \in Nat, n > Request
    PROVE  /\ \A k \in DOMAIN conns : ~Asks(conns[k], n)
           /\ Holders(n) = {} /\ Runs(n) = {}
  <1>1. ASSUME NEW k \in DOMAIN conns
        PROVE  ~Asks(conns[k], n)
    <2>1. Sound(conns[k], Request, Done) /\ Request \in Nat
      BY ConnectionOf
    <2>2. \A i \in DOMAIN conns[k].up :
            conns[k].up[i].type = "Request" => conns[k].up[i].n \in 1 .. Request
      BY <2>1 DEF Sound, UpFrame
    <2>3. n \notin 1 .. Request
      BY <2>1
    <2> QED
      BY <2>2, <2>3 DEF Asks
  <1>2. Request \in Nat
    BY LenProperties DEF ExchangeInv, ScalarsTyped, Request
  <1>3. Runs(n) = {}
    <2>1. \A i \in DOMAIN executed : executed[i] <= Request
      BY DEF SpentInv
    <2>2. ~(n <= Request)
      BY <1>2
    <2> QED
      BY <2>1, <2>2 DEF Runs
  <1> QED
    BY <1>1, <1>3 DEF Holders

LEMMA BegunCalm ==
    ASSUME ExchangeInv, ExchangeInv', SpentInv, Recedes, executed' = executed,
           kind' = kind, results' = Append(results, Pending), attempt' = 0,
           phase' = "request" => link' \in DOMAIN conns
    PROVE  SpentInv'
  <1>1. /\ conns \in Seq(ConnectionType) /\ executed \in Seq(1 .. MaxRequests)
        /\ conns' \in Seq(ConnectionType) /\ executed' \in Seq(1 .. MaxRequests)
        /\ results \in Seq(Result) /\ Pending \in Result
    BY DEF ExchangeInv, ScalarsTyped, ConnsSound, Pending, Result
  <1>2. Request \in Nat /\ DOMAIN results = 1 .. Request
    BY <1>1, LenProperties DEF Request
  <1>3. Request' = Request + 1 /\ DOMAIN results' = 1 .. Request + 1
    <2>1. results' \in Seq(Result) /\ Len(results') = Len(results) + 1
      BY <1>1, AppendProperties
    <2> QED
      BY <2>1, LenProperties DEF Request
  <1>4. \A k \in DOMAIN conns' : AskedOnce(conns'[k])
    BY DEF Recedes
  <1>5. Request + 1 \in Nat /\ Request + 1 > Request
    BY <1>2
  <1>6. /\ \A k \in DOMAIN conns : ~Asks(conns[k], Request + 1)
        /\ Holders(Request + 1) = {} /\ Runs(Request + 1) = {}
    BY <1>5, FutureUnspent
  <1>7. phase' = "request" => ~Asks(conns'[link'], Request')
    <2> SUFFICES ASSUME phase' = "request" PROVE ~Asks(conns'[link'], Request')
      OBVIOUS
    <2>1. link' \in DOMAIN conns'
      BY DEF ExchangeInv, ClientInv
    <2> QED
      BY <1>3, <1>6, <2>1 DEF Recedes
  <1>8. \A i \in DOMAIN executed' : executed'[i] <= Request'
    <2>1. \A i \in DOMAIN executed : executed[i] \in Nat /\ executed[i] <= Request
      <3>1. \A i \in DOMAIN executed : executed[i] \in 1 .. MaxRequests
        <4>1. executed \in Seq(1 .. MaxRequests)
          BY <1>1
        <4> QED
          BY <4>1, LenProperties, ElementOfSeq
      <3>2. \A i \in 1 .. MaxRequests : i \in Nat
        OBVIOUS
      <3>3. \A i \in DOMAIN executed : executed[i] <= Request
        BY DEF SpentInv
      <3> QED
        BY <3>1, <3>2, <3>3
    <2> QED
      BY <1>2, <1>3, <2>1
  <1>9. ASSUME NEW n \in DOMAIN results'
        PROVE  Spent(n)' <= Allowed(n)'
    <2>1. Holders(n)' \subseteq Holders(n) /\ Runs(n)' = Runs(n)
      BY <1>1, RecedesCounts DEF Runs
    <2>2. /\ IsFiniteSet(Holders(n)) /\ IsFiniteSet(Runs(n))
          /\ Leftover(n) = Cardinality(Holders(n)) /\ Executions(n) = Cardinality(Runs(n))
          /\ Leftover(n) \in Nat /\ Executions(n) \in Nat
      BY <1>1, Counting
    <2>3. Leftover(n)' = Cardinality(Holders(n)') /\ Executions(n)' = Cardinality(Runs(n)')
      BY DEF Leftover, Holders, Asks, Executions, Runs
    <2>4. Leftover(n)' \in Nat /\ Leftover(n)' <= Leftover(n) /\ Executions(n)' = Executions(n)
      BY <2>1, <2>2, <2>3, FS_Subset, FS_CardinalityType
    <2>5. attempt \in Nat /\ attempt <= MaxRetries /\ MaxRetries \in Nat
      BY ExchangeAssumption DEF ExchangeInv, ScalarsTyped
    <2>6. CASE n = Request + 1
      <3>1. Holders(n)' = {} /\ Runs(n)' = {}
        BY <1>6, <2>1, <2>6
      <3>2. Leftover(n)' = 0 /\ Executions(n)' = 0
        BY <2>3, <3>1, FS_EmptySet
      <3>3. Allowed(n)' = attempt' \/ Allowed(n)' = attempt' + 1
        BY <1>3, <2>6 DEF Allowed
      <3> QED
        BY <3>2, <3>3 DEF Spent
    <2>7. CASE n # Request + 1
      <3>1. n \in DOMAIN results
        BY <1>2, <1>3, <2>7
      <3>2. Spent(n) <= Allowed(n)
        BY <3>1 DEF SpentInv
      <3>3. Allowed(n)' = Attempts
        BY <1>3, <2>7 DEF Allowed, Attempts
      <3>4. Attempts \in Nat /\ attempt + 1 <= Attempts /\ attempt <= Attempts
        <4>1. kind = "resilient" => attempt = 0
          BY DEF SpentInv
        <4>2. kind \in {"persistent", "resilient"}
          BY DEF ExchangeInv, ScalarsTyped
        <4> QED
          BY <2>5, <4>1, <4>2 DEF Attempts
      <3>5. Allowed(n) = Attempts \/ Allowed(n) = attempt \/ Allowed(n) = attempt + 1
        BY DEF Allowed
      <3> QED
        BY <2>2, <2>4, <2>5, <3>2, <3>3, <3>4, <3>5 DEF Spent
    <2> QED
      BY <2>6, <2>7
  <1> QED
    BY <1>4, <1>7, <1>8, <1>9 DEF SpentInv

LEMMA SendCalm ==
    ASSUME ExchangeInv, ExchangeInv', SpentInv, Send
    PROVE  SpentInv'
  <1>1. /\ results' = Append(results, Pending) /\ attempt' = 0
        /\ conns' = conns /\ kind' = kind /\ executed' = executed
        /\ phase' = (IF inner # 0 THEN "request" ELSE "connect") /\ link' = inner
    BY DEF Send, given
  <1>2. phase' = "request" => link' \in DOMAIN conns
    BY <1>1 DEF ExchangeInv, ClientInv
  <1> QED
    BY <1>1, <1>2, SameRecedes, BegunCalm

LEMMA SendMessageCalm ==
    ASSUME ExchangeInv, ExchangeInv', SpentInv, SendMessage
    PROVE  SpentInv'
  <1> DEFINE c == conns[inner]
             d == [c EXCEPT !.up = IF c.up_open /\ c.server # "Ended"
                                   THEN @ \o <<Hello>> ELSE @]
  <1>1. /\ kind = "resilient" /\ inner # 0 /\ results' = Append(results, Pending)
        /\ conns' = Upward(inner, <<Hello>>) /\ attempt' = attempt
        /\ kind' = kind /\ executed' = executed /\ phase' = "welcome"
    BY DEF SendMessage, given
  <1>2. inner \in DOMAIN conns
    BY <1>1 DEF ExchangeInv, ClientInv
  <1>3. c \in ConnectionType /\ conns \in Seq(ConnectionType)
    BY <1>2, ConnectionOf DEF ExchangeInv, ConnsSound
  <1>4. d \in ConnectionType
    BY <1>3, HelloShrinks DEF Shrinks
  <1>5. One(inner, d) /\ (d.up = c.up \/ d.up = c.up \o <<Hello>>)
    BY <1>1, <1>2, <1>3 DEF One, Upward, ConnectionType
  <1> HIDE DEF d
  <1>6. Recedes
    BY <1>3, <1>4, <1>5, FewerUp, OneRecedes
  <1>7. attempt' = 0 /\ phase' # "request"
    BY <1>1 DEF SpentInv
  <1> QED
    BY <1>1, <1>6, <1>7, BegunCalm

\* The request goes out: one copy more, of a request this connection never had.
LEMMA SendRequestCalm ==
    ASSUME ExchangeInv, ExchangeInv', SpentInv, SendRequest
    PROVE  SpentInv'
  <1> DEFINE c == conns[link]
             f == Frame("Request", next_id, Request)
             d == [c EXCEPT !.up = IF c.up_open /\ c.server # "Ended"
                                   THEN @ \o <<f>> ELSE @]
  <1>1. /\ phase = "request" /\ phase' = "await" /\ conns' = Upward(link, <<f>>)
        /\ attempt' = attempt /\ results' = results /\ kind' = kind
        /\ executed' = executed
    BY DEF SendRequest, given
  <1>2. link \in DOMAIN conns /\ ~Asks(c, Request) /\ AskedOnce(c)
    BY <1>1 DEF ExchangeInv, ClientInv, SpentInv
  <1>3. /\ c \in ConnectionType /\ Request \in Nat /\ next_id \in Nat
        /\ conns \in Seq(ConnectionType) /\ executed \in Seq(1 .. MaxRequests)
        /\ results \in Seq(Result) /\ attempt \in Nat
    BY <1>2, ConnectionOf DEF ExchangeInv, ConnsSound, ScalarsTyped
  <1>4. f \in FrameType /\ f.type = "Request" /\ f.n = Request
    BY <1>3 DEF Frame, FrameType
  <1> HIDE DEF f
  <1>5. c.up \in Seq(FrameType)
    BY <1>3, ConnectionTyped
  <1>6. /\ c.up \o <<f>> \in Seq(FrameType)
        /\ \A x \in DOMAIN (c.up \o <<f>>) :
             \/ x \in DOMAIN c.up /\ (c.up \o <<f>>)[x] = c.up[x]
             \/ x = Len(c.up) + 1 /\ (c.up \o <<f>>)[x] = f
    BY <1>4, <1>5, Behind
  <1>7. d \in ConnectionType /\ (d.up = c.up \/ d.up = c.up \o <<f>>)
    BY <1>3, <1>6 DEF ConnectionType
  <1>8. One(link, d)
    BY <1>1, <1>2 DEF One, Upward
  <1> HIDE DEF d
  <1>9. \A x \in DOMAIN d.up :
          \/ x \in DOMAIN c.up /\ d.up[x] = c.up[x]
          \/ x = Len(c.up) + 1 /\ d.up[x] = f
    BY <1>6, <1>7
  <1>10. AskedOnce(d)
    BY <1>2, <1>4, <1>9 DEF AskedOnce, Asks
  <1>11. \A n : Asks(d, n) => Asks(c, n) \/ n = Request
    BY <1>4, <1>9 DEF Asks
  <1>12. /\ DOMAIN conns' = DOMAIN conns
         /\ \A j \in DOMAIN conns : conns'[j] = IF j = link THEN d ELSE conns[j]
    BY <1>3, <1>7, <1>8, OneConn
  <1>13. \A k \in DOMAIN conns' : AskedOnce(conns'[k])
    BY <1>10, <1>12 DEF SpentInv
  <1>14. Request' = Request
    BY <1>1 DEF Request
  <1>15. ASSUME NEW n \in DOMAIN results
         PROVE  Spent(n)' <= Allowed(n)'
    <2>1. /\ IsFiniteSet(Holders(n)) /\ Leftover(n) = Cardinality(Holders(n))
          /\ Leftover(n) \in Nat /\ Executions(n) \in Nat
      BY <1>3, Counting
    <2>2. Leftover(n)' = Cardinality(Holders(n)') /\ Executions(n)' = Executions(n)
      BY <1>1 DEF Leftover, Holders, Asks, Executions
    <2>3. Spent(n) <= Allowed(n)
      BY DEF SpentInv
    <2>4. CASE n = Request
      <3>1. Holders(n)' \subseteq Holders(n) \cup {link}
        BY <1>12 DEF Holders
      <3>2. /\ IsFiniteSet(Holders(n) \cup {link})
            /\ Cardinality(Holders(n) \cup {link}) <= Cardinality(Holders(n)) + 1
        BY <2>1, OneMore
      <3>3. /\ Leftover(n)' \in Nat
            /\ Leftover(n)' <= Cardinality(Holders(n) \cup {link})
            /\ Cardinality(Holders(n) \cup {link}) \in Nat
        BY <2>2, <3>1, <3>2, FS_Subset, FS_CardinalityType
      <3>4. Allowed(n) = attempt /\ Allowed(n)' = attempt + 1
        BY <1>1, <1>14, <2>4 DEF Allowed
      <3> QED
        BY <1>3, <2>1, <2>2, <2>3, <3>2, <3>3, <3>4 DEF Spent
    <2>5. CASE n # Request
      <3>1. Holders(n)' \subseteq Holders(n)
        BY <1>11, <1>12, <2>5 DEF Holders
      <3>2. Leftover(n)' \in Nat /\ Leftover(n)' <= Leftover(n)
        BY <2>1, <2>2, <3>1, FS_Subset, FS_CardinalityType
      <3>3. Allowed(n)' = Allowed(n) /\ Allowed(n) \in Nat
        BY <1>1, <1>14, <2>5, AllowedNat DEF Allowed, Attempts
      <3> QED
        BY <2>1, <2>2, <2>3, <3>2, <3>3 DEF Spent
    <2> QED
      BY <2>4, <2>5
  <1> QED
    BY <1>1, <1>13, <1>14, <1>15 DEF SpentInv

\* The task executes a request it has read: one copy less, one execution more.
LEMMA ServeRequestCalm ==
    ASSUME ExchangeInv, ExchangeInv', SpentInv, NEW k \in DOMAIN conns, ServeRequest(k)
    PROVE  SpentInv'
  <1> DEFINE c == conns[k]
             f == Head(c.up)
             m == f.n
             rest == [c EXCEPT !.up = Tail(@)]
             reply == <<Frame("Response", ReplyId(f), f.n), Frame("Close", ReplyId(f), 0)>>
             d == IF Succeeds(m) /\ outcome[m] # "oversized"
                  THEN Written(rest, reply) ELSE Ended(rest)
  <1>1. /\ c.up # << >> /\ f.type = "Request"
        /\ UNCHANGED clientVars /\ kind' = kind
        /\ executed' = IF Succeeds(m) THEN Append(executed, m) ELSE executed
        /\ conns' = [conns EXCEPT ![k] = d]
    BY DEF ServeRequest, given
  <1>2. phase' = phase /\ link' = link /\ attempt' = attempt /\ results' = results
    BY <1>1 DEF clientVars
  <1>3. /\ c \in ConnectionType /\ Sound(c, Request, Done) /\ Request \in Nat
        /\ conns \in Seq(ConnectionType) /\ executed \in Seq(1 .. MaxRequests)
        /\ conns' \in Seq(ConnectionType) /\ executed' \in Seq(1 .. MaxRequests)
    BY ConnectionOf DEF ExchangeInv, ConnsSound, ScalarsTyped
  <1>4. One(k, d)
    BY <1>1 DEF One
  <1>5. d.up = Tail(c.up) \/ d.up = << >>
    BY <1>3 DEF Written, Ended, ConnectionType
  <1>6. conns'[k] = d /\ DOMAIN conns' = DOMAIN conns
    BY <1>1, <1>3
  <1>7. d \in ConnectionType
    BY <1>3, <1>6
  <1> HIDE DEF d
  <1>8. Fewer(c, d)
    BY <1>1, <1>3, <1>5, FewerUp
  <1>9. Recedes
    BY <1>3, <1>4, <1>7, <1>8, OneRecedes
  <1>10. c.up \in Seq(FrameType)
    BY <1>3, ConnectionTyped
  <1>11. /\ 1 \in DOMAIN c.up /\ f = c.up[1]
         /\ Tail(c.up) \in Seq(FrameType)
         /\ \A x \in DOMAIN Tail(c.up) : x + 1 \in DOMAIN c.up /\ Tail(c.up)[x] = c.up[x + 1]
    BY <1>1, <1>10, PartTail
  <1>12. m \in 1 .. Request
    BY <1>1, <1>3, <1>11 DEF Sound, UpFrame
  <1>13. k \in Holders(m)
    BY <1>1, <1>11 DEF Holders, Asks
  <1>14. ~Asks(d, m)
    <2>1. \A x \in DOMAIN Tail(c.up) : x + 1 # 1
      BY <1>11, LenProperties
    <2>2. \A x \in DOMAIN Tail(c.up) :
            ~(Tail(c.up)[x].type = "Request" /\ Tail(c.up)[x].n = m)
      BY <1>1, <1>11, <2>1 DEF SpentInv, AskedOnce
    <2> QED
      <3>1. CASE d.up = Tail(c.up)
        <4>1. \A x \in DOMAIN d.up : ~(d.up[x].type = "Request" /\ d.up[x].n = m)
          BY <2>2, <3>1
        <4> QED
          BY <4>1 DEF Asks
      <3>2. CASE d.up = << >>
        <4>1. DOMAIN d.up = {}
          BY <3>2
        <4> QED
          BY <4>1 DEF Asks
      <3> QED
        BY <1>5, <3>1, <3>2
  <1> HIDE DEF m, f
  <1>15. Request' = Request
    BY <1>2 DEF Request
  <1>16. /\ Len(executed) \in Nat /\ DOMAIN executed = 1 .. Len(executed)
    BY <1>3, LenProperties
  <1>17. \A i \in DOMAIN executed' :
           \/ i \in DOMAIN executed /\ executed'[i] = executed[i]
           \/ i = Len(executed) + 1 /\ executed'[i] = m
    <2>1. CASE Succeeds(m)
      <3>1. executed' = Append(executed, m) /\ m \in 1 .. MaxRequests
        <4>1. Request <= MaxRequests
          BY DEF ExchangeInv, ScalarsTyped
        <4> QED
          BY <1>1, <1>3, <1>12, <2>1, <4>1, ExchangeAssumption
      <3>2. /\ Len(executed') = Len(executed) + 1
            /\ \A i \in 1 .. Len(executed) : executed'[i] = executed[i]
            /\ executed'[Len(executed) + 1] = m
        BY <1>3, <3>1, AppendProperties
      <3>3. DOMAIN executed' = 1 .. Len(executed) + 1
        BY <1>3, <3>2, LenProperties
      <3> QED
        BY <1>16, <3>2, <3>3
    <2>2. CASE ~Succeeds(m)
      BY <1>1, <2>2
    <2> QED
      BY <2>1, <2>2
  <1>18. \A i \in DOMAIN executed' : executed'[i] <= Request'
    <2>1. m <= Request
      BY <1>3, <1>12
    <2> QED
      BY <1>15, <1>17, <2>1 DEF SpentInv
  <1>19. phase' = "request" => ~Asks(conns'[link'], Request')
    BY <1>2, <1>6, <1>9, <1>15 DEF Recedes, SpentInv, ExchangeInv, ClientInv
  <1>20. ASSUME NEW n \in DOMAIN results
         PROVE  Spent(n)' <= Allowed(n)'
    <2>1. /\ IsFiniteSet(Holders(n)) /\ Leftover(n) = Cardinality(Holders(n))
          /\ IsFiniteSet(Runs(n)) /\ Executions(n) = Cardinality(Runs(n))
          /\ Leftover(n) \in Nat /\ Executions(n) \in Nat
      BY <1>3, Counting
    <2>2. Leftover(n)' = Cardinality(Holders(n)') /\ Executions(n)' = Cardinality(Runs(n)')
      BY DEF Leftover, Holders, Asks, Executions, Runs
    <2>3. Spent(n) <= Allowed(n) /\ Allowed(n) \in Nat
      BY AllowedNat DEF SpentInv
    <2>4. Allowed(n)' = Allowed(n)
      BY <1>1, <1>2, <1>15 DEF Allowed, Attempts
    <2>5. Holders(n)' \subseteq Holders(n)
      BY <1>3, <1>9, RecedesCounts
    <2>6. CASE n = m
      <3>1. Holders(n)' \subseteq Holders(n) \ {k}
        BY <1>6, <1>14, <2>5, <2>6 DEF Holders
      <3>2. /\ IsFiniteSet(Holders(n) \ {k})
            /\ Cardinality(Holders(n) \ {k}) = Cardinality(Holders(n)) - 1
        BY <1>13, <2>1, <2>6, FS_RemoveElement
      <3>3. Leftover(n)' \in Nat /\ Leftover(n)' <= Cardinality(Holders(n)) - 1
        BY <2>2, <3>1, <3>2, FS_Subset, FS_CardinalityType
      <3>4. Runs(n)' \subseteq Runs(n) \cup {Len(executed) + 1}
        BY <1>17 DEF Runs
      <3>5. /\ IsFiniteSet(Runs(n) \cup {Len(executed) + 1})
            /\ Cardinality(Runs(n) \cup {Len(executed) + 1}) <= Cardinality(Runs(n)) + 1
        BY <2>1, OneMore
      <3>6. /\ Executions(n)' \in Nat
            /\ Executions(n)' <= Cardinality(Runs(n) \cup {Len(executed) + 1})
            /\ Cardinality(Runs(n) \cup {Len(executed) + 1}) \in Nat
        BY <2>2, <3>4, <3>5, FS_Subset, FS_CardinalityType
      <3> QED
        BY <2>1, <2>3, <2>4, <3>3, <3>5, <3>6 DEF Spent
    <2>7. CASE n # m
      <3>1. Runs(n)' \subseteq Runs(n)
        BY <1>17, <2>7 DEF Runs
      <3>2. Executions(n)' \in Nat /\ Executions(n)' <= Executions(n)
        BY <2>1, <2>2, <3>1, FS_Subset, FS_CardinalityType
      <3>3. Leftover(n)' \in Nat /\ Leftover(n)' <= Leftover(n)
        BY <2>1, <2>2, <2>5, FS_Subset, FS_CardinalityType
      <3> QED
        BY <2>1, <2>3, <2>4, <3>2, <3>3 DEF Spent
    <2> QED
      BY <2>6, <2>7
  <1>21. \A j \in DOMAIN conns' : AskedOnce(conns'[j])
    BY <1>9 DEF Recedes
  <1> QED
    BY <1>1, <1>2, <1>18, <1>19, <1>20, <1>21 DEF SpentInv

LEMMA SpentStep ==
    ASSUME ExchangeInv, ExchangeInv', SpentInv, [ExchangeNext]_exchangeVars
    PROVE  SpentInv'
  <1>1. CASE ClientStep
    BY <1>1, ConnectCalm, AwaitWelcomeCalm, SendRequestCalm, AwaitResponseCalm,
       AttemptLostCalm DEF ClientStep
  <1>2. CASE \E k \in DOMAIN conns : ServerStep(k) \/ Break(k)
    BY <1>2, ServeRequestCalm, ServeHelloCalm, ServeEndCalm, BreakCalm DEF ServerStep
  <1>3. CASE UNCHANGED exchangeVars
    <2>1. /\ conns' = conns /\ executed' = executed /\ phase' = phase /\ link' = link
          /\ attempt' = attempt /\ results' = results /\ kind' = kind
      BY <1>3 DEF exchangeVars, clientVars, given
    <2>2. Recedes
      BY <2>1, SameRecedes
    <2>3. Owed' = Owed
      BY <2>1 DEF Owed, Allowed, Request
    <2>4. Owed <= Owed'
      BY <2>3, AllowedNat DEF Owed
    <2>5. /\ phase' = "request" => ~Asks(conns'[link'], Request)
          /\ kind = "resilient" => attempt' = 0
      BY <2>1 DEF SpentInv
    <2> QED
      BY <2>1, <2>2, <2>4, <2>5, CalmKeeps
  <1> QED
    BY <1>1, <1>2, <1>3, SendCalm, SendMessageCalm, BuildStreamCalm,
       ConnectRefusedCalm DEF ExchangeNext

\* However often the client retries and whatever is left over on connections it
\* gave up, a request is executed at most once per attempt, counting the copies
\* that a task may still execute.
THEOREM ExecutionsBoundedHolds == ExchangeSpec => []ExecutionsBounded
  <1>1. ExchangeInit => SpentInv
    <2> SUFFICES ASSUME ExchangeInit PROVE SpentInv
      OBVIOUS
    <2>1. /\ conns = << >> /\ results = << >> /\ executed = << >>
          /\ phase = "idle" /\ attempt = 0
      BY DEF ExchangeInit
    <2> QED
      BY <2>1 DEF SpentInv
  <1>2. ExchangeInv /\ ExchangeInv' /\ SpentInv /\ [ExchangeNext]_exchangeVars => SpentInv'
    BY SpentStep
  <1>3. ExchangeInv /\ SpentInv => ExecutionsBounded
    <2> SUFFICES ASSUME ExchangeInv, SpentInv, NEW n \in DOMAIN results
                 PROVE  Executions(n) + Leftover(n)
                          <= IF n = Request THEN attempt + 1 ELSE Attempts
      BY DEF ExecutionsBounded
    <2>1. Spent(n) <= Allowed(n) /\ attempt \in Nat
      BY DEF SpentInv, ExchangeInv, ScalarsTyped
    <2>2. Executions(n) \in Nat /\ Leftover(n) \in Nat
      BY Counting DEF ExchangeInv, ConnsSound, ScalarsTyped
    <2> QED
      BY <2>1, <2>2 DEF Spent, Allowed
  <1> QED
    BY <1>1, <1>2, <1>3, ExchangeInvariant, PTL DEF ExchangeSpec

-----------------------------------------------------------------------------
(* As long as nothing breaks and the handlers answer, the connection that  *)
(* PersistentClient uses never ends.  Those it has left are the ones on    *)
(* which a request was refused, and they hold no request.                  *)

Faultless ==
    /\ kind = "persistent"
    /\ breaks = 0
    /\ \A n \in DOMAIN outcome : outcome[n] \in {"ok", "large"}

\* The connection of a client in phase ph with its request r, which numbers its
\* next stream id: a request is on its way only while the client waits for its
\* response, and the Close of the stream comes behind the response.
Smooth(c, ph, id, r) ==
    /\ c.up_open /\ c.down_open /\ c.server # "Ended"
    /\ \A i \in DOMAIN c.up : c.up[i].type = "Hello" => i = 1 /\ c.server = "AwaitingHello"
    /\ \A i \in DOMAIN c.up : c.up[i].type = "Request" =>
         ph = "await" /\ c.up[i].n = r /\ c.up[i].id < id
    /\ \A i \in DOMAIN c.down : c.down[i].type = "Close" => c.down[i].id < id
    /\ ph = "welcome" => \A i \in DOMAIN c.down : c.down[i] = Welcome
    /\ ph = "await" => \A i \in DOMAIN c.down :
         c.down[i].type = "Close" /\ c.down[i].id = id - 2 =>
           \E j \in DOMAIN c.down :
             j < i /\ c.down[j].type = "Response" /\ c.down[j].id = id - 2

\* A connection the client has left.
Left(c) ==
    /\ ~c.up_open /\ ~c.down_open
    /\ \A i \in DOMAIN c.up : c.up[i].type # "Request"

\* The connection the client uses or keeps, 0 for none.
Current == IF phase \in {"welcome", "request", "await"} THEN link ELSE inner

ConnsSmooth ==
    \A k \in DOMAIN conns :
        IF k = Current THEN Smooth(conns[k], phase, next_id, Request) ELSE Left(conns[k])

\* Only a large request is tried again, and it is never sent.
AttemptInv ==
    /\ attempt # 0 => outcome[Request] = "large"
    /\ phase = "await" => outcome[Request] # "large"

Increasing == \A i, j \in DOMAIN executed : i < j => executed[i] < executed[j]
Orderly == Increasing /\ \A i \in DOMAIN executed : outcome[executed[i]] = "ok"
OnlyLargeFail == \A n \in DOMAIN results : results[n].tag = "failed" => outcome[n] = "large"

SmoothInv == ConnsSmooth /\ AttemptInv /\ Orderly /\ OnlyLargeFail

\* What a step other than an execution leaves to show.
LEMMA SmoothKept ==
    ASSUME SmoothInv, executed' = executed, outcome' = outcome,
           ConnsSmooth', AttemptInv', OnlyLargeFail'
    PROVE  SmoothInv'
  BY DEF SmoothInv, Orderly, Increasing

\* The connection in use changes, or is used further.
LEMMA OneSmooth ==
    ASSUME ExchangeInv, SmoothInv, NEW d \in ConnectionType, One(Current, d),
           Current' = Current, Smooth(d, phase', next_id', Request')
    PROVE  ConnsSmooth'
  <1>1. conns \in Seq(ConnectionType)
    BY DEF ExchangeInv, ConnsSound
  <1>2. /\ DOMAIN conns' = DOMAIN conns
        /\ \A j \in DOMAIN conns : conns'[j] = IF j = Current THEN d ELSE conns[j]
    BY <1>1, OneConn
  <1>3. \A j \in DOMAIN conns : j # Current => Left(conns[j])
    BY DEF SmoothInv, ConnsSmooth
  <1> QED
    BY <1>2, <1>3 DEF ConnsSmooth

\* A connection is left, or was.
LEMMA OneLeft ==
    ASSUME ExchangeInv, SmoothInv, NEW k, NEW d \in ConnectionType, One(k, d), Left(d),
           \/ k = Current /\ Current' \notin DOMAIN conns
           \/ /\ k # Current /\ Current' = Current
              /\ phase' = phase /\ next_id' = next_id /\ Request' = Request
    PROVE  ConnsSmooth'
  <1>1. conns \in Seq(ConnectionType)
    BY DEF ExchangeInv, ConnsSound
  <1>2. /\ DOMAIN conns' = DOMAIN conns
        /\ \A j \in DOMAIN conns : conns'[j] = IF j = k THEN d ELSE conns[j]
    BY <1>1, OneConn
  <1>3. \A j \in DOMAIN conns :
          IF j = Current THEN Smooth(conns[j], phase, next_id, Request) ELSE Left(conns[j])
    BY DEF SmoothInv, ConnsSmooth
  <1>4. CASE k = Current /\ Current' \notin DOMAIN conns
    BY <1>2, <1>3, <1>4 DEF ConnsSmooth
  <1>5. CASE /\ k # Current /\ Current' = Current
             /\ phase' = phase /\ next_id' = next_id /\ Request' = Request
    BY <1>2, <1>3, <1>5 DEF ConnsSmooth
  <1> QED
    BY <1>4, <1>5

LEMMA SmoothAt ==
    ASSUME ExchangeInv, SmoothInv, Current \in DOMAIN conns
    PROVE  /\ conns[Current] \in ConnectionType /\ Sound(conns[Current], Request, Done)
           /\ Smooth(conns[Current], phase, next_id, Request)
           /\ Request \in Nat /\ next_id \in Nat
  BY ConnectionOf DEF SmoothInv, ConnsSmooth, ExchangeInv, ScalarsTyped

LEMMA LeftAt ==
    ASSUME ExchangeInv, SmoothInv, NEW k \in DOMAIN conns, k # Current
    PROVE  conns[k] \in ConnectionType /\ Left(conns[k])
  BY ConnectionOf DEF SmoothInv, ConnsSmooth

LEMMA SendSmooth ==
    ASSUME ExchangeInv, SmoothInv, Send
    PROVE  SmoothInv'
  <1>1. /\ phase = "idle" /\ results' = Append(results, Pending) /\ attempt' = 0
        /\ conns' = conns /\ executed' = executed /\ inner' = inner /\ next_id' = next_id
        /\ phase' = (IF inner # 0 THEN "request" ELSE "connect") /\ link' = inner
        /\ outcome' = outcome
    BY DEF Send, given
  <1>2. Current = inner /\ Current' = inner
    BY <1>1 DEF Current
  <1>3. ConnsSmooth'
    <2> SUFFICES ASSUME NEW k \in DOMAIN conns
                 PROVE  IF k = inner THEN Smooth(conns[k], phase', next_id', Request')
                                     ELSE Left(conns[k])
      BY <1>1, <1>2 DEF ConnsSmooth
    <2>1. CASE k = inner
      <3>1. Smooth(conns[k], "idle", next_id, Request)
        BY <1>1, <1>2, <2>1 DEF SmoothInv, ConnsSmooth
      <3>2. phase' # "welcome" /\ phase' # "await"
        BY <1>1
      <3> QED
        BY <1>1, <2>1, <3>1, <3>2 DEF Smooth
    <2>2. CASE k # inner
      BY <1>2, <2>2, LeftAt
    <2> QED
      BY <2>1, <2>2
  <1>4. OnlyLargeFail'
    <2>1. results \in Seq(Result) /\ Pending \in Result
      BY DEF ExchangeInv, ScalarsTyped, Pending, Result
    <2>2. /\ results' \in Seq(Result) /\ Len(results') = Len(results) + 1
          /\ \A i \in 1 .. Len(results) : results'[i] = results[i]
          /\ results'[Len(results) + 1] = Pending
      BY <1>1, <2>1, AppendProperties
    <2>3. /\ Len(results) \in Nat /\ DOMAIN results = 1 .. Len(results)
          /\ DOMAIN results' = 1 .. Len(results) + 1
      BY <2>1, <2>2, LenProperties
    <2> QED
      BY <1>1, <2>2, <2>3 DEF OnlyLargeFail, SmoothInv, Pending
  <1>5. AttemptInv'
    BY <1>1 DEF AttemptInv
  <1> QED
    BY <1>1, <1>3, <1>4, <1>5, SmoothKept

LEMMA ConnectSmooth ==
    ASSUME ExchangeInv, SmoothInv, kind = "persistent", Connect
    PROVE  SmoothInv'
  <1> DEFINE d == NewConnection(<<Hello>>)
  <1>1. /\ phase = "connect" /\ conns' = Append(conns, d) /\ link' = Len(conns) + 1
        /\ phase' = "welcome" /\ attempt' = attempt /\ results' = results
        /\ executed' = executed /\ next_id' = next_id /\ outcome' = outcome
    BY DEF Connect, given
  <1>2. /\ d.up = <<Hello>> /\ d.down = << >> /\ d.up_open /\ d.down_open
        /\ d.server = "AwaitingHello" /\ d \in ConnectionType
    <2>1. << >> \in Seq(FrameType) /\ <<Hello>> \in Seq(FrameType)
      BY Greetings
    <2> QED
      BY <2>1 DEF NewConnection, ConnectionType
  <1> HIDE DEF d
  <1>3. \A i \in DOMAIN <<Hello>> : i = 1 /\ <<Hello>>[i] = Hello
    OBVIOUS
  <1>4. Hello.type # "Request"
    BY Greetings
  <1>5. Smooth(d, phase', next_id', Request')
    BY <1>1, <1>2, <1>3, <1>4 DEF Smooth
  <1>6. \A k \in DOMAIN conns : Left(conns[k])
    <2>1. Current \notin DOMAIN conns
      BY <1>1, ConnectionsNumbered DEF Current, ExchangeInv, ClientInv
    <2> QED
      BY <2>1, LeftAt
  <1>7. conns \in Seq(ConnectionType)
    BY DEF ExchangeInv, ConnsSound
  <1>8. /\ Len(conns) \in Nat /\ DOMAIN conns = 1 .. Len(conns)
        /\ DOMAIN conns' = 1 .. Len(conns) + 1
        /\ \A k \in 1 .. Len(conns) : conns'[k] = conns[k]
        /\ conns'[Len(conns) + 1] = d
    BY <1>1, <1>2, <1>7, AppendProperties, LenProperties
  <1>9. Current' = Len(conns) + 1
    BY <1>1 DEF Current
  <1>10. ConnsSmooth'
    <2>1. ASSUME NEW k \in DOMAIN conns'
          PROVE  IF k = Current' THEN Smooth(conns'[k], phase', next_id', Request')
                                 ELSE Left(conns'[k])
      <3>1. CASE k = Len(conns) + 1
        BY <1>5, <1>8, <1>9, <3>1
      <3>2. CASE k # Len(conns) + 1
        <4>1. k \in 1 .. Len(conns)
          BY <1>8, <3>2
        <4> QED
          BY <1>6, <1>8, <1>9, <3>2, <4>1
      <3> QED
        BY <3>1, <3>2
    <2> QED
      BY <2>1 DEF ConnsSmooth
  <1>11. OnlyLargeFail' /\ AttemptInv'
    BY <1>1 DEF SmoothInv, OnlyLargeFail, AttemptInv, Request
  <1> QED
    BY <1>1, <1>10, <1>11, SmoothKept

LEMMA ConnectRefusedSmooth ==
    ASSUME ExchangeInv, SmoothInv, kind = "persistent", ConnectRefused
    PROVE  SmoothInv'
  <1>1. /\ phase = "connect" /\ ConnectFailed /\ attempt' = attempt /\ inner' = inner
        /\ conns' = conns /\ executed' = executed /\ outcome' = outcome
    BY DEF ConnectRefused, given
  <1>2. \A k \in DOMAIN conns' : Left(conns'[k]) /\ k # Current'
    <2>1. phase' \in {"connect", "idle"} /\ inner = 0
      BY <1>1, ConnectFails DEF ExchangeInv, ClientInv
    <2>2. Current \notin DOMAIN conns /\ Current' \notin DOMAIN conns
      BY <1>1, <2>1, ConnectionsNumbered DEF Current, ExchangeInv
    <2> QED
      BY <1>1, <2>2, LeftAt
  <1>3. OnlyLargeFail'
    <2>1. CASE connects < MaxRetries
      BY <1>1, <2>1 DEF ConnectFailed, OnlyLargeFail, SmoothInv
    <2>2. CASE ~(connects < MaxRetries)
      <3>1. Give("unreachable", 0)
        BY <1>1, <2>2 DEF ConnectFailed
      <3>2. \A m \in DOMAIN results' :
              /\ m \in DOMAIN results
              /\ results'[m] = IF m = Request THEN [tag |-> "unreachable", n |-> 0]
                                              ELSE results[m]
        BY <1>1, <3>1, Given DEF ExchangeInv
      <3> QED
        BY <1>1, <3>2 DEF OnlyLargeFail, SmoothInv
    <2> QED
      BY <2>1, <2>2
  <1>4. AttemptInv'
    <2>1. Request' = Request /\ phase' # "await"
      BY <1>1, ConnectFails DEF ExchangeInv, Unreplied, Request
    <2> QED
      BY <1>1, <2>1 DEF AttemptInv, SmoothInv
  <1>5. ConnsSmooth'
    BY <1>2 DEF ConnsSmooth
  <1> QED
    BY <1>1, <1>3, <1>4, <1>5, SmoothKept

\* Where the client is when it uses a connection.
LEMMA LinkIsCurrent ==
    ASSUME ExchangeInv, SmoothInv, phase \in {"welcome", "request", "await"}
    PROVE  link \in DOMAIN conns /\ link = Current
  BY DEF ExchangeInv, ClientInv, Current

LEMMA NotTheEnd ==
    ASSUME ExchangeInv, SmoothInv, phase \in {"welcome", "await"}
    PROVE  /\ link \in DOMAIN conns /\ link = Current
           /\ Downward = conns[link].down /\ ~EndOfStream
  <1>1. link \in DOMAIN conns /\ link = Current /\ Downward = conns[link].down
    BY LinkIsCurrent DEF Downward
  <1>2. conns[link].down_open
    BY <1>1, SmoothAt DEF Smooth
  <1> QED
    BY <1>1, <1>2 DEF EndOfStream

\* The attempt of a large request fails, and nothing of it is left.
LEMMA RequestRefusedSmooth ==
    ASSUME ExchangeInv, SmoothInv, kind = "persistent", RequestRefused
    PROVE  SmoothInv'
  <1> DEFINE d == [conns[link] EXCEPT !.up_open = FALSE, !.down = << >>, !.down_open = FALSE]
  <1>1. /\ phase = "request" /\ outcome[Request] = "large" /\ conns' = Dropped(link)
        /\ AttemptFailed /\ executed' = executed /\ outcome' = outcome
    BY DEF RequestRefused, given
  <1>2. link \in DOMAIN conns /\ link = Current
    BY <1>1, LinkIsCurrent
  <1>3. conns[link] \in ConnectionType /\ Smooth(conns[link], "request", next_id, Request)
    BY <1>1, <1>2, SmoothAt
  <1>4. d \in ConnectionType
    BY <1>3, EndsShrink DEF Shrinks
  <1>5. d.up = conns[link].up /\ ~d.up_open /\ ~d.down_open
    BY <1>3 DEF ConnectionType
  <1>6. One(link, d)
    BY <1>1, <1>2 DEF One, Dropped
  <1> HIDE DEF d
  <1>7. Left(d)
    BY <1>3, <1>5 DEF Left, Smooth
  <1>8. Unreplied /\ inner' = 0 /\ phase' \in {"connect", "idle"}
    BY <1>1, AttemptFails DEF ExchangeInv
  <1>9. Current' \notin DOMAIN conns
    BY <1>8, ConnectionsNumbered DEF Current, ExchangeInv
  <1>10. ConnsSmooth'
    BY <1>2, <1>4, <1>6, <1>7, <1>9, OneLeft
  <1>11. Request' = Request
    BY <1>8 DEF Unreplied, Request
  <1>12. AttemptInv'
    BY <1>1, <1>8, <1>11 DEF AttemptInv
  <1>13. OnlyLargeFail'
    <2>1. CASE results' = results
      BY <1>1, <2>1 DEF OnlyLargeFail, SmoothInv
    <2>2. CASE Give("failed", 0)
      <3>1. \A m \in DOMAIN results' :
              /\ m \in DOMAIN results
              /\ results'[m] = IF m = Request THEN [tag |-> "failed", n |-> 0]
                                              ELSE results[m]
        BY <1>1, <2>2, Given DEF ExchangeInv
      <3> QED
        BY <1>1, <3>1 DEF OnlyLargeFail, SmoothInv
    <2> QED
      BY <1>1, <2>1, <2>2 DEF AttemptFailed
  <1> QED
    BY <1>1, <1>10, <1>12, <1>13, SmoothKept

LEMMA AwaitWelcomeSmooth ==
    ASSUME ExchangeInv, SmoothInv, kind = "persistent", AwaitWelcome
    PROVE  SmoothInv'
  <1> DEFINE c == conns[link]
             d == [c EXCEPT !.down = Tail(@)]
  <1>1. /\ phase = "welcome" /\ (Downward # << >> \/ EndOfStream) /\ executed' = executed
        /\ outcome' = outcome /\ link' = link
    BY DEF AwaitWelcome, given
  <1>2. link \in DOMAIN conns /\ link = Current /\ Downward = c.down /\ ~EndOfStream
    BY <1>1, NotTheEnd
  <1>3. /\ c \in ConnectionType /\ Sound(c, Request, Done) /\ Request \in Nat
        /\ Smooth(c, "welcome", next_id, Request)
    BY <1>1, <1>2, SmoothAt
  <1>4. c.down \in Seq(FrameType) /\ c.down # << >>
    BY <1>1, <1>2, <1>3, ConnectionTyped
  <1>5. 1 \in DOMAIN c.down /\ Head(c.down) = c.down[1]
    BY <1>4, PartTail
  <1>6. Head(Downward) = Welcome
    BY <1>2, <1>3, <1>5 DEF Smooth
  <1>7. /\ conns' = [conns EXCEPT ![link].down = Tail(@)]
        /\ phase' = "request" /\ next_id' = 1 /\ attempt' = attempt /\ results' = results
    BY <1>2, <1>6 DEF AwaitWelcome
  <1>8. /\ Sound(d, Request, Done) /\ d \in ConnectionType
        /\ d.up = c.up /\ d.down = Tail(c.down) /\ d.server = c.server
        /\ d.up_open = c.up_open /\ d.down_open = c.down_open
    <2>1. Sound(d, Request, Done)
      BY <1>3, <1>4, DownTail
    <2> QED
      BY <1>3, <2>1 DEF Sound, ConnectionType
  <1>9. One(link, d)
    BY <1>2, <1>7 DEF One
  <1> HIDE DEF d
  <1>10. \A x \in DOMAIN d.down : d.down[x].type # "Close"
    <2>1. \A x \in DOMAIN c.down : c.down[x].type = "Welcome"
      BY <1>3, Greetings DEF Smooth
    <2> QED
      BY <1>4, <1>8, <2>1, PartTail
  <1>11. Smooth(d, phase', next_id', Request')
    BY <1>3, <1>7, <1>8, <1>10 DEF Smooth
  <1>12. OnlyLargeFail' /\ AttemptInv'
    BY <1>1, <1>7 DEF SmoothInv, OnlyLargeFail, AttemptInv, Request
  <1>13. Current' = Current
    BY <1>1, <1>2, <1>7 DEF Current
  <1>14. ConnsSmooth'
    BY <1>2, <1>8, <1>9, <1>11, <1>13, OneSmooth
  <1> QED
    BY <1>1, <1>12, <1>14, SmoothKept

LEMMA SendRequestSmooth ==
    ASSUME ExchangeInv, SmoothInv, SendRequest
    PROVE  SmoothInv'
  <1> DEFINE c == conns[link]
             f == Frame("Request", next_id, Request)
             d == [c EXCEPT !.up = IF c.up_open /\ c.server # "Ended"
                                   THEN @ \o <<f>> ELSE @]
  <1>1. /\ phase = "request" /\ phase' = "await" /\ next_id' = next_id + 2
        /\ conns' = Upward(link, <<f>>) /\ results' = results /\ attempt' = attempt
        /\ executed' = executed /\ outcome' = outcome /\ link' = link
        /\ outcome[Request] # "large"
    BY DEF SendRequest, given
  <1>2. link \in DOMAIN conns /\ link = Current
    BY <1>1, LinkIsCurrent
  <1>3. /\ c \in ConnectionType /\ Smooth(c, "request", next_id, Request)
        /\ Sound(c, Request, Done) /\ Request \in Nat /\ next_id \in Nat
    BY <1>1, <1>2, SmoothAt
  <1>4. f \in FrameType /\ f.type = "Request" /\ f.n = Request /\ f.id = next_id
    BY <1>3 DEF Frame, FrameType
  <1> HIDE DEF f
  <1>5. c.up \in Seq(FrameType)
    BY <1>3, ConnectionTyped
  <1>6. /\ c.up \o <<f>> \in Seq(FrameType)
        /\ \A x \in DOMAIN (c.up \o <<f>>) :
             \/ x \in DOMAIN c.up /\ (c.up \o <<f>>)[x] = c.up[x]
             \/ (c.up \o <<f>>)[x] = f
    BY <1>4, <1>5, Behind
  <1>7. c.up_open /\ c.server # "Ended"
    BY <1>3 DEF Smooth
  <1>8. /\ d \in ConnectionType /\ d.up = c.up \o <<f>> /\ d.down = c.down
        /\ d.server = c.server /\ d.up_open = c.up_open /\ d.down_open = c.down_open
    BY <1>3, <1>6, <1>7 DEF ConnectionType
  <1>9. One(link, d)
    BY <1>1, <1>2 DEF One, Upward
  <1> HIDE DEF d
  <1>10. \A x \in DOMAIN d.up :
           (x \in DOMAIN c.up /\ d.up[x] = c.up[x]) \/ d.up[x] = f
    BY <1>6, <1>8
  <1>11. Request' = Request
    BY <1>1 DEF Request
  <1>12. \A i \in DOMAIN d.up : d.up[i].type = "Hello" => i = 1 /\ d.server = "AwaitingHello"
    BY <1>3, <1>4, <1>8, <1>10 DEF Smooth
  <1>13. \A i \in DOMAIN d.up : d.up[i].type = "Request" =>
           phase' = "await" /\ d.up[i].n = Request' /\ d.up[i].id < next_id'
    <2>1. \A i \in DOMAIN c.up : c.up[i].type # "Request"
      BY <1>3 DEF Smooth
    <2>2. next_id < next_id'
      BY <1>1, <1>3
    <2> QED
      BY <1>1, <1>4, <1>10, <1>11, <2>1, <2>2
  <1>14. \A i \in DOMAIN c.down : c.down[i].type = "Close" =>
           c.down[i].id \in Nat /\ c.down[i].id < next_id
    <2>1. \A i \in DOMAIN c.down : c.down[i].id \in Nat
      BY <1>3 DEF Sound, DownFrame, FrameType
    <2> QED
      BY <1>3, <2>1 DEF Smooth
  <1>15. \A i \in DOMAIN d.down : d.down[i].type = "Close" =>
           d.down[i].id < next_id' /\ d.down[i].id # next_id' - 2
    BY <1>1, <1>3, <1>8, <1>14
  <1>16. Smooth(d, phase', next_id', Request')
    BY <1>1, <1>3, <1>8, <1>12, <1>13, <1>15 DEF Smooth
  <1>17. OnlyLargeFail' /\ AttemptInv'
    BY <1>1, <1>11 DEF SmoothInv, OnlyLargeFail, AttemptInv
  <1>18. Current' = Current
    BY <1>1, <1>2 DEF Current
  <1>19. ConnsSmooth'
    BY <1>2, <1>8, <1>9, <1>16, <1>18, OneSmooth
  <1> QED
    BY <1>1, <1>17, <1>19, SmoothKept

\* The response is there, so the request is not on its way any more.
LEMMA ReplyLeavesNoCopy ==
    ASSUME ExchangeInv, SpentInv, SmoothInv, phase = "await", Request \in Done
    PROVE  \A k \in DOMAIN conns : ~Asks(conns[k], Request)
  <1>1. conns \in Seq(ConnectionType) /\ executed \in Seq(1 .. MaxRequests)
    BY DEF ExchangeInv, ConnsSound, ScalarsTyped
  <1>2. Request \in DOMAIN results
    <2>1. results \in Seq(Result) /\ results # << >>
      BY DEF ExchangeInv, ScalarsTyped
    <2> QED
      BY <2>1, LenProperties, EmptySeq DEF Request
  <1>3. Spent(Request) <= 1
    <2>1. Allowed(Request) = attempt + 1 /\ attempt = 0
      BY DEF Allowed, SmoothInv, AttemptInv, Orderly, Done
    <2>2. Spent(Request) <= Allowed(Request)
      BY <1>2 DEF SpentInv
    <2> QED
      BY <2>1, <2>2
  <1>4. Executions(Request) >= 1
    BY <1>1, DoneIsExecuted
  <1>5. /\ Leftover(Request) \in Nat /\ Executions(Request) \in Nat
        /\ IsFiniteSet(Holders(Request))
        /\ Leftover(Request) = Cardinality(Holders(Request))
    BY <1>1, Counting
  <1>6. Leftover(Request) = 0
    BY <1>3, <1>4, <1>5 DEF Spent
  <1>7. Holders(Request) = {}
    BY <1>5, <1>6, FS_EmptySet
  <1> QED
    BY <1>7 DEF Holders

LEMMA AwaitResponseSmooth ==
    ASSUME ExchangeInv, SpentInv, SmoothInv, kind = "persistent", AwaitResponse
    PROVE  SmoothInv'
  <1> DEFINE c == conns[link]
             d == [c EXCEPT !.down = Tail(@)]
             f == Head(Downward)
             replied == OfThisStream(f) /\ f.type = "Response"
  <1>1. /\ phase = "await" /\ Downward # << >> /\ executed' = executed
        /\ next_id' = next_id /\ outcome' = outcome /\ link' = link
    BY DEF AwaitResponse, given
  <1>2. link \in DOMAIN conns /\ link = Current /\ Downward = c.down
    BY <1>1, NotTheEnd
  <1>3. /\ c \in ConnectionType /\ Sound(c, Request, Done) /\ Request \in Nat
        /\ Smooth(c, "await", next_id, Request)
    BY <1>1, <1>2, SmoothAt
  <1>4. c.down \in Seq(FrameType) /\ c.down # << >>
    BY <1>1, <1>2, <1>3, ConnectionTyped
  <1>5. /\ Tail(c.down) \in Seq(FrameType)
        /\ \A x \in DOMAIN Tail(c.down) :
             x + 1 \in DOMAIN c.down /\ Tail(c.down)[x] = c.down[x + 1]
        /\ 1 \in DOMAIN c.down /\ f = c.down[1]
    BY <1>2, <1>4, PartTail
  <1>6. DOMAIN c.down \subseteq Nat \ {0}
    BY <1>3, ConnectionTyped
  <1>7. ~(OfThisStream(f) /\ f.type = "Close")
    <2> SUFFICES ASSUME OfThisStream(f), f.type = "Close" PROVE FALSE
      OBVIOUS
    <2>1. PICK j \in DOMAIN c.down : j < 1
      BY <1>3, <1>5 DEF OfThisStream, Smooth
    <2> QED
      BY <1>6, <2>1
  <1>8. /\ conns' = [conns EXCEPT ![link].down = Tail(@)] /\ attempt' = attempt
        /\ inner' = inner
        /\ IF replied THEN Give("ok", f.n) ELSE phase' = phase /\ results' = results
    <2>1. CASE replied
      BY <2>1 DEF AwaitResponse
    <2>2. CASE ~replied
      BY <1>7, <2>2 DEF AwaitResponse
    <2> QED
      BY <2>1, <2>2
  <1>9. /\ d \in ConnectionType /\ d.up = c.up /\ d.down = Tail(c.down)
        /\ d.server = c.server /\ d.up_open = c.up_open /\ d.down_open = c.down_open
    BY <1>3, <1>5 DEF ConnectionType
  <1>10. One(link, d)
    BY <1>2, <1>8 DEF One
  <1> HIDE DEF d
  <1>11. \A i \in DOMAIN d.down : d.down[i].type = "Close" => d.down[i].id < next_id
    BY <1>3, <1>5, <1>9 DEF Smooth
  <1>12. inner = link
    BY <1>1 DEF ExchangeInv, ClientInv
  <1>13. CASE replied
    <2>1. f.n = Request /\ Request \in Done
      BY <1>1, <1>13, ReplyTaken
    <2>2. Give("ok", Request)
      BY <1>8, <1>13, <2>1
    <2>3. /\ phase' = "idle" /\ Len(results') = Len(results)
          /\ \A m \in DOMAIN results' :
               /\ m \in DOMAIN results
               /\ results'[m] = IF m = Request THEN [tag |-> "ok", n |-> Request]
                                               ELSE results[m]
      BY <1>1, <1>3, <2>2, Given DEF ExchangeInv
    <2>4. OnlyLargeFail' /\ AttemptInv'
      BY <1>1, <1>8, <2>3 DEF OnlyLargeFail, SmoothInv, AttemptInv, Request
    <2>5. ~Asks(c, Request)
      BY <1>1, <1>2, <2>1, ReplyLeavesNoCopy
    <2>6. \A i \in DOMAIN d.up : d.up[i].type # "Request"
      BY <1>3, <1>9, <2>5 DEF Smooth, Asks
    <2>7. Smooth(d, phase', next_id', Request')
      BY <1>1, <1>3, <1>9, <1>11, <2>3, <2>6 DEF Smooth
    <2>8. Current' = Current
      BY <1>2, <1>8, <1>12, <2>3 DEF Current
    <2>9. ConnsSmooth'
      BY <1>2, <1>9, <1>10, <2>7, <2>8, OneSmooth
    <2> QED
      BY <1>1, <2>4, <2>9, SmoothKept
  <1>14. CASE ~replied
    <2>1. phase' = "await" /\ results' = results /\ Request' = Request
      BY <1>1, <1>8, <1>14 DEF Request
    <2>2. ASSUME NEW i \in DOMAIN d.down, d.down[i].type = "Close",
                 d.down[i].id = next_id - 2
          PROVE  \E j \in DOMAIN d.down :
                   j < i /\ d.down[j].type = "Response" /\ d.down[j].id = next_id - 2
      <3>1. i \in Nat /\ i + 1 \in DOMAIN c.down /\ d.down[i] = c.down[i + 1]
        BY <1>5, <1>9, LenProperties
      <3>2. PICK j \in DOMAIN c.down :
              j < i + 1 /\ c.down[j].type = "Response" /\ c.down[j].id = next_id - 2
        BY <1>3, <2>2, <3>1 DEF Smooth
      <3>3. j # 1
        BY <1>5, <1>14, <3>2 DEF OfThisStream
      <3>4. j - 1 \in Nat \ {0} /\ j - 1 < i /\ (j - 1) + 1 = j
        BY <1>6, <3>1, <3>2, <3>3
      <3>5. /\ i \in 1 .. Len(d.down) /\ DOMAIN d.down = 1 .. Len(d.down)
            /\ Len(d.down) \in Nat
        BY <1>5, <1>9, <2>2, LenProperties
      <3>6. j - 1 \in DOMAIN d.down
        BY <3>4, <3>5
      <3>7. d.down[j - 1] = c.down[j]
        BY <1>5, <1>9, <3>4, <3>6
      <3> QED
        BY <3>2, <3>4, <3>6, <3>7
    <2>3. Smooth(d, phase', next_id', Request')
      BY <1>1, <1>3, <1>9, <1>11, <2>1, <2>2 DEF Smooth
    <2>4. OnlyLargeFail' /\ AttemptInv'
      BY <1>1, <1>8, <2>1 DEF SmoothInv, OnlyLargeFail, AttemptInv
    <2>5. Current' = Current
      BY <1>1, <1>2, <2>1 DEF Current
    <2>6. ConnsSmooth'
      BY <1>2, <1>9, <1>10, <2>3, <2>5, OneSmooth
    <2> QED
      BY <1>1, <2>4, <2>6, SmoothKept
  <1> QED
    BY <1>13, <1>14

\* What a step of a task that executes nothing leaves to show.
LEMMA ServerSmooth ==
    ASSUME SmoothInv, UNCHANGED clientVars, UNCHANGED given, executed' = executed
    PROVE  /\ phase' = phase /\ next_id' = next_id /\ Request' = Request
           /\ Current' = Current
           /\ ConnsSmooth' => SmoothInv'
  <1>1. /\ phase' = phase /\ next_id' = next_id /\ Request' = Request
        /\ Current' = Current /\ results' = results /\ attempt' = attempt
        /\ outcome' = outcome
    BY DEF clientVars, given, Request, Current
  <1>2. OnlyLargeFail' /\ AttemptInv'
    BY <1>1 DEF SmoothInv, OnlyLargeFail, AttemptInv
  <1> QED
    BY <1>1, <1>2, SmoothKept

LEMMA EndedIsLeft ==
    ASSUME NEW c \in ConnectionType, ~c.up_open
    PROVE  Ended(c) \in ConnectionType /\ Left(Ended(c))
  <1> DEFINE d == [c EXCEPT !.server = "Ended", !.up = << >>, !.down_open = FALSE]
  <1>1. << >> \in Seq(FrameType) /\ DOMAIN << >> = {}
    OBVIOUS
  <1>2. /\ d \in ConnectionType /\ d.up = << >>
        /\ d.up_open = c.up_open /\ d.down_open = FALSE
    BY <1>1 DEF ConnectionType
  <1> HIDE DEF d
  <1>3. Left(d)
    BY <1>1, <1>2 DEF Left
  <1>4. Ended(c) = d
    BY DEF Ended, d
  <1> QED
    BY <1>2, <1>3, <1>4

\* The task of a connection the client has left reads what is left there.
LEMMA ServeLeft ==
    ASSUME ExchangeInv, SmoothInv, NEW k \in DOMAIN conns, k # Current,
           ServeHello(k) \/ ServeEnd(k)
    PROVE  SmoothInv'
  <1> DEFINE c == conns[k]
             rest == [c EXCEPT !.up = Tail(@)]
  <1>1. c \in ConnectionType /\ Left(c)
    BY LeftAt
  <1>2. UNCHANGED clientVars /\ UNCHANGED given /\ executed' = executed
    BY DEF ServeHello, ServeEnd
  <1>3. c.up \in Seq(FrameType)
    BY <1>1, ConnectionTyped
  <1>4. PICK d \in ConnectionType : One(k, d) /\ Left(d)
    <2>1. CASE ServeEnd(k)
      <3>1. conns' = [conns EXCEPT ![k] = Ended(c)]
        BY <2>1 DEF ServeEnd
      <3>2. Ended(c) \in ConnectionType /\ Left(Ended(c))
        BY <1>1, EndedIsLeft DEF Left
      <3> QED
        BY <3>1, <3>2 DEF One
    <2>2. CASE ServeHello(k)
      <3>1. /\ c.up # << >>
            /\ conns' = [conns EXCEPT ![k] =
                 IF c.server = "AwaitingHello"
                 THEN Written([rest EXCEPT !.server = "Established"], <<Welcome>>)
                 ELSE Ended(rest)]
        BY <2>2 DEF ServeHello
      <3>2. /\ Tail(c.up) \in Seq(FrameType)
            /\ \A x \in DOMAIN Tail(c.up) :
                 x + 1 \in DOMAIN c.up /\ Tail(c.up)[x] = c.up[x + 1]
        BY <1>3, <3>1, PartTail
      <3>3. \A x \in DOMAIN Tail(c.up) : Tail(c.up)[x].type # "Request"
        BY <1>1, <3>2 DEF Left
      <3>4. rest \in ConnectionType /\ rest.up = Tail(c.up)
            /\ ~rest.up_open /\ ~rest.down_open
        BY <1>1, <3>2 DEF ConnectionType, Left
      <3> HIDE DEF rest
      <3>5. Ended(rest) \in ConnectionType /\ Left(Ended(rest))
        BY <3>4, EndedIsLeft
      <3>6. /\ Written([rest EXCEPT !.server = "Established"], <<Welcome>>)
                 \in ConnectionType
            /\ Left(Written([rest EXCEPT !.server = "Established"], <<Welcome>>))
        BY <3>3, <3>4 DEF Written, ConnectionType, Left
      <3> QED
        BY <3>1, <3>5, <3>6 DEF One
    <2> QED
      BY <2>1, <2>2
  <1>5. /\ phase' = phase /\ next_id' = next_id /\ Request' = Request
        /\ Current' = Current
    BY <1>2, ServerSmooth
  <1>6. ConnsSmooth'
    BY <1>4, <1>5, OneLeft
  <1> QED
    BY <1>2, <1>6, ServerSmooth

LEMMA ServeHelloSmooth ==
    ASSUME ExchangeInv, SmoothInv, NEW k \in DOMAIN conns, k = Current, ServeHello(k)
    PROVE  SmoothInv'
  <1> DEFINE c == conns[k]
             rest == [c EXCEPT !.up = Tail(@)]
             d == Written([rest EXCEPT !.server = "Established"], <<Welcome>>)
  <1>1. /\ c.up # << >> /\ Head(c.up) = Hello
        /\ UNCHANGED clientVars /\ UNCHANGED given /\ executed' = executed
        /\ conns' = [conns EXCEPT ![k] =
             IF c.server = "AwaitingHello" THEN d ELSE Ended(rest)]
    BY DEF ServeHello
  <1>2. /\ c \in ConnectionType /\ Sound(c, Request, Done) /\ Request \in Nat
        /\ Smooth(c, phase, next_id, Request)
    BY SmoothAt
  <1>3. c.up \in Seq(FrameType)
    BY <1>2, ConnectionTyped
  <1>4. /\ Tail(c.up) \in Seq(FrameType)
        /\ \A x \in DOMAIN Tail(c.up) : x + 1 \in DOMAIN c.up /\ Tail(c.up)[x] = c.up[x + 1]
        /\ 1 \in DOMAIN c.up /\ c.up[1] = Hello
    BY <1>1, <1>3, PartTail
  <1>5. c.server = "AwaitingHello"
    BY <1>2, <1>4, Greetings DEF Smooth
  <1>6. One(k, d)
    BY <1>1, <1>5 DEF One
  <1>7. d \in ConnectionType
    BY <1>1, <1>2, <1>5, WelcomeWritten DEF Sound
  <1>8. c.down = << >> /\ << >> \o <<Welcome>> = <<Welcome>>
    BY <1>2, <1>5, Greetings, ConcatEmptySeq DEF Sound
  <1>9. c.down_open /\ c.up_open
    BY <1>2 DEF Smooth
  <1>10. /\ d.up = Tail(c.up) /\ d.down = <<Welcome>> /\ d.server = "Established"
         /\ d.up_open = c.up_open /\ d.down_open = c.down_open
    BY <1>2, <1>8, <1>9 DEF Written, ConnectionType
  <1> HIDE DEF d
  <1>11. \A i \in DOMAIN d.down : d.down[i] = Welcome
    BY <1>10
  <1>12. \A i \in DOMAIN Tail(c.up) : i + 1 # 1
    BY <1>4, LenProperties
  <1>13. \A i \in DOMAIN d.up : d.up[i].type # "Hello"
    BY <1>2, <1>4, <1>10, <1>12 DEF Smooth
  <1>14. /\ phase' = phase /\ next_id' = next_id /\ Request' = Request
         /\ Current' = Current
    BY <1>1, ServerSmooth
  <1>15. Smooth(d, phase', next_id', Request')
    BY <1>2, <1>4, <1>9, <1>10, <1>11, <1>13, <1>14, Greetings DEF Smooth
  <1>16. ConnsSmooth'
    BY <1>6, <1>7, <1>14, <1>15, OneSmooth
  <1> QED
    BY <1>1, <1>16, ServerSmooth

\* The task executes the request under way, which it has not executed before.
LEMMA ServeRequestSmooth ==
    ASSUME ExchangeInv, SpentInv, SmoothInv, Faultless,
           NEW k \in DOMAIN conns, k = Current, ServeRequest(k)
    PROVE  SmoothInv'
  <1> DEFINE c == conns[k]
             f == Head(c.up)
             g == Frame("Response", ReplyId(f), f.n)
             h == Frame("Close", ReplyId(f), 0)
             rest == [c EXCEPT !.up = Tail(@)]
             d == Written(rest, <<g, h>>)
  <1>1. /\ c.up # << >> /\ f.type = "Request" /\ UNCHANGED clientVars /\ outcome' = outcome
        /\ executed' = IF Succeeds(f.n) THEN Append(executed, f.n) ELSE executed
        /\ conns' = [conns EXCEPT ![k] =
             IF Succeeds(f.n) /\ outcome[f.n] # "oversized" THEN d ELSE Ended(rest)]
    BY DEF ServeRequest, given
  <1>2. /\ c \in ConnectionType /\ Sound(c, Request, Done) /\ Request \in Nat
        /\ Smooth(c, phase, next_id, Request) /\ next_id \in Nat
        /\ conns \in Seq(ConnectionType) /\ executed \in Seq(1 .. MaxRequests)
    BY SmoothAt DEF ExchangeInv, ConnsSound, ScalarsTyped
  <1>3. c.up \in Seq(FrameType) /\ c.down \in Seq(FrameType)
    BY <1>2, ConnectionTyped
  <1>4. /\ Tail(c.up) \in Seq(FrameType)
        /\ \A x \in DOMAIN Tail(c.up) : x + 1 \in DOMAIN c.up /\ Tail(c.up)[x] = c.up[x + 1]
        /\ 1 \in DOMAIN c.up /\ f = c.up[1] /\ f \in FrameType
    BY <1>1, <1>3, PartTail
  <1>5. phase = "await" /\ f.n = Request /\ f.id < next_id
    BY <1>1, <1>2, <1>4 DEF Smooth
  <1>6. f.n \in 1 .. MaxRequests
    <2>1. f.n \in 1 .. Request
      BY <1>1, <1>2, <1>4 DEF Sound, UpFrame
    <2>2. Request <= MaxRequests
      BY DEF ExchangeInv, ScalarsTyped
    <2> QED
      BY <1>2, <2>1, <2>2, ExchangeAssumption
  <1>7. outcome[Request] = "ok" /\ Succeeds(f.n) /\ outcome[f.n] # "oversized"
    <2>1. DOMAIN outcome = 1 .. MaxRequests
      BY DEF ExchangeInv, ScalarsTyped
    <2>2. outcome[f.n] = "ok"
      BY <1>5, <1>6, <2>1 DEF Faultless, SmoothInv, AttemptInv
    <2> QED
      BY <1>5, <2>2 DEF Succeeds
  <1>8. executed' = Append(executed, f.n) /\ One(k, d)
    BY <1>1, <1>7 DEF One
  <1>9. c.down_open /\ c.up_open /\ c.server # "Ended"
    BY <1>2 DEF Smooth
  <1>10. /\ g \in FrameType /\ g.type = "Response" /\ g.id = f.id
         /\ h \in FrameType /\ h.type = "Close" /\ h.id = f.id
    BY <1>4 DEF Frame, FrameType, ReplyId
  <1>11. k \in Holders(Request)
    BY <1>1, <1>4, <1>5 DEF Holders, Asks
  <1> HIDE DEF f, g, h
  <1>12. /\ c.down \o <<g, h>> \in Seq(FrameType)
         /\ \A x \in DOMAIN (c.down \o <<g, h>>) :
              \/ x \in DOMAIN c.down /\ (c.down \o <<g, h>>)[x] = c.down[x]
              \/ x = Len(c.down) + 1 /\ (c.down \o <<g, h>>)[x] = g
              \/ x = Len(c.down) + 2 /\ (c.down \o <<g, h>>)[x] = h
    BY <1>3, <1>10, BehindTwo
  <1>13. /\ d \in ConnectionType /\ d.up = Tail(c.up) /\ d.down = c.down \o <<g, h>>
         /\ d.server = c.server /\ d.up_open = c.up_open /\ d.down_open = c.down_open
    BY <1>2, <1>4, <1>9, <1>12 DEF Written, ConnectionType
  <1> HIDE DEF d
  <1>14. /\ phase' = phase /\ next_id' = next_id /\ Request' = Request
         /\ results' = results /\ attempt' = attempt /\ Current' = Current
    BY <1>1 DEF clientVars, Request, Current
  <1>15. \A i \in DOMAIN d.down :
           \/ i \in DOMAIN c.down /\ d.down[i] = c.down[i]
           \/ i = Len(c.down) + 1 /\ d.down[i] = g
           \/ i = Len(c.down) + 2 /\ d.down[i] = h
    BY <1>12, <1>13
  <1>16. /\ Len(c.down) \in Nat /\ DOMAIN c.down = 1 .. Len(c.down)
         /\ DOMAIN d.down = 1 .. Len(c.down) + 2
    <2>1. Len(c.down) \in Nat /\ DOMAIN c.down = 1 .. Len(c.down)
      BY <1>3, LenProperties
    <2>2. <<g, h>> \in Seq(FrameType) /\ Len(<<g, h>>) = 2
      BY <1>10
    <2>3. Len(d.down) = Len(c.down) + 2
      BY <1>3, <1>13, <2>2, ConcatProperties
    <2> QED
      BY <1>12, <1>13, <2>1, <2>3, LenProperties
  <1>17. \A i \in DOMAIN c.down : d.down[i] = c.down[i]
    BY <1>15, <1>16
  <1>18. d.down[Len(c.down) + 1] = g
    <2>1. /\ Len(c.down) + 1 \in DOMAIN d.down /\ Len(c.down) + 1 \notin DOMAIN c.down
          /\ Len(c.down) + 1 # Len(c.down) + 2
      BY <1>16
    <2> QED
      BY <1>15, <2>1
  <1>19. \A i \in DOMAIN d.up : d.up[i].type = "Hello" => FALSE
    <2>1. \A i \in DOMAIN Tail(c.up) : i + 1 # 1
      BY <1>4, LenProperties
    <2> QED
      BY <1>2, <1>4, <1>13, <2>1 DEF Smooth
  <1>20. \A i \in DOMAIN d.up : d.up[i].type = "Request" =>
           phase = "await" /\ d.up[i].n = Request /\ d.up[i].id < next_id
    BY <1>2, <1>4, <1>13 DEF Smooth
  <1>21. \A i \in DOMAIN d.down : d.down[i].type = "Close" => d.down[i].id < next_id
    BY <1>2, <1>5, <1>10, <1>15 DEF Smooth
  <1>22. ASSUME NEW i \in DOMAIN d.down, d.down[i].type = "Close",
                d.down[i].id = next_id - 2
         PROVE  \E j \in DOMAIN d.down :
                  j < i /\ d.down[j].type = "Response" /\ d.down[j].id = next_id - 2
    <2>1. CASE i \in DOMAIN c.down
      <3>1. PICK j \in DOMAIN c.down :
              j < i /\ c.down[j].type = "Response" /\ c.down[j].id = next_id - 2
        BY <1>2, <1>5, <1>17, <1>22, <2>1 DEF Smooth
      <3>2. j \in DOMAIN d.down
        BY <1>16
      <3> QED
        BY <1>17, <3>1, <3>2
    <2>2. CASE i \notin DOMAIN c.down
      <3>1. i = Len(c.down) + 2 /\ d.down[i] = h
        BY <1>10, <1>15, <1>22, <2>2
      <3>2. Len(c.down) + 1 \in DOMAIN d.down /\ Len(c.down) + 1 < i
        BY <1>16, <3>1
      <3> QED
        BY <1>10, <1>18, <1>22, <3>1, <3>2
    <2> QED
      BY <2>1, <2>2
  <1>23. Smooth(d, phase', next_id', Request')
    <2>1. phase' # "welcome"
      BY <1>5, <1>14
    <2> QED
      BY <1>9, <1>13, <1>14, <1>19, <1>20, <1>21, <1>22, <2>1 DEF Smooth
  <1>24. ConnsSmooth'
    BY <1>8, <1>13, <1>14, <1>23, OneSmooth
  <1>25. Request \notin Done
    <2>1. Request \in Done => \A j \in DOMAIN conns : ~Asks(conns[j], Request)
      BY <1>5, ReplyLeavesNoCopy
    <2> QED
      BY <1>11, <2>1 DEF Holders
  <1>26. Orderly'
    <2>1. /\ Len(executed) \in Nat /\ DOMAIN executed = 1 .. Len(executed)
      BY <1>2, LenProperties
    <2>2. /\ Len(executed') = Len(executed) + 1 /\ executed' \in Seq(1 .. MaxRequests)
          /\ \A i \in 1 .. Len(executed) : executed'[i] = executed[i]
          /\ executed'[Len(executed) + 1] = Request
      BY <1>2, <1>5, <1>6, <1>8, AppendProperties
    <2>3. DOMAIN executed' = 1 .. Len(executed) + 1
      BY <2>2, LenProperties
    <2>4. ASSUME NEW i \in DOMAIN executed
          PROVE  executed[i] < Request
      <3>1. executed[i] \in 1 .. MaxRequests
        BY <1>2, ElementOfSeq, <2>1
      <3>2. executed[i] <= Request /\ executed[i] # Request
        BY <1>25 DEF SpentInv, Done
      <3> QED
        BY <1>2, <3>1, <3>2
    <2>5. ASSUME NEW i \in DOMAIN executed', NEW j \in DOMAIN executed', i < j
          PROVE  executed'[i] < executed'[j]
      <3>1. i \in DOMAIN executed
        BY <2>1, <2>3, <2>5
      <3>2. CASE j \in DOMAIN executed
        BY <2>1, <2>2, <2>5, <3>1, <3>2 DEF SmoothInv, Orderly, Increasing
      <3>3. CASE j \notin DOMAIN executed
        <4>1. j = Len(executed) + 1
          BY <2>1, <2>3, <3>3
        <4> QED
          BY <2>1, <2>2, <2>4, <3>1, <4>1
      <3> QED
        BY <3>2, <3>3
    <2>6. ASSUME NEW i \in DOMAIN executed'
          PROVE  outcome[executed'[i]] = "ok"
      <3>1. i \in DOMAIN executed \/ i = Len(executed) + 1
        BY <2>1, <2>3, <2>6
      <3> QED
        BY <1>7, <2>1, <2>2, <3>1 DEF SmoothInv, Orderly
    <2> QED
      BY <1>1, <2>5, <2>6 DEF Orderly, Increasing
  <1>27. OnlyLargeFail' /\ AttemptInv'
    BY <1>1, <1>14 DEF SmoothInv, OnlyLargeFail, AttemptInv
  <1> QED
    BY <1>24, <1>26, <1>27 DEF SmoothInv

LEMMA SmoothStep ==
    ASSUME ExchangeInv, SpentInv, Faultless, SmoothInv, Faultless',
           [ExchangeNext]_exchangeVars
    PROVE  SmoothInv'
  <1>1. kind = "persistent"
    BY DEF Faultless
  <1>2. ~SendMessage /\ ~BuildStream
    BY <1>1 DEF SendMessage, BuildStream
  <1>3. ~LoseConnection
    BY NotTheEnd DEF LoseConnection
  <1>4. ASSUME NEW k \in DOMAIN conns, ServerStep(k)
        PROVE  SmoothInv'
    <2>1. CASE k = Current
      <3>1. ~ServeEnd(k)
        BY <2>1, SmoothAt DEF Smooth, ServeEnd
      <3> QED
        BY <1>4, <2>1, <3>1, ServeRequestSmooth, ServeHelloSmooth DEF ServerStep
    <2>2. CASE k # Current
      <3>1. ~ServeRequest(k)
        <4>1. conns[k] \in ConnectionType /\ Left(conns[k])
          BY <2>2, LeftAt
        <4>2. conns[k].up \in Seq(FrameType)
          BY <4>1, ConnectionTyped
        <4>3. conns[k].up # << >> => /\ 1 \in DOMAIN conns[k].up
                                     /\ Head(conns[k].up) = conns[k].up[1]
          BY <4>2, PartTail
        <4> QED
          BY <4>1, <4>3 DEF Left, ServeRequest
      <3> QED
        BY <1>4, <2>2, <3>1, ServeLeft DEF ServerStep
    <2> QED
      BY <2>1, <2>2
  <1>5. CASE ClientStep
    BY <1>1, <1>3, <1>5, ConnectSmooth, AwaitWelcomeSmooth, SendRequestSmooth,
       RequestRefusedSmooth, AwaitResponseSmooth DEF ClientStep
  <1>6. ~\E k \in DOMAIN conns : Break(k)
    BY DEF Faultless, Break
  <1>7. CASE UNCHANGED exchangeVars
    BY <1>7 DEF SmoothInv, ConnsSmooth, AttemptInv, Orderly, Increasing, OnlyLargeFail,
       Current, Request, exchangeVars, clientVars, given
  <1> QED
    BY <1>1, <1>2, <1>4, <1>5, <1>6, <1>7, SendSmooth, ConnectRefusedSmooth
       DEF ExchangeNext

\* Nothing mends: a run that is faultless now has always been.
LEMMA FaultlessBefore ==
    ASSUME ExchangeInv, Faultless', [ExchangeNext]_exchangeVars
    PROVE  Faultless
  <1>1. breaks \in Nat
    BY ExchangeAssumption DEF ExchangeInv, ScalarsTyped
  <1>2. UNCHANGED given
    BY DEF ExchangeNext, exchangeVars, ClientStep, ServerStep, Send, SendMessage,
       BuildStream, ConnectRefused, Connect, AwaitWelcome, SendRequest, RequestRefused,
       AwaitResponse, LoseConnection, ServeRequest, ServeHello, ServeEnd, Break, given
  <1>3. breaks' = breaks \/ breaks' = breaks + 1
    BY DEF ExchangeNext, exchangeVars, ClientStep, ServerStep, Send, SendMessage,
       BuildStream, ConnectRefused, Connect, AwaitWelcome, SendRequest, RequestRefused,
       AwaitResponse, LoseConnection, ServeRequest, ServeHello, ServeEnd, Break
  <1>4. breaks' = 0 => breaks = 0
    BY <1>1, <1>3
  <1> QED
    BY <1>2, <1>4 DEF Faultless, given

\* As long as no connection breaks and the handlers answer, the requests of a
\* PersistentClient are executed at most once, in the order of the calls, and
\* those that fit the window of a stream do not fail; the others fail and are
\* never executed.
THEOREM FaultlessExactlyOnceHolds == ExchangeSpec => []FaultlessExactlyOnce
  <1> DEFINE FaultlessInv == Faultless => SmoothInv
  <1>1. ExchangeInit => SpentInv /\ FaultlessInv
    <2> SUFFICES ASSUME ExchangeInit PROVE SpentInv /\ SmoothInv
      OBVIOUS
    <2>1. /\ conns = << >> /\ results = << >> /\ executed = << >>
          /\ phase = "idle" /\ attempt = 0
      BY DEF ExchangeInit
    <2> QED
      BY <2>1 DEF SpentInv, SmoothInv, ConnsSmooth, AttemptInv, Orderly, Increasing,
         OnlyLargeFail
  <1>2. ExchangeInv /\ ExchangeInv' /\ SpentInv /\ [ExchangeNext]_exchangeVars => SpentInv'
    BY SpentStep
  <1>3. ExchangeInv /\ SpentInv /\ FaultlessInv /\ [ExchangeNext]_exchangeVars
          => FaultlessInv'
    <2> SUFFICES ASSUME ExchangeInv, SpentInv, FaultlessInv,
                        [ExchangeNext]_exchangeVars, Faultless'
                 PROVE  SmoothInv'
      OBVIOUS
    <2>1. Faultless
      BY FaultlessBefore
    <2> QED
      BY <2>1, SmoothStep
  <1>4. FaultlessInv => FaultlessExactlyOnce
    BY DEF FaultlessExactlyOnce, Faultless, SmoothInv, Orderly, Increasing, OnlyLargeFail
  <1> HIDE DEF FaultlessInv
  <1> QED
    BY <1>1, <1>2, <1>3, <1>4, ExchangeInvariant, PTL DEF ExchangeSpec
=============================================================================
