---------------------------- MODULE RequestReply ----------------------------
(***************************************************************************)
(* Requests and replies over connections that may break: one client, the   *)
(* accept loop and one ResilientServer task per connection.  The client is *)
(* PersistentClient of trench-cli, which keeps its StreamManager, drops it *)
(* when an exchange fails and retries the whole exchange on a new          *)
(* connection; or, when kind is "resilient", ResilientClient of transport, *)
(* which keeps only the TCP stream and makes a new manager for every call. *)
(*                                                                         *)
(* A task of a connection the client has given up keeps serving what it    *)
(* can still read.  Flow control and stream states are StreamTransport's;  *)
(* what is kept of a stream is its id and that a response ends with Close. *)
(* Request n is the n-th the client sends.                                 *)
(***************************************************************************)
EXTENDS Naturals, Sequences, FiniteSets

CONSTANTS Kinds,           \* the clients: "persistent" or "resilient"
          MaxRetries,      \* PersistentClient::max_retries
          Outcomes,        \* what requests may meet, see below
          Faults,          \* "refuse": connecting may fail
          MaxRequests,     \* bound on the requests
          MaxBreaks,       \* bound on the connections that break
          MaxConnections   \* bound on the connections made

\* "ok": the handler succeeds.  "rejected": it returns an error and changes
\* nothing.  "once": it succeeds the first time and rejects what repeats it, as
\* add_table does.  "oversized": it succeeds with a response that send_data
\* refuses because it exceeds the window of a stream.  "large": the request
\* itself exceeds that window and never leaves the client.
AllOutcomes == {"ok", "rejected", "once", "oversized", "large"}

ASSUME ExchangeAssumption ==
    /\ Kinds \subseteq {"persistent", "resilient"}
    /\ Outcomes \subseteq AllOutcomes
    /\ MaxRetries \in Nat
    /\ MaxRequests \in Nat
    /\ MaxBreaks \in Nat
    /\ MaxConnections \in Nat

VARIABLES
    kind,      \* which client it is
    conns,     \* the connections, in the order of connecting
    phase,     \* where the client is in send or send_message
    inner,     \* the connection the client keeps between calls, 0 for none
    link,      \* the connection the exchange uses
    next_id,   \* next_local_id of the client's manager
    attempt,   \* the loop variable of send
    connects,  \* the loop variable of ensure_connected
    results,   \* history: what each request returned to the caller
    outcome,   \* what becomes of each request, one of Outcomes
    executed,  \* history: the requests handlers executed with effect, in order
    breaks     \* the connections that have broken so far

clientVars == <<phase, inner, link, next_id, attempt, connects, results>>
given == <<kind, outcome>>
exchangeVars == <<conns, clientVars, given, executed, breaks>>

Frame(type, id, n) == [type |-> type, id |-> id, n |-> n]
Hello == Frame("Hello", 0, 0)
Welcome == Frame("Welcome", 0, 0)

\* up: to the server, down: to the client; what is not read yet.  An end that
\* is not open delivers nothing more and is read to its end.
NewConnection(frames) ==
    [server |-> "AwaitingHello", up |-> frames, down |-> << >>,
     up_open |-> TRUE, down_open |-> TRUE]

Request == Len(results)
Pending == [tag |-> "pending", n |-> 0]

ExchangeInit ==
    /\ kind \in Kinds
    /\ conns = << >>
    /\ phase = "idle"
    /\ inner = 0
    /\ link = 0
    /\ next_id = 1
    /\ attempt = 0
    /\ connects = 0
    /\ results = << >>
    /\ outcome \in [1..MaxRequests -> Outcomes]
    /\ executed = << >>
    /\ breaks = 0

-----------------------------------------------------------------------------
(* The client.                                                             *)

\* The caller gets a result: the number of the request the payload answers,
\* or an error.
Give(tag, n) ==
    /\ results' = [results EXCEPT ![Request] = [tag |-> tag, n |-> n]]
    /\ phase' = "idle"

Upward(k, frames) ==
    [conns EXCEPT ![k].up = IF conns[k].up_open /\ conns[k].server # "Ended"
                            THEN @ \o frames ELSE @]

\* Dropping a manager or a TcpStream closes the client's end.
Dropped(k) == [conns EXCEPT ![k].up_open = FALSE, ![k].down = << >>,
                            ![k].down_open = FALSE]

\* PersistentClient::send: a manager that is there is used.
Send ==
    /\ kind = "persistent"
    /\ phase = "idle"
    /\ Request < MaxRequests
    /\ results' = Append(results, Pending)
    /\ phase' = IF inner # 0 THEN "request" ELSE "connect"
    /\ link' = inner
    /\ attempt' = 0
    /\ connects' = 0
    /\ UNCHANGED <<conns, inner, next_id, given, executed, breaks>>

\* PersistentClient::connect: the Hello goes out with the new connection.
Connect ==
    /\ phase = "connect"
    /\ Len(conns) < MaxConnections
    /\ conns' = Append(conns, NewConnection(<<Hello>>))
    /\ link' = Len(conns) + 1
    /\ phase' = "welcome"
    /\ UNCHANGED <<inner, next_id, attempt, connects, results, given, executed, breaks>>

\* One round of ensure_connected failed.
ConnectFailed ==
    IF connects < MaxRetries
    THEN /\ connects' = connects + 1
         /\ phase' = "connect"
         /\ UNCHANGED results
    ELSE /\ Give("unreachable", 0)
         /\ UNCHANGED connects

ConnectRefused ==
    /\ phase = "connect"
    /\ "refuse" \in Faults
    /\ ConnectFailed
    /\ UNCHANGED <<conns, inner, link, next_id, attempt, given, executed, breaks>>

\* ResilientClient::build_stream.
BuildStream ==
    /\ kind = "resilient"
    /\ phase = "idle"
    /\ inner = 0
    /\ Len(conns) < MaxConnections
    /\ conns' = Append(conns, NewConnection(<< >>))
    /\ inner' = Len(conns) + 1
    /\ UNCHANGED <<phase, link, next_id, attempt, connects, results, given,
                   executed, breaks>>

\* ResilientClient::send_message takes the stream and starts a handshake on it.
SendMessage ==
    /\ kind = "resilient"
    /\ phase = "idle"
    /\ inner # 0
    /\ Request < MaxRequests
    /\ results' = Append(results, Pending)
    /\ link' = inner
    /\ inner' = 0
    /\ conns' = Upward(inner, <<Hello>>)
    /\ phase' = "welcome"
    /\ UNCHANGED <<next_id, attempt, connects, given, executed, breaks>>

\* Mutant: one attempt too many.
AttemptFailedOneMore ==
    /\ inner' = 0
    /\ IF kind = "persistent" /\ attempt <= MaxRetries
       THEN /\ attempt' = attempt + 1
            /\ connects' = 0
            /\ phase' = "connect"
            /\ UNCHANGED results
       ELSE /\ Give("failed", 0)
            /\ UNCHANGED <<attempt, connects>>

\* The client gives up the exchange: PersistentClient discards its manager and
\* goes on to the next attempt, ResilientClient returns the error.
AttemptFailed ==
    /\ inner' = 0
    /\ IF kind = "persistent" /\ attempt < MaxRetries
       THEN /\ attempt' = attempt + 1
            /\ connects' = 0
            /\ phase' = "connect"
            /\ UNCHANGED results
       ELSE /\ Give("failed", 0)
            /\ UNCHANGED <<attempt, connects>>

Downward == conns[link].down
EndOfStream == Downward = << >> /\ ~conns[link].down_open

\* start_handshake: any other frame is refused, as is the end of the stream.
AwaitWelcome ==
    /\ phase = "welcome"
    /\ Downward # << >> \/ EndOfStream
    /\ IF ~EndOfStream /\ Head(Downward) = Welcome
       THEN /\ conns' = [conns EXCEPT ![link].down = Tail(@)]
            /\ phase' = "request"
            /\ inner' = IF kind = "persistent" THEN link ELSE 0
            /\ next_id' = 1
            /\ UNCHANGED <<attempt, connects, results>>
       ELSE /\ conns' = Dropped(link)
            /\ IF kind = "persistent"
               THEN ConnectFailed /\ UNCHANGED <<inner, attempt>>
               ELSE AttemptFailed
            /\ UNCHANGED next_id
    /\ UNCHANGED <<link, given, executed, breaks>>

\* open_stream, send_data, close_stream and flush.  When the connection is
\* gone the frames are lost; the error shows here or at the next read.
SendRequest ==
    /\ phase = "request"
    /\ outcome[Request] # "large"
    /\ conns' = Upward(link, <<Frame("Request", next_id, Request)>>)
    /\ next_id' = next_id + 2
    /\ phase' = "await"
    /\ UNCHANGED <<inner, link, attempt, connects, results, given, executed, breaks>>

\* send_data reports FlowControlViolation.  The manager is dropped, and the
\* Open it had buffered with it.
RequestRefused ==
    /\ phase = "request"
    /\ outcome[Request] = "large"
    /\ conns' = Dropped(link)
    /\ AttemptFailed
    /\ UNCHANGED <<link, next_id, given, executed, breaks>>

\* Mutant: the id of the frame is not looked at.
OfThisStreamAny(f) == TRUE

OfThisStream(f) == f.id = next_id - 2

\* The loop around recv_frame of send_request and send_message.  What a
\* ResilientClient leaves unread on its stream may be lost with the buffer of
\* the Connection it drops.
AwaitResponse ==
    /\ phase = "await"
    /\ Downward # << >>
    /\ LET f == Head(Downward)
       IN  CASE OfThisStream(f) /\ f.type = "Response" ->
                  /\ Give("ok", f.n)
                  /\ IF kind = "persistent"
                     THEN /\ conns' = [conns EXCEPT ![link].down = Tail(@)]
                          /\ UNCHANGED inner
                     ELSE /\ \E i \in 2..Len(Downward) + 1 :
                               conns' = [conns EXCEPT ![link].down =
                                           SubSeq(@, i, Len(@))]
                          /\ inner' = link
                  /\ UNCHANGED <<attempt, connects>>
             [] OfThisStream(f) /\ f.type = "Close" ->
                  /\ conns' = Dropped(link)
                  /\ AttemptFailed
             [] OTHER ->
                  /\ conns' = [conns EXCEPT ![link].down = Tail(@)]
                  /\ UNCHANGED <<phase, inner, attempt, connects, results>>
    /\ UNCHANGED <<link, next_id, given, executed, breaks>>

LoseConnection ==
    /\ phase = "await"
    /\ EndOfStream
    /\ conns' = Dropped(link)
    /\ AttemptFailed
    /\ UNCHANGED <<link, next_id, given, executed, breaks>>

ClientStep ==
    \/ Connect \/ AwaitWelcome \/ SendRequest \/ RequestRefused \/ AwaitResponse
    \/ LoseConnection

-----------------------------------------------------------------------------
(* The server: ResilientServer::run of connection k.                       *)

Executions(n) == Cardinality({i \in DOMAIN executed : executed[i] = n})

\* The task returns and drops its TcpStream.
Ended(c) == [c EXCEPT !.server = "Ended", !.up = << >>, !.down_open = FALSE]

\* What the client can still read of what the task writes.
Written(c, frames) == IF c.down_open THEN [c EXCEPT !.down = @ \o frames] ELSE c

\* The handler's effect, and whether it returns Ok.
Succeeds(n) ==
    outcome[n] \in {"ok", "oversized"} \/ (outcome[n] = "once" /\ Executions(n) = 0)

\* Mutant: the response goes out on the id that comes next.
ReplyIdNext(f) == f.id + 2

ReplyId(f) == f.id

\* Mutant: the reply goes out whatever the handler returned.
ServeRequestSwallowed(k) ==
    LET c == conns[k]
        f == Head(c.up)
        rest == [c EXCEPT !.up = Tail(@)]
        reply == <<Frame("Response", ReplyId(f), f.n), Frame("Close", ReplyId(f), 0)>>
    IN  /\ c.server = "Established"
        /\ c.up # << >>
        /\ f.type = "Request"
        /\ executed' = IF Succeeds(f.n) THEN Append(executed, f.n) ELSE executed
        /\ conns' = [conns EXCEPT ![k] = Written(rest, reply)]
        /\ UNCHANGED <<clientVars, given, breaks>>

\* A handler error, or a response that does not fit the stream's window, ends
\* run and with it the connection: the client is told nothing.
ServeRequest(k) ==
    LET c == conns[k]
        f == Head(c.up)
        rest == [c EXCEPT !.up = Tail(@)]
        reply == <<Frame("Response", ReplyId(f), f.n), Frame("Close", ReplyId(f), 0)>>
    IN  /\ c.server = "Established"
        /\ c.up # << >>
        /\ f.type = "Request"
        /\ executed' = IF Succeeds(f.n) THEN Append(executed, f.n) ELSE executed
        /\ conns' = [conns EXCEPT ![k] =
             IF Succeeds(f.n) /\ outcome[f.n] # "oversized"
             THEN Written(rest, reply)
             ELSE Ended(rest)]
        /\ UNCHANGED <<clientVars, given, breaks>>

\* Only the first Hello of a connection is welcome.
ServeHello(k) ==
    LET c == conns[k]
        rest == [c EXCEPT !.up = Tail(@)]
    IN  /\ c.server # "Ended"
        /\ c.up # << >>
        /\ Head(c.up) = Hello
        /\ conns' = [conns EXCEPT ![k] =
             IF c.server = "AwaitingHello"
             THEN Written([rest EXCEPT !.server = "Established"], <<Welcome>>)
             ELSE Ended(rest)]
        /\ UNCHANGED <<clientVars, given, executed, breaks>>

\* Mutant: the loop goes on after an error.
ServeEndIgnored(k) ==
    /\ conns[k].server # "Ended"
    /\ conns[k].up = << >>
    /\ ~conns[k].up_open
    /\ UNCHANGED exchangeVars

\* recv_frame reports ConnectionClosed.
ServeEnd(k) ==
    /\ conns[k].server # "Ended"
    /\ conns[k].up = << >>
    /\ ~conns[k].up_open
    /\ conns' = [conns EXCEPT ![k] = Ended(@)]
    /\ UNCHANGED <<clientVars, given, executed, breaks>>

ServerStep(k) == ServeRequest(k) \/ ServeHello(k) \/ ServeEnd(k)

\* The network loses the end of what is underway in both directions.
Break(k) ==
    /\ breaks < MaxBreaks
    /\ conns[k].up_open /\ conns[k].down_open
    /\ \E i \in 0..Len(conns[k].up), j \in 0..Len(conns[k].down) :
         conns' = [conns EXCEPT ![k].up = SubSeq(@, 1, i), ![k].up_open = FALSE,
                                ![k].down = SubSeq(@, 1, j), ![k].down_open = FALSE]
    /\ breaks' = breaks + 1
    /\ UNCHANGED <<clientVars, given, executed>>

-----------------------------------------------------------------------------
ExchangeNext ==
    \/ Send \/ SendMessage \/ BuildStream \/ ConnectRefused
    \/ ClientStep
    \/ \E k \in DOMAIN conns : ServerStep(k) \/ Break(k)

ExchangeSpec == ExchangeInit /\ [][ExchangeNext]_exchangeVars

\* The runtimes poll the client's future and every server task that has
\* something to read.  Nothing makes a connection break or be refused.
FairExchange ==
    /\ ExchangeSpec
    /\ WF_exchangeVars(ClientStep)
    /\ \A k \in 1..MaxConnections :
         WF_exchangeVars(k \in DOMAIN conns /\ ServerStep(k))

-----------------------------------------------------------------------------
(* Properties.                                                             *)

FrameType ==
    [type : {"Hello", "Welcome", "Request", "Response", "Close"}, id : Nat, n : Nat]
ConnectionType ==
    [server : {"AwaitingHello", "Established", "Ended"}, up : Seq(FrameType),
     down : Seq(FrameType), up_open : BOOLEAN, down_open : BOOLEAN]

\* Every variable has the type its declaration says; a client in an exchange
\* uses a connection there is, and one it keeps has an end that is its own.
ExchangeTypeOK ==
    /\ kind \in Kinds
    /\ conns \in Seq(ConnectionType)
    /\ phase \in {"idle", "connect", "welcome", "request", "await"}
    /\ {inner, link} \subseteq {0} \cup DOMAIN conns
    /\ phase \in {"welcome", "request", "await"} => link # 0
    /\ next_id \in Nat
    /\ attempt \in 0..MaxRetries
    /\ connects \in 0..MaxRetries
    /\ results \in Seq([tag : {"pending", "ok", "failed", "unreachable"}, n : Nat])
    /\ executed \in Seq(1..MaxRequests)
    /\ breaks \in 0..MaxBreaks

\* A reply the caller gets is the reply to its own request, and that request
\* has been executed: frames left over from earlier exchanges, on this or on
\* another connection, are never taken for it.
RepliesMatch ==
    \A n \in DOMAIN results :
        results[n].tag = "ok" => results[n].n = n /\ Executions(n) >= 1

\* ResilientClient never tries again.
Attempts == IF kind = "persistent" THEN MaxRetries + 1 ELSE 1

\* As long as no connection breaks, PersistentClient has the requests that the
\* handlers answer executed at most once and in the order of the calls, and
\* none of them fails.  A request above the window of a stream, the exception,
\* fails after all its attempts, is never executed, and does its neighbours no
\* harm, although each of its attempts costs the client the connection.
FaultlessExactlyOnce ==
    (/\ kind = "persistent"
     /\ breaks = 0
     /\ \A n \in DOMAIN outcome : outcome[n] \in {"ok", "large"}) =>
        /\ \A i, j \in DOMAIN executed : i < j => executed[i] < executed[j]
        /\ \A i \in DOMAIN executed : outcome[executed[i]] = "ok"
        /\ \A n \in DOMAIN results : results[n].tag = "failed" => outcome[n] = "large"

\* The copies of request n that a task may still read and execute.
Leftover(n) ==
    Cardinality({k \in DOMAIN conns :
        \E i \in DOMAIN conns[k].up :
            conns[k].up[i].type = "Request" /\ conns[k].up[i].n = n})

\* However often a request is retried, it is executed at most once per attempt.
\* A task of a connection that the client gave up may still execute a request
\* the client is done with, even after its successors; those executions count.
ExecutionsBounded ==
    \A n \in DOMAIN results :
        Executions(n) + Leftover(n) <= IF n = Request THEN attempt + 1 ELSE Attempts

\* send returns, however connections break, as long as the tasks run.
SendReturns == phase # "idle" ~> phase = "idle"

\* Every connection the client has given up is closed by its task.
TasksEnd ==
    \A k \in 1..MaxConnections :
        k \in DOMAIN conns /\ ~conns[k].up_open
            ~> k \in DOMAIN conns /\ conns[k].server = "Ended"

-----------------------------------------------------------------------------
(* What the documentation says of the exchange and the code does not do.   *)

\* resilient.md: the server "services any number of sequential requests - each
\* on its own stream - until the client disconnects".  The Hello of the second
\* send_message is refused.
ConnectionIsReusable ==
    breaks = 0 => \A n \in DOMAIN results : results[n].tag # "failed"
=============================================================================
