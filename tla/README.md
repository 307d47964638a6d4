# TrenchDB in TLA+

TrenchDB (`odio4u/trench-db`) is an in-memory key/value store served by one
node over a framed, multiplexed transport.  This directory holds TLA+ models
of its concurrent and failure-prone parts, the TLC configurations that check
them on small instances, and TLAPS proofs of what each of them promises for
every value of its constants.

`PROJECT.json` relates every definition to the source lines it models, lists
the runs with their properties, for each property a plausible bug that breaks
it, the hazards of the code, and the theorems.

## 1. The system

| Part | Source | State | Operations | Module |
|---|---|---|---|---|
| Storage event runtime | `engine/src/events` | queue and its statistics, lifecycle, handle mutex, runner thread, registry | `publish_storage_event`, `push`, `EventLoop::run`, `request_stop`, drop of the store | `EventRuntime` |
| Framed stream transport | `transport/src/tcp` | handshake state, stream map with half-close states and credit windows, write buffer | `start_handshake`, `open_stream`, `send_data`, `close_stream`, `reset_stream`, `recv_data`, `recv_frame`, `flush`, `send_ping` | `StreamTransport` |
| Storage node | `trench/src/api`, `engine/src/memory`, `engine/src/events/dispatcher.rs` | table map, collections, handlers under way, WAL and its buffer | put, get, update, delete, contains, add_table, remove_table; dispatch of an event to the WAL | `StorageService`, `StorageHistory` |
| Request/reply layer | `transport/src/client`, `transport/src/server`, `trench-cli/src/client.rs` | the client's manager and retry counters, one server task per connection | `PersistentClient::send`, `ResilientClient::build_stream` and `send_message`, `ResilientServer::run` | `RequestReply` |
| Checksummed WAL | `engine/src/wal` | file, synced prefix, `BufWriter`, position | `WalWriter::open`, `append`, `append_batch`, `flush`, `sync`; `WalReader`, `replay` | `WalLog` |
| Frame codec and byte stream | `transport/src/frame`, `transport/src/tcp/connection.rs` | write buffer, bytes under way, read buffer | `encode`, `decode`, `buffer_frame`, `flush`, `recv_frame` | `FrameWire`, `FrameChannel` |
| Identity vault | `trench/src/identity` | the vault's three files, the working directory's two | `NodeIdentity::new`, `exists`, `save`, `load`, `seed_identity` | `IdentityVault` |
| Configuration, reserved metadata, command line, process start, echo example, TLS | see `PROJECT.json` | none that changes | | not modelled |

How they meet: a client sends one request per stream and waits for a response
frame followed by Close (request/reply over transport).  The server task of
the connection calls the handler of the requested action.  The handler works on
the shared `MemoryStore` (two levels of `DashMap`) without awaiting, so
handlers of different connections interleave only where they touch the maps.
Every put, update and delete then publishes an event: the publisher takes a
task id, pushes it into the bounded queue under the handle mutex, and revives
the runner thread if it is dead.  The runner dispatches one event at a time to
the WAL manager, which appends and flushes.  Before any of that a start makes
or loads the node's identity, on which nothing else of the process waits or
acts while it happens.

What is hard about it:

- *Event runtime.* `push` and `request_stop` hold one mutex over long
  sections, one of them over a `join`; the runner reads the lifecycle and the
  queue at different moments; it may be replaced after a panic.  It is correct
  when there is never more than one runner, each accepted task is dispatched
  once and in order, a graceful stop drains, Stopped is final, and calls return.
- *Transport.* Two ends decide alone and their frames cross: half-closes,
  resets and credits must agree without a message to agree on them.  It is
  correct when credit is neither made nor lost, ids never clash, only frames
  made late by a removal are refused, and progress does not depend on luck.
- *Storage node.* Between finding a collection and using it the table may be
  removed; between a mutation and its event another mutation may come.  It is
  correct when clients see what atomic steps would give them and the log tells
  no lies and respects real time.
- *Request/reply.* A lost response looks like a lost request; a rejection looks
  like a broken connection; an abandoned server task may still execute what it
  has read.  It is correct when replies match requests, executions are bounded,
  calls return and abandoned tasks end.
- *WAL.* Batches fail in the middle, writes are torn, machines stop between a
  flush and a sync.  It is correct when what was acknowledged is replayed.
- *Frames on bytes.* The stream cuts bytes where it likes: a header may arrive
  in two pieces, two frames in one.  It is correct when frames come out as they
  went in, and without waiting for more than their own bytes.
- *Identity.* A start writes five files in place, one after the other, and may
  end in the middle of any; `exists` looks at names and not into files.  It is
  correct when no interruption changes who the node is or keeps it down.

## 2. Modules

    SerialExecutor          what the event runtime promises (abstract)
      <- EventRuntime           implements it (INSTANCE, checked and proved)
           EventRuntimeProofs   the proofs
      <- StorageService         uses it in place of the runtime (INSTANCE)
           StorageHistory       what clients may observe
           StorageServiceProofs the proofs
    FrameChannel            what a connection promises for frames (abstract)
      <- FrameWire              implements it (INSTANCE, checked and proved)
           FrameWireProofs      the proof
    StreamTransport         two managers over two such channels
      StreamTransportProofs     the proofs
    RequestReply            clients, connections and server tasks
      RequestReplyProofs        the proofs: connections and replies
      ExecutionProofs           more proofs: executions
    WalLog                  writer, reader, crash
      WalLogProofs              the proofs
    IdentityVault           starts, files, crashes, power losses
      IdentityVaultProofs       the proofs
    MC*                     TLC instances of the module after which they are named

The composition is by promise: `StorageService` submits, begins and ends
tasks of `SerialExecutor`, which `EventRuntime` is shown to implement, and
`RequestReply` keeps of the transport only the stream id, the order of a
connection and the Close after a response, which `StreamTransport` checks.
That a frame is received whole, once and in order is what `StreamTransport`
and `RequestReply` take for granted when they move frames: it is the promise of
`FrameChannel`, which `FrameWire` is shown to implement.

### EventRuntime (`engine/src/events`)

A step is a critical section of the code or a run of instructions that no
other thread can observe.  Publishers go through `pc`: `Publish` is the id
taken by `publish_storage_event`, `PushCheck`, `PushRefuse`/`PushEnqueue` and
`PushRecheck` are `EventLoopSupervisor::push` under the handle mutex, whose
owner is not a variable but a state function (`HandleFree`): the publisher
between its two checks, or the thread that joins.  The runner goes through
`rpc`, one action for each visit of shared state in `EventLoop::run`;
`RunnerTimeout` may fire with a task in the queue, as a condition variable
lets it.  `RunnerPanic` unwinds past `complete_shutdown` and past the decrement
of `active_runners`.  `RequestStop`, `StopTake`, `StopJoin` and `Unregister`
are the drop of the store.  Thread identities are reused once dead, so two of
them suffice for one live and one joined runner.

`accepted`, `ended`, `promised` and `panics` are history variables; no guard
of the code reads them, `panics` bounds the faults.

### StreamTransport (`transport/src/tcp`)

One action per call of `StreamManager` and one per frame type that
`recv_frame` handles; a refused frame is taken off the wire and changes nothing
(`RecvRefused`), with the reason in `Refusal`.  A payload is its length, also
that of a Ping (`PingSizes`), which the Pong repeats.  Sizes, thresholds and
windows are in one small unit, and `TransportAssumption` asks of `MaxBuffer`
what the code's constants satisfy.  A frame that does not fit the write buffer
(`Fits`) meets `BufferOverflow` and leaves the buffer as it was, so a Ping
whose Pong does not fit is refused by `recv_frame`.  A flush hands all buffered
frames to the wire at once.  `ConnectionFails` is the other outcome of an
operation on the socket, at any time: some of the frames being written still
arrive, the call returns an error, and the owner of the manager drops it
(`broken`).  `next_local_id` advances by two with the exhaustion check of the
code; `MaxId` stands for `u32::MAX`, and `MaxOpen` bounds the streams that an
end has opened and not let go of.

### StorageService, StorageHistory (`trench/src/api`, `engine/src/memory`)

A handler is split at its accesses of the maps.  A collection is named by a
number that is never used again, and a handler that found one keeps it
(`held`, the `Arc`), also after the table was removed.  A call's number is the
value it writes.  `Publish` either submits to the `SerialExecutor` or, when the
queue is full, gives the event up: the code prints the error and answers ok all
the same.  `Answer` is a step of its own, so that the runner may log an entry
before its call is answered.  The history begins with the tables `Seeded`: the
reserved one, in which `seed_identity` has put the node's identity
(`IdentityKey`) without an event, and what was added before.
`WriteEvent`, `FlushFails` and `AppendFails` are the dispatcher over the `ewal`
manager, of which only use is visible: a flush may write a part and leave
the rest in its buffer, and an append may find the buffer full.

`StorageHistory` says what a client may observe: `Explains` searches for
an order of atomic steps that respects real time and gives every call its
result.  It is a recursive function, not an operator, so that the prover can
reason about it.

### RequestReply (`trench-cli/src/client.rs`, `transport/src/client`, `transport/src/server`)

One client, of either kind, and a server task for each connection.  `Break`
cuts a connection in both directions at any point and loses a suffix of what
was under way; an end that is closed is read to its end.  Handlers answer,
reject, answer once and reject the repetition (as `add_table` does), or answer
more than the window of a stream.  A request may be above the window, too:
then `send_data` refuses it (`RequestRefused`), the client drops its manager,
and `PersistentClient` tries again, in vain.

### WalLog (`engine/src/wal`)

An entry is two cells, so that it can be torn; the header is entry 0.  The
`BufWriter` may spill at any write, a crash keeps the synced prefix and any
part of what follows it.  Three history variables tell what went wrong: `torn`
has the incomplete entries that a writer went on after, because its own write
failed or because they were in the file it opened; `late` has the entries
acknowledged while there were such; `stray` counts the cells that failed writes
of this writer left.  See section 6.

### FrameWire, FrameChannel (`transport/src/frame`, `transport/src/tcp/connection.rs`)

One direction of a connection, at the level of bytes.  A byte is its place in a
frame (`Encoded`), so that a reader that loses the border between two frames
finds no header.  `Flush` puts the write buffer on the wire; `RecvMore` takes
any nonempty part of what is there; `RecvFrame` decodes from the read buffer and
keeps the rest.  `Break` cuts the connection at any byte.  Frames are those that
a caller can make: of either class, with the control flag right or wrong (the
sender does not validate, the receiver does), with a payload that fits, and with one
whose length does not fit the header's `u32`, which `encode` refuses.  The
abstract channel takes a frame in when the write buffer does and hands frames
out in order up to the first that `validate` refuses.  A peer that
is not this program, with another magic or version, is left out.

### IdentityVault (`trench/src/identity`)

One action per file operation of `NodeIdentity::new` and what it calls:
`New` asks `exists` and takes one of two ways; `Create*`, `Save*`, `Copy*` write the
files in the order of the code, and every `Write` may end the process in
its middle and leave a torn file.  `file` is what a reader sees, `disk` what a
power loss may leave of each file: all that was written since the last
`sync_all` of that file, torn or whole.  What the file system does is external;
it is assumed that a synced file keeps its name and its content.  An identity is an id and
its `bootstraped` flag, and a certificate or key is the identity it was made for.
Seeding changes memory only, so it is a part of `Serve`, and
the configuration and the WAL directory that a start prepares first keep no
state that the identity depends on.

## 3. Runs

All runs use `CHECK_DEADLOCK FALSE` except those of the runtime, where a
deadlock would be a real one: there the only state without another step is the
explicit `Terminated`.  In the others the system may rest, because nobody has
to send and the bounds on calls, frames and faults are guards.

| Run | Question | Bounds |
|---|---|---|
| Runtime | Is there one runner, each task once and in order, sound accounting, a stop that drains, a final Stopped, a refinement of `SerialExecutor`?  Do accepted tasks run and do calls return? | 2 publishers, 2 thread identities, capacity 2, 3 tasks, 2 panics, failing spawns; no symmetry |
| TransportSafety | Is credit conserved, a remote close final, the handshake first, and who may overflow the write buffer? | window 2, threshold 3, buffer 6, `MaxId` 3, 4 frames in flight per end, one ping of size 4 |
| TransportStreams | Do ids never clash, with streams opened by both ends and ids after ids? | window 1, `MaxId` 5, one stream per opener at a time, 2 frames in flight per end, a connection that may break, no pings |
| TransportLiveness | Do credit, handshake and resets arrive? | window 1, `MaxId` 3, one empty ping in all, a connection that may break |
| Service | Do the log and the clients' results make sense? | 2 clients (symmetric), 3 calls of all seven actions, a table and the reserved one, both there from the start, 2 keys, one of them the identity's, queue of 1, failing disk |
| Exchange | Do replies match, are executions bounded, do calls return and tasks end? | both clients, 2 requests, also above the window, 1 retry, 2 breaks, 6 connections, refused connects |
| Wal | Is what was acknowledged replayed, in order? | 5 entries in batches of 1 or 2 with one possibly oversized, crashes, failing writes and syncs |
| Wire | Do frames survive any cutting of their bytes, and arrive without waiting for others? | 3 frames of either class, flag right or wrong, lengths 0, the header's, and one beyond the header's length field; any break |
| Identity | Is a node's identity permanent, its vault consistent, and does it start again? | 2 interruptions at any step, 1 power loss, starts with either flag |
| TransportStall, ServiceOneEntry, ExchangeReuse | What a document says and the code does not do, section 5 | the smallest that show it |

Why the bounds are enough to mean something.  Two publishers contend for the
mutex and three tasks overfill a queue of two, so that every refusal, revival
and crossing with the stop happens; two panics in a row reach the state in
which a revived runner dies as well.  A window of two lets data be split,
partly consumed and partly granted while a reset crosses it; four frames in
flight are more than one flush; a ping of size 4 fits an empty buffer of 6 and
not one that holds two frames, so that pings and their Pongs are refused and
accepted next to data.  With `MaxId` 5 the initiator opens stream 1 and, once it
has let go of it, stream 3, while the acceptor's stream 2 and late frames of
stream 1 are still about; nothing but `next_local_id` keeps an id from coming
back.  Refused pings do not occur in that run; they do in TransportSafety, and the
theorem covers both.  Three calls on two connections let one call
surround two others, which is what a lost table, a reordered log or an
unexplained result needs.  Six connections are all that a client can make:
two requests of two attempts each, and one more for each of the two breaks
that hit a handshake, so `MaxConnections` withholds none.  Five entries
let a batch fail between two that succeed, with a crash before or after each.
Three frames are one before, one in, and one behind the frame that a piece of
bytes cuts; the buffer of six bytes holds one long frame or three empty ones.
Two interruptions are a start that leaves a vault incomplete, and a second that
meets what the first left; a power loss may come before, between or after.

Every property has a mutant in `PROJECT.json`: a definition with a plausible
bug (an unchecked guard, a dropped update, a swapped order) under which the run
reports the property violated.

### Properties

*Runtime.* `SingleRunner`; `ExactlyOnceInOrder` (the accepted sequence is
what ended, followed by what is being dispatched, followed by the queue);
`QueueAccounting`; `RunnerCount` (the counter is one too high for every panic,
and never too low); `GracefulStopDrains`; `StoppedIsFinal`;
`ImplementsSerialExecutor`; `AcceptedTasksRun` (a panic leaves tasks in the queue
until the next push: unless the runner is dead or panics again, whatever was
accepted ends); `CallsReturn`.

*Transport.* `CreditConserved` (an equation over the sender's window, the data
underway, the queue and the Window frames underway, which survives half-closes
and resets); `RecvWindowExact`; `OnlyPingsOverflow` (a Ping or Pong may meet
`BufferOverflow`, and whatever pings did before, no frame of a stream does, for
the largest that credit allows still fits); `OnlyLateFramesRefused` (besides
pings whose Pong does not fit); `RemoteCloseIsFinal`; `HandshakeFirst`;
`IdsNeverReused`; and unless the connection breaks, `CreditReturns`,
`HandshakeCompletes`, `ResetReachesPeer`.

*Service.* `LogRespectsRealTime`; `LogIsHonest` (an entry is a mutation that was
applied and is answered ok, by now or by its handler's next step); `ReplayAgrees`
(for keys whose mutations did not overlap, in tables nobody removed; not for
the reserved table, whose one key is never logged and is seeded by every start);
`ResultsExplained`.

*Exchange.* `RepliesMatch`; `ExecutionsBounded`, which counts the copies that
abandoned tasks may still execute; `FaultlessExactlyOnce` (without breaks and
rejections: requests that fit are executed once, in order, and none fails; those
above the window fail, are never executed, and do no harm to their neighbours);
`SendReturns`; `TasksEnd`.

*WAL.* `AcknowledgedIsReplayed` (but for the entries in `late`);
`ReplayInOrder`; `PositionExact` (up to the cells in `stray`);
`CleanBetweenCalls` (an incomplete entry between two calls is in `torn`).

*Wire.* `ImplementsFrameChannel`; `FramesArrive`.  The limit of `recv_frame` on
its read buffer, a header and 16 MiB, is not exercised: no sender gets a frame
of more than 256 KiB into its write buffer.

*Identity.* `PermanentIdentity`; `VaultConsistent`; `StartsAgain`.

## 4. Fairness

- Runtime (`FairSpec`): a thread that can run is run - each runner, each
  publisher inside `push`, the thread that drops the store.  Nothing makes
  anyone publish, drop the store or panic.  The mutex is not fair, but tasks
  are bounded by `MaxTasks`, so weak fairness of `push` does not assume a fair
  queue of waiters; that an endless stream of other pushes cannot starve one
  is the operating system's promise and not checked.
- Transport (`ReadingSpec`): both applications keep reading frames and taking
  data.  `CreditReturns` adds, as its premise `Flushing`, that they flush after
  what they did.  Of the code's own callers, the server takes data with
  `recv_data` and flushes when it has answered (`resilient_server.rs:87`); the two
  clients read frames with `recv_frame` only and never take data, so they give
  no credit back and live on the first window of each stream, as `RequestReply`
  models it.  For them the property says nothing.  The other two need no flush.
- Exchange (`FairExchange`): tokio polls the client's future and the server
  tasks that have something to read.  A peer that vanishes without closing
  is not modelled; nothing in the code would notice it.
- Wire (`ReadingWireSpec`): the receiver's caller keeps calling `recv_frame`.
  `FramesArrive` speaks of frames that were flushed.
- Identity (`FairVaultSpec`): a process that runs goes on, and somebody starts it
  again when it is down.  Interruptions and power losses are bounded and not fair.
- Service and WAL have safety properties only.

## 5. Where documents and code differ

Each has a run that shows it and a finding in `PROJECT.json`.

- `TransportStall`: `stream.md` says that `recv_data` sends the Window frame
  immediately; it is buffered, and a sender out of credit waits for a flush.
- `ServiceOneEntry`: `wal.md` says each mutation produces exactly one entry; a
  full queue drops the event of an acknowledged mutation.
- `ExchangeReuse`: `resilient.md` describes many calls on one connection; the
  second `send_message` greets a server that refuses a second Hello.

Met while modelling, not in a run of their own: `storage-integration.md:16`
and `:113` accept that tasks still queued when the store drops are lost, but
the code loses none unless a runner panics: `request_stop` (`loops.rs:142`) joins
a runner that leaves its loop only after it has found the queue empty, which is what
`GracefulStopDrains` and `AcceptedTasksRun` say; `manager.md:246` lists
`BufferOverflow` for any send path, but only pings and their Pongs can meet it,
for which `frame.rs:52` recommends an empty payload and the code enforces none;
a request above the window of a stream is retried by `PersistentClient`, each
time on a new connection, though it cannot succeed; `design.md:109` says that a
Stopping runtime accepts no new tasks, but `push` does not look at the lifecycle and
returns Ok; `usage.md` says that
`request_stop` stops supervision, and each later push spawns a runner that leaves at
once; `add_table` is called idempotent and answers an error for a table that
exists, and two concurrent ones may both answer ok; a rejected request is
retried by `PersistentClient` because the server ends the connection instead
of answering; `add_table` retried after a lost response reports a failure
although it was executed; the example in `connection.rs:54` sends a Ping without
the control flag, which the peer's `validate` refuses; `node_identity.rs:53-56`
says that `bootstraped` generates a fresh identity and its absence loads one,
but a vault that exists is loaded whatever the flag, and without a vault a full
identity is made whatever the flag, so that the error at the end of
`NodeIdentity::new` cannot be reached; "each node owns a permanent identity"
(`prd.md:86`) holds while the machine keeps power, because the vault's copies of
certificate and key are not synced and a vault without them is replaced;
`exists` does not look into files, so that a node interrupted while it copies the
key serves from then on with a torn one.

## 6. What the WAL model claims, and until when

`WalWriter::open` checks the header and then appends at the end of the file.
After a crash that tore the last entry the new entries follow a broken one, and
`replay` stops at it: entries acknowledged from then on are not replayed.  A
write that fails after a part of an entry was buffered has the same effect, and
leaves `position` behind the file.  `options.rs:7` makes the caller responsible
for repairing a broken tail, and no document promises more for this writer, so
there is no violation run.

The properties say exactly this much.  `ReplayInOrder` holds always.
`AcknowledgedIsReplayed` covers what was acknowledged before the first such
incomplete entry, for ever: it stays replayable when writes fail behind it, when
the machine stops, and when writers reopen the file and go on.  What was
acknowledged behind one (`late`) is acknowledged and lost.  `PositionExact` gives
the distance between `position` and the end of the file: the cells that failed
writes left.  `CleanBetweenCalls` says where an incomplete entry may come from:
only from a write of its own that failed, or from the file as it was
opened, never from a refused batch, a failed flush or sync, or a drop.

The node logs through `ewal`, not through this writer: `engine/src/lib.rs:12`
comments the module out of the build.  It is modelled as the repository has it,
with its tests and documents.

## 7. Proofs

`EventRuntimeProofs` proves for any publishers, any finite nonempty set of
thread identities, any capacity, faults and bounds, from `RuntimeAssumption`
alone:

| Theorem | Statement |
|---|---|
| `TypesHold`, `TypeOKHolds` | types, and `active_runners` never below zero |
| `SingleRunnerHolds` | two runners never live at once |
| `ExactlyOnceHolds` | each accepted task once and in order |
| `RuntimeRefinesExecutor` | `Spec => Abstract!AbstractSpec` |
| `QueueAccountingHolds` | capacity and statistics |
| `RunnerCountHolds` | the counter, up to the panics |
| `StoppedIsFinalHolds` | the action property |
| `GracefulStopDrainsHolds` | a stop drains unless something panicked |

The argument.  None of the properties is inductive alone; each invariant
below is used by those after it.

1. `Typed`.
2. `LockInv`: the mutex has at most one holder, and while a thread joins it
   holds a runner and the handle is empty.  `LiveInv`: a live runner is the one
   in the handle or the one being joined.  Together they give `SingleRunner`:
   `SpawnRunner` needs a dead handle and the mutex, so nothing is being joined.
3. `IdInv`: ids come from one counter, so a publisher on its way to the queue
   carries an id that is unique and was never accepted.  With `InOrder`
   (`accepted = ended \o Current \o queue`) this is `ExactlyOnceInOrder`.  Every
   step is classified by `StepEffect` into taking the oldest task, ending the
   current one, enqueuing, or leaving the sequences alone, and the refinement
   follows the same classification: `Begin`, `End`, `Submit`, a stutter.
4. `CountInv` replaces the cardinality of `RunnerCount` by a test, which
   suffices because there is one runner.
5. `StoppedInv`: when the lifecycle is Stopped no runner is past its
   `ShouldContinue` test; a respawned one leaves.
6. `StopInv` and `DrainInv`: without panics, a runner leaves its loop only
   after it has seen an empty queue while stopping, all that was accepted before
   the stop was in front of that, and the joining thread waits for it.

`StorageServiceProofs` proves for any clients, tables, keys, actions and queue
capacity, any number of calls and any faults, from `ServiceAssumption` alone:

| Theorem | Statement |
|---|---|
| `ServiceTypesHold` | types; no handler uses a collection it does not hold |
| `LogRespectsRealTimeHolds` | the log keeps the order of calls that did not overlap |
| `LogIsHonestHolds` | an entry is a mutation answered ok, by now or by the next step of its handler, and has no duplicate |
| `ReplayAgreesHolds` | the log gives back the keys in memory, where it can, but for the reserved table |
| `ResultsExplainedHolds` | the results of all calls are those of atomic steps in an order that respects real time |

The argument.

1. `HandlerInv`: a handler that is not idle serves an unfinished call, which is
   its own; it serves the reserved table only to read; it reaches `publish` only
   with a mutation.  `ServiceTypeOK` needs it for the call that a handler answers.
2. `HandleEffect` classifies each handler step: it goes on, or answers its
   call.  `BeforeInv` follows: the calls in a call's `before` are finished, and
   finished calls do not change (`BeforeAfter`).
3. `LogInv`: entries are honest and distinct, and none stands behind an entry
   in whose `before` it is.  `Log` is `wal \o wal_buffer \o current \o pending`.  An
   entry enters at its end in `Publish`, while its call is unfinished, so the
   newcomer is in nobody's `before` (`LogsCallKeeps`); all that is left to its
   handler then is to answer ok.  `TakeEvent`, `WriteEvent` and `FlushFails` move the
   borders between the four parts and leave `Log` alone; `AppendFails` takes one
   part out, which keeps the order of the rest (`TakenOut`).
4. For `ReplayAgrees`, three more invariants.  `PlacesInv`: no two tables share a
   collection, and a handler holds its table's collection unless the table was
   removed.  `LastInv`: whether a key of a table other than the reserved one is
   stored was decided by a mutation that
   took effect on it and is in the `before` of no other such (`HandleEffects`,
   `StoredWritten`, `StoredSame`); a mutation takes effect with its write, before
   it is answered.  `KeptInv`: an answered mutation is in the log or was given up
   (`SplitOut`).  In a quiet state that deciding mutation has an entry, and every
   other mutation of the key is in its `before` when none overlapped, so by `LogInv`
   its entry is the last.
5. For `ResultsExplained`, `ExplainedInv`: there is a *story*, an order of the
   steps taken so far in which every call comes after the calls it was received
   after, every result agrees with the reference store at its step, and the
   store at the end is what is in memory (`Story`, `Memory`).  It holds the steps
   a handler has taken and the answer it is about to give (`Progressed`).  A
   handler's step goes to the end of the story (`FitsAtEnd`).  The exception is
   a handler that uses a collection after its table was removed: its step is no
   longer true of memory, and goes just before the step that removed the table
   (`FitsBefore`).  That is sound because the removal forgets what it did
   (`RemoveForgets`), because each such collection is what its table was just
   before its own removal (`Left`), and because what the call waited for was over
   when the handler found the collection, so before the removal (`Holders`).
   The story is an existential: no variable of the model records it.  When the
   store is quiet the story has all steps of all calls, and following
   it from the start takes `Explains` to its end (`StoryExplains`).  That the
   recursive function exists at all is `ExplainsUnfolds`: "an end can be reached"
   satisfies its equation (`ReachesOn`), so the `CHOOSE` behind the definition has
   something to choose.  The story is followed backwards, by an induction over
   its numbers that rests on the least-number principle (`LeastNumber`, `UpTo`).

`StreamTransportProofs` proves for any bounds on streams, windows, chunks and
frames, from `TransportAssumption` alone:

| Theorem | Statement |
|---|---|
| `TransportTypesHold` | types; a frame under way has the fields of its kind |
| `HandshakeFirstHolds` | the initiator is established after the acceptor, streams after both greeted |
| `IdsNeverReusedHolds` | the action property: no end lets in an id it has had |
| `RemoteCloseIsFinalHolds` | half closed remotely means the peer has finished and nothing of it is under way |
| `OnlyLateFramesRefusedHolds` | a refused frame is for a stream its receiver has let go of, or a Ping whose Pong does not fit |
| `TypeOKHolds` | types in full: sizes of frames, windows, queues and buffers |
| `CreditConservedHolds` | the credit of a direction is never created and never lost |
| `RecvWindowExactHolds` | the receive window is the free part of the queue |
| `OnlyPingsOverflowHolds` | a frame of a stream always fits the write buffer, pings or not |

The argument.  `Kind` sorts the steps of an end by what they do to the
handshake, the stream map and the frames in flight (the wire, then the write
buffer); each invariant is shown once per kind.

1. `TransportTyped`.
2. `GreetInv`: the ends establish themselves in turn (`TurnInv`); each greeting
   in flight is the only one of its kind and the state of its sender allows it,
   and a stream's frame is in flight only from an established end to one that is
   established or will be by a Welcome in front of it (`GreetedFrom`).
3. `OpenInv`: an end opens ids of its parity in order, and what one end has seen
   the other has seen too or its Open is in flight (`IdInv`); an Open in flight is
   the only one of its id and new to the receiver, and every other frame of a
   stream has its Open in front of it unless the receiver has seen the id
   (`OpenedFrom`).  `HandshakeFirst`, `IdsNeverReused` and, with `GreetInv`,
   `OnlyLateFramesRefused` follow, but for data after a close.
4. `CloseInv` is about that: behind a Close there is no Data of the stream, and
   its sender can send none.  `RemoteCloseIsFinal` is its part at the receiver.
5. `LedgerInv`, one `Ledger` per stream: the two entries, the frames in flight
   each way and the ids seen, read from either end.  `Balanced` is the equation
   of `CreditConserved`; it is not inductive, because credit is lost with a frame
   that is refused or dropped, and a stream that begins must not meet credit of
   an earlier one.  So `Owned` says who can have frames underway: data, grants
   and queued bytes are only of ids that were seen, and an end that let go of a
   stream the other can still send on has a Reset underway.  `LedgersOfOthers`
   reduces each step to the ledger of the one stream it touches, and one lemma
   per operation keeps that (`LedgerSpends`, `LedgerReads`, `LedgerReceives`,
   `LedgerGranted`, `LedgerHalfCloses`, `LedgerDrops`, `LedgerLate`,
   `LedgerBegins`); they use the ids and closes of 3 and 4.
6. The sums themselves.  `SumFunction` adds in an order that `CHOOSE` picks, so
   `SumIs` shows, by the least-number principle on subsets, that any function
   giving the sum of every part of a domain gives `SumFunction`; what appending a
   frame and taking one do to a sum follows (`SumAppend`, `SumTail`,
   `CarriedAppend`, `CarriedTail`).
7. `RoomInv`: what stays in a write buffer is below the threshold, whatever
   pings were flushed with it or refused.  With the window's bound from 5, any
   frame of a stream fits (`SmallFits`), which is `OnlyPingsOverflow`.
   `BufferInv`: until the connection fails, `buffered` is the size of what is in
   the buffer.

`IdentityVaultProofs` proves for any number of interruptions and power losses,
from `VaultAssumption` alone:

| Theorem | Statement |
|---|---|
| `VaultTypesHold` | types |
| `PermanentIdentityHolds` | one identity for ever, while power lasts |
| `VaultConsistentHolds` | a vault that exists is whole up to the key, and loads |

The argument.

1. `DiskInv`: what a reader sees may survive, and whenever certificate and key
   may both survive a power loss, `identity.bin` survives it whole.  `MakingInv`
   and `LoadingInv` say for each step of the two ways which files it has behind
   it and for whom they are; the step that copies the certificate comes after
   the sync, which is what `DiskInv` needs.
2. `KeyIsLast`: while power was not lost, a vault with a key has certificate and
   `identity.bin` of one identity, and whoever served did so under it.  A start
   that finds it loads it; a start that makes a new one finds no vault, so nobody
   served before.

`RequestReplyProofs` and `ExecutionProofs` prove for any number of requests,
retries, connections and breaks, from `ExchangeAssumption` alone:

| Theorem | Statement |
|---|---|
| `ExchangeInvariant`, `ExchangeTypesHold` | the inductive invariant; types |
| `RepliesMatchHolds` | a reply is the reply to the caller's own request |
| `ExecutionsBoundedHolds` | one execution per attempt at most, late copies included |
| `FaultlessExactlyOnceHolds` | without breaks and rejections, each request that fits once, in order, none failed; no larger one executed |

The argument.

1. `ConnsSound`: what each connection carries.  Nothing but greetings comes before
   the Welcome, which comes once.  On the connection that the client numbers
   streams on, ids of requests and responses are below its next id, and those of
   the last id are about the request under way; a response is of a request that
   was executed.  So a response on the stream of a call is the call's, also when
   a response to an earlier call is still under way (`RepliesMatch`).
2. `SpentInv`: a connection carries a request at most once (`AskedOnce`), for a
   retry goes out on a new one, and a client about to send has none of its request on
   its connection.  The executions of request n and the connections that still
   hold it are together at most the attempts made (`Allowed`): an execution takes
   a copy off, a break may take one off, and an attempt adds one.  The sum is why
   the property counts the late copies; executions alone are not inductive.
3. `SmoothInv`, while nothing has gone wrong (`Faultless`).  Each connection is
   `Smooth`: the one in use (`Current`) is open at both ends, a request is under way
   on it only while the client waits for it, and a Close is behind its response.
   The others were `Left` when a request was refused on them, and hold none.
   So only a request above the window is ever tried again
   (`OnlyLargeFail`, `AttemptInv`), and the executed requests are those answered ok,
   in order (`Orderly`).  It uses `SpentInv` to see that no copy is left once a
   reply is there.

`WalLogProofs` proves for any number of entries, any batches and any faults, from
`WalAssumption` alone:

| Theorem | Statement |
|---|---|
| `WalTypesHold` | types |
| `AcknowledgedIsReplayedHolds` | what was acknowledged with `sync_on_flush` in front of any incomplete entry survives crashes, failed writes and reopening |
| `ReplayInOrderHolds` | a replay applies entries in order and none twice |
| `PositionExactHolds` | the writer's position is where the next entry goes, less what failed writes left |
| `CleanBetweenCallsHolds` | between calls an entry is incomplete only by its own failed write or from the file as opened |

The argument.  All invariants speak of the file and the buffer as one sequence,
which spilling leaves alone (`All`).  `OrderInv`: its cells are sorted, none newer
than what was written.  `PlaceInv`: the position and `stray` make up the length.
`WholeInv`: while a writer is there, what is incomplete is in `torn`, and as long as
that is empty, every pair of cells is an entry.  `StoredInv`: what was acknowledged
and is not `late` is whole, behind whole entries only, within the synced part,
which a crash keeps; the same holds of what is written of the batch while `torn`
is empty.  `BatchInv` says which numbers a batch has.  `Extent`, the maximum over
prefixes at which a replay stops, exists by the least-number principle; the
entry after it would be a larger one.

`FrameWireProofs` proves `WireImplementsChannel` (`WireSpec =>
Channel!ChannelSpec`) for all sizes of headers, frames, buffers and payloads,
from `WireAssumption` alone.  The argument: all bytes ever buffered are numbered,
and a function B gives the number of the last byte of each frame.  The read
buffer, the stream and, until the stream breaks, the write buffer carry the
numbers that follow one another (`Aligned`), the first of them the one after B of
the frames received.  So the first byte in the read buffer is the first of the
next frame, and taking off the length its header states leads to the next border,
because `encode` refuses a payload whose length the header cannot hold.  B
would be defined by recursion; the invariant only says that there is one, and
`BufferFrameStep` gives the next.

Every safety invariant and action property of the passing runs is a theorem.
Model-checked only: all liveness (the prover has no rule for fairness and
ENABLED).  The stories of `ExplainedInv` are too many for TLC to search, so that
invariant is proved only; TLC checks what follows from it.

## 8. Not modelled

- `StopPolicy::Immediate`, `EventLoop::post_task`, `recv` and `try_recv`, and
  the global supervisor: nothing in the engine calls them.
- Two stores in one process, which would share the registry of the event
  runtime so that a drop of either clears it.  The process (`main.rs`) makes one
  store, so neither a hazard nor a property is stated of two.
- WAL payloads, checksums, request parsing.  Names, keys and values that a
  handler refuses before it touches state.  Frames of a peer that is not this
  program.
- Socket buffers: the wire takes every flush, so two ends blocked in
  `write_all` are not reachable.
- How keys are made, signatures, the content of certificates, TLS.
- Configuration and its validation: read once at the start, no state.

## 9. Plan

Done, in this order: `SerialExecutor`, `EventRuntime` and its proofs,
`StreamTransport`, `StorageService` and `StorageHistory` with their proofs,
`RequestReply`, `WalLog`, `IdentityVault` and its proofs, `FrameChannel` and
`FrameWire`, then `StreamTransportProofs`, `WalLogProofs`, `RequestReplyProofs`,
`ExecutionProofs` and `FrameWireProofs`, and the proofs of the credit of
`StreamTransport` and of `ResultsExplained`.

Worth adding: a direct composition of `StreamTransport` and `RequestReply`.
Here they meet in an argument instead: a connection of `RequestReply` delivers
whole messages, each with its Close behind it, and refuses a response larger
than the window.
