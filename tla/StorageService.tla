--------------------------- MODULE StorageService ---------------------------
(***************************************************************************)
(* The storage node (trench/src/api over engine): connection tasks run the *)
(* handlers of the seven actions against one MemoryStore, and every        *)
(* mutation publishes an event that the dispatcher writes to the           *)
(* write-ahead log.                                                        *)
(*                                                                         *)
(* A handler never awaits, but handlers of different connections run on    *)
(* different worker threads: each access to a DashMap is atomic, and       *)
(* between the access that finds a table's collection and the one that     *)
(* uses it everything else may happen.  The handler keeps the collection   *)
(* alive (Arc), so it may act on one that has left the store.              *)
(*                                                                         *)
(* The event runtime is used by its promise, SerialExecutor, which         *)
(* EventRuntime implements.  The value a call writes is the call's number. *)
(***************************************************************************)
EXTENDS Naturals, Sequences, FiniteSets

CONSTANTS Clients,   \* connection tasks
          Tables,    \* table names
          Reserved,  \* METADATA_TABLE
          Keys,      \* keys
          IdentityKey, \* "node_identity", which seed_identity inserts in Reserved
          Actions,   \* the actions clients send
          Seeded,    \* tables that exist when the history begins: Reserved, and
                     \* what add_table made before
          Capacity,  \* bound of the event queue, 0 for none
          Faults,    \* "spawn": a runner cannot be spawned; "disk": a write fails
          MaxCalls   \* bound on the calls

Mutations == {"put", "update", "delete"}
AllActions == Mutations \cup {"get", "contains", "add_table", "remove_table"}

ASSUME ServiceAssumption ==
    /\ Actions \subseteq AllActions
    /\ Seeded \subseteq Tables
    /\ Reserved \in Seeded
    /\ IdentityKey \in Keys
    /\ Capacity \in Nat
    /\ MaxCalls \in Nat
    /\ IsFiniteSet(Seeded)

VARIABLES
    tables,      \* MemoryStore::map: the number of each table's collection, or 0
    collections, \* the collections ever created, removed ones included
    pc,          \* where each connection task is in its handler
    call,        \* the number of the call it is serving
    held,        \* the collection whose Arc the handler holds
    calls,       \* history: the calls, in the order they came
    pending, current, ended,  \* the event runtime
    dropped,     \* history: mutations whose event or entry was given up
    wal_buffer,  \* BufWriter of the WAL writer
    wal          \* the WAL file

memoryVars == <<tables, collections>>
runtimeVars == <<pending, current, ended>>
walVars == <<wal_buffer, wal>>
serviceVars == <<memoryVars, pc, call, held, calls, runtimeVars, dropped, walVars>>

Events == INSTANCE SerialExecutor WITH Tasks <- 1..MaxCalls

NoRecord == [value |-> 0, version |-> 0]
EmptyCollection == [k \in Keys |-> NoRecord]

\* The record of the node's identity; no call writes its value.
Identity == MaxCalls + 1
IdentityCollection ==
    [EmptyCollection EXCEPT ![IdentityKey] = [value |-> Identity, version |-> 1]]

Result(tag, n) == [tag |-> tag, n |-> n]
Unfinished == Result("pending", 0)
Finished == {i \in DOMAIN calls : calls[i].result # Unfinished}

-----------------------------------------------------------------------------
\* Before the listener, seed_identity creates "metadata" and inserts the node's
\* identity, of which no event tells.
ServiceInit ==
    /\ tables \in {f \in [Tables -> 0..Cardinality(Seeded)] :
                     /\ \A t \in Tables : f[t] # 0 <=> t \in Seeded
                     /\ \A t, u \in Seeded : f[t] = f[u] => t = u
                     /\ f[Reserved] = 1}
    /\ collections = [i \in 1..Cardinality(Seeded) |->
                        IF i = 1 THEN IdentityCollection ELSE EmptyCollection]
    /\ pc = [c \in Clients |-> "idle"]
    /\ call = [c \in Clients |-> 0]
    /\ held = [c \in Clients |-> 0]
    /\ calls = << >>
    /\ Events!AbstractInit
    /\ dropped = {}
    /\ wal_buffer = << >>
    /\ wal = << >>

Serving(c) == calls[call[c]]

\* The handler returns; calls[call[c]] gets its result.
Return(c, tag, n) ==
    /\ calls' = [calls EXCEPT ![call[c]].result = Result(tag, n)]
    /\ pc' = [pc EXCEPT ![c] = "idle"]
    /\ UNCHANGED <<call, held>>

\* The handler goes on with collection h.
GoOn(c, next, h) ==
    /\ pc' = [pc EXCEPT ![c] = next]
    /\ held' = [held EXCEPT ![c] = h]
    /\ UNCHANGED <<call, calls>>

-----------------------------------------------------------------------------
(* The handlers, one access of shared state at a time.                     *)

\* Mutant: the guard on the reserved table is missing.
AllowedAnywhere(action, t) == TRUE

Allowed(action, t) == t = Reserved => action \in {"get", "contains"}

\* A decoded request that passes validation starts its handler; one that
\* writes to the reserved table is refused at once.
Receive(c, action, t, k) ==
    /\ pc[c] = "idle"
    /\ Len(calls) < MaxCalls
    /\ call' = [call EXCEPT ![c] = Len(calls) + 1]
    /\ calls' = Append(calls,
                  [action |-> action, table |-> t, key |-> k, before |-> Finished,
                   result |-> IF Allowed(action, t) THEN Unfinished
                                                    ELSE Result("refused", 0)])
    /\ pc' = [pc EXCEPT ![c] = IF Allowed(action, t) THEN "table" ELSE "idle"]
    /\ UNCHANGED <<memoryVars, held, runtimeVars, dropped, walVars>>

\* Mutant: nobody asks whether there is such a table.
FindTableUnchecked(c) ==
    /\ pc[c] = "table"
    /\ Serving(c).action \in {"get", "contains", "update", "delete"}
    /\ GoOn(c, "key", tables[Serving(c).table])
    /\ UNCHANGED <<memoryVars, runtimeVars, dropped, walVars>>

\* MemoryStore::get by the handlers of get, contains, update and delete.
FindTable(c) ==
    /\ pc[c] = "table"
    /\ Serving(c).action \in {"get", "contains", "update", "delete"}
    /\ LET h == tables[Serving(c).table]
       IN  IF h # 0
           THEN GoOn(c, "key", h)
           ELSE IF Serving(c).action = "contains" THEN Return(c, "ok", 0)
                                                  ELSE Return(c, "no table", 0)
    /\ UNCHANGED <<memoryVars, runtimeVars, dropped, walVars>>

\* Mutant: create replaces a collection that is there.
CreateTableAnew(t) ==
    /\ collections' = Append(collections, EmptyCollection)
    /\ tables' = [tables EXCEPT ![t] = Len(collections) + 1]

\* MemoryStore::create: entry().or_insert_with().
CreateTable(t) ==
    IF tables[t] # 0
    THEN UNCHANGED memoryVars
    ELSE /\ collections' = Append(collections, EmptyCollection)
         /\ tables' = [tables EXCEPT ![t] = Len(collections) + 1]

PutCreatesTable(c) ==
    /\ pc[c] = "table"
    /\ Serving(c).action = "put"
    /\ CreateTable(Serving(c).table)
    /\ GoOn(c, "key", tables'[Serving(c).table])
    /\ UNCHANGED <<runtimeVars, dropped, walVars>>

\* Collection::get and contains.
ReadKey(c) ==
    /\ pc[c] = "key"
    /\ Serving(c).action \in {"get", "contains"}
    /\ LET r == collections[held[c]][Serving(c).key]
       IN  Return(c, "ok", IF Serving(c).action = "get" THEN r.value
                           ELSE IF r = NoRecord THEN 0 ELSE 1)
    /\ UNCHANGED <<memoryVars, runtimeVars, dropped, walVars>>

\* The record a mutation leaves: insert starts again at version 1, update
\* continues or starts, remove leaves none.
Changed(action, record, n) ==
    CASE action = "put" -> [value |-> n, version |-> 1]
      [] action = "update" -> [value |-> n, version |-> record.version + 1]
      [] action = "delete" -> NoRecord

\* Collection::insert, update and remove.
WriteKey(c) ==
    /\ pc[c] = "key"
    /\ Serving(c).action \in Mutations
    /\ collections' = [collections EXCEPT ![held[c]][Serving(c).key] =
                         Changed(Serving(c).action, @, call[c])]
    /\ GoOn(c, "publish", held[c])
    /\ UNCHANGED <<tables, runtimeVars, dropped, walVars>>

Full == Capacity # 0 /\ Len(pending) >= Capacity

\* publish_event, whose failures are only printed.  The runner may dispatch the
\* event before the handler answers.
Publish(c) ==
    /\ pc[c] = "publish"
    /\ \/ /\ Events!Submit(call[c])
          /\ UNCHANGED dropped
       \/ /\ Full \/ "spawn" \in Faults
          /\ dropped' = dropped \cup {call[c]}
          /\ UNCHANGED runtimeVars
    /\ GoOn(c, "answer", held[c])
    /\ UNCHANGED <<memoryVars, walVars>>

Answer(c) ==
    /\ pc[c] = "answer"
    /\ Return(c, "ok", 0)
    /\ UNCHANGED <<memoryVars, runtimeVars, dropped, walVars>>

AddTableChecks(c) ==
    /\ pc[c] = "table"
    /\ Serving(c).action = "add_table"
    /\ IF tables[Serving(c).table] # 0 THEN Return(c, "exists", 0)
                                       ELSE GoOn(c, "create", 0)
    /\ UNCHANGED <<memoryVars, runtimeVars, dropped, walVars>>

AddTableCreates(c) ==
    /\ pc[c] = "create"
    /\ CreateTable(Serving(c).table)
    /\ Return(c, "ok", 0)
    /\ UNCHANGED <<runtimeVars, dropped, walVars>>

\* held is 1 when the table existed, the `existed` of the handler.
RemoveTableChecks(c) ==
    /\ pc[c] = "table"
    /\ Serving(c).action = "remove_table"
    /\ GoOn(c, "remove", IF tables[Serving(c).table] # 0 THEN 1 ELSE 0)
    /\ UNCHANGED <<memoryVars, runtimeVars, dropped, walVars>>

RemoveTableRemoves(c) ==
    /\ pc[c] = "remove"
    /\ tables' = [tables EXCEPT ![Serving(c).table] = 0]
    /\ Return(c, "ok", held[c])
    /\ UNCHANGED <<collections, runtimeVars, dropped, walVars>>

Handle(c) ==
    \/ FindTable(c) \/ PutCreatesTable(c) \/ ReadKey(c) \/ WriteKey(c)
    \/ Publish(c) \/ Answer(c) \/ AddTableChecks(c) \/ AddTableCreates(c)
    \/ RemoveTableChecks(c) \/ RemoveTableRemoves(c)

-----------------------------------------------------------------------------
(* The runner thread: Dispatcher::dispatch, that is append and flush.  No  *)
(* other thread touches the WAL manager once the server listens, so its    *)
(* try_lock succeeds.                                                      *)

TakeEvent ==
    /\ Events!Begin
    /\ UNCHANGED <<memoryVars, pc, call, held, calls, dropped, walVars>>

\* Mutant: what was left in the buffer goes after the new entry.
FlushedNewFirst(entries) == entries \o wal_buffer

\* What a flush leaves in the file: all that was in the buffer, then `entries`.
FlushedAll(entries) == wal_buffer \o entries

WriteEvent ==
    /\ Events!End
    /\ wal' = wal \o FlushedAll(current)
    /\ wal_buffer' = << >>
    /\ UNCHANGED <<memoryVars, pc, call, held, calls, dropped>>

\* The flush fails after writing a part of the buffer; the rest stays there
\* until a flush succeeds.
FlushFails ==
    /\ "disk" \in Faults
    /\ Events!End
    /\ LET entries == FlushedAll(current)
       IN  \E i \in 0..Len(entries) - 1 :
             /\ wal' = wal \o SubSeq(entries, 1, i)
             /\ wal_buffer' = SubSeq(entries, i + 1, Len(entries))
    /\ UNCHANGED <<memoryVars, pc, call, held, calls, dropped>>

\* The buffer is full of what failed before, and append finds no place: the
\* entry is given up.
AppendFails ==
    /\ "disk" \in Faults
    /\ wal_buffer # << >>
    /\ Events!End
    /\ dropped' = dropped \cup Events!Elements(current)
    /\ UNCHANGED <<memoryVars, pc, call, held, calls, walVars>>

Dispatch == TakeEvent \/ WriteEvent \/ FlushFails \/ AppendFails

-----------------------------------------------------------------------------
ServiceNext ==
    \/ \E c \in Clients :
         \/ Handle(c)
         \/ \E a \in Actions, t \in Tables, k \in Keys : Receive(c, a, t, k)
    \/ Dispatch

ServiceSpec == ServiceInit /\ [][ServiceNext]_serviceVars

-----------------------------------------------------------------------------
(* Properties.                                                             *)

Tags == {"pending", "ok", "no table", "exists", "refused"}
HandlerPcs == {"idle", "table", "key", "publish", "answer", "create", "remove"}
RecordType == [value : Nat, version : Nat]
CallType ==
    [action : Actions, table : Tables, key : Keys, before : SUBSET Nat,
     result : [tag : Tags, n : Nat]]

\* Every variable has the type its declaration says; a handler that is about
\* to use a collection holds one.
ServiceTypeOK ==
    /\ tables \in [Tables -> 0..Len(collections)]
    /\ collections \in Seq([Keys -> RecordType])
    /\ pc \in [Clients -> HandlerPcs]
    /\ call \in [Clients -> 0..Len(calls)]
    /\ held \in [Clients -> Nat]
    /\ \A c \in Clients : pc[c] \in {"key", "publish"} => held[c] \in DOMAIN collections
    /\ calls \in Seq(CallType)
    /\ dropped \subseteq DOMAIN calls
    /\ \A s \in {pending, current, ended, wal_buffer, wal} : s \in Seq(DOMAIN calls)

\* All events there are, in the order in which they reach or will reach the WAL.
Log == wal \o wal_buffer \o current \o pending

\* The log respects real time: a mutation that returned before another was
\* received is never logged after it, whatever clients made them and however
\* flushes failed in between.
LogRespectsRealTime ==
    \A i, j \in DOMAIN Log : i < j => Log[j] \notin calls[Log[i]].before

\* The call was answered ok, or its handler has nothing left to do but that.
Acknowledged(n) ==
    \/ calls[n].result = Result("ok", 0)
    \/ \E c \in Clients : pc[c] = "answer" /\ call[c] = n

\* Every entry stands for a mutation that was applied to a collection of a table
\* other than the reserved one and that is answered ok, by now or by its
\* handler's next step: an entry may reach the file before the client hears of
\* its call, but a call that fails leaves none.  No mutation has two.
LogIsHonest ==
    /\ \A i \in DOMAIN Log :
         /\ calls[Log[i]].action \in Mutations
         /\ Acknowledged(Log[i])
         /\ calls[Log[i]].table # Reserved
    /\ \A i, j \in DOMAIN Log : Log[i] = Log[j] => i = j

Quiet == \A c \in Clients : pc[c] = "idle"
Logged == pending = << >> /\ current = << >>

CallsOn(t, k) ==
    {n \in DOMAIN calls : /\ calls[n].action \in Mutations
                          /\ calls[n].result.tag = "ok"
                          /\ calls[n].table = t
                          /\ calls[n].key = k}

Sequential(S) ==
    \A m, n \in S : m = n \/ m \in calls[n].before \/ n \in calls[m].before

\* Removing a table is not logged.
NeverRemoved(t) ==
    \A n \in DOMAIN calls : ~(calls[n].action = "remove_table" /\ calls[n].table = t)

Stored(t, k) == tables[t] # 0 /\ collections[tables[t]][k] # NoRecord

\* What the log says of a key: the last entry for it, of those that got in.
PresentByLog(t, k) ==
    LET entries == {i \in DOMAIN Log : Log[i] \in CallsOn(t, k)}
    IN  \E i \in entries : /\ \A j \in entries : j <= i
                           /\ calls[Log[i]].action # "delete"

\* Replaying the log gives back the keys in memory, for a key whose mutations
\* did not overlap and whose events were not given up, in a table that nobody
\* removed: however calls on other keys and tables interleave.  The reserved
\* table is no part of it: its one key is never logged, and every start seeds
\* it again.
ReplayAgrees ==
    Quiet => \A t \in Tables \ {Reserved}, k \in Keys :
        Sequential(CallsOn(t, k)) /\ NeverRemoved(t) /\ CallsOn(t, k) \cap dropped = {}
            => (Stored(t, k) <=> PresentByLog(t, k))

-----------------------------------------------------------------------------
(* What the documentation says of the node and the code does not do.       *)

\* wal.md: "each client mutation produces exactly one WAL entry".  A full
\* queue refuses the event and the mutation is acknowledged all the same.
OneEntryPerMutation ==
    Quiet /\ Logged =>
        \A n \in DOMAIN calls :
            calls[n].action \in Mutations /\ calls[n].result.tag = "ok"
                => n \in Events!Elements(Log)
=============================================================================
