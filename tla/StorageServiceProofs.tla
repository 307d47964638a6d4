------------------------ MODULE StorageServiceProofs ------------------------
(***************************************************************************)
(* Proofs about StorageService, for any clients, tables, keys and actions, *)
(* any queue capacity, any faults and any number of calls: the types, that *)
(* the write-ahead log is honest and respects real time, that its replay   *)
(* gives back the keys in memory, and that the results of all calls are    *)
(* those of atomic steps in an order that respects real time.              *)
(***************************************************************************)
EXTENDS StorageHistory, FiniteSetTheorems, SequenceTheorems, TLAPS

-----------------------------------------------------------------------------
(* The handlers: one that is not idle serves an unfinished call of its own, *)
(* which it may serve.                                                      *)

Active(c) == pc[c] # "idle"

HandlerInv ==
    /\ \A c \in Clients : Active(c) =>
         /\ call[c] \in DOMAIN calls
         /\ Serving(c).result = Unfinished
         /\ Serving(c).table = Reserved => Serving(c).action \in {"get", "contains"}
         /\ pc[c] \in {"publish", "answer"} => Serving(c).action \in Mutations
    /\ \A c, d \in Clients : Active(c) /\ Active(d) /\ c # d => call[c] # call[d]

ResultType == [tag : Tags, n : Nat]

\* What a handler does to the calls: it goes on, or answers.
GoesOn(c) ==
    /\ Active(c)
    /\ \E next \in HandlerPcs \ {"idle"} :
         /\ pc' = [pc EXCEPT ![c] = next]
         /\ next \in {"publish", "answer"} => Serving(c).action \in Mutations
    /\ UNCHANGED <<call, calls>>

Answers(c) ==
    /\ Active(c)
    /\ pc' = [pc EXCEPT ![c] = "idle"]
    /\ \E r \in ResultType : /\ r.tag # "pending"
                             /\ calls' = [calls EXCEPT ![call[c]].result = r]
    /\ UNCHANGED call

Receives(c) ==
    /\ ~Active(c)
    /\ call' = [call EXCEPT ![c] = Len(calls) + 1]
    /\ \E m \in CallType :
         /\ calls' = Append(calls, m)
         /\ m.before = Finished
         /\ \/ /\ pc' = [pc EXCEPT ![c] = "table"]
               /\ m.result = Unfinished
               /\ m.table = Reserved => m.action \in {"get", "contains"}
            \/ /\ pc' = [pc EXCEPT ![c] = "idle"]
               /\ m.result.tag = "refused"

LEMMA ServedCall ==
    ASSUME ServiceTypeOK, HandlerInv, NEW c \in Clients, Active(c)
    PROVE  Serving(c) \in CallType /\ call[c] \in 1..Len(calls)
<1>1. calls \in Seq(CallType)
  BY DEF ServiceTypeOK
<1>2. call[c] \in 1..Len(calls)
  BY <1>1, LenProperties DEF HandlerInv
<1>3. QED BY <1>1, <1>2, ElementOfSeq DEF Serving

LEMMA GoOnGoesOn ==
    ASSUME NEW c \in Clients, Active(c), NEW next \in HandlerPcs \ {"idle"}, NEW h,
           next \in {"publish", "answer"} => Serving(c).action \in Mutations,
           GoOn(c, next, h)
    PROVE  GoesOn(c)
  BY DEF GoesOn, GoOn

LEMMA ReturnAnswers ==
    ASSUME NEW c \in Clients, Active(c), NEW tag \in Tags \ {"pending"}, NEW n \in Nat,
           Return(c, tag, n)
    PROVE  Answers(c)
<1>1. Result(tag, n) \in ResultType /\ Result(tag, n).tag # "pending"
  BY DEF Result, ResultType
<1>2. QED BY <1>1 DEF Answers, Return

LEMMA HandleEffect ==
    ASSUME ServiceTypeOK, HandlerInv, NEW c \in Clients, Handle(c)
    PROVE  GoesOn(c) \/ Answers(c)
<1>0. Active(c)
  BY DEF Handle, Active, FindTable, PutCreatesTable, ReadKey, WriteKey, Publish,
     Answer, AddTableChecks, AddTableCreates, RemoveTableChecks, RemoveTableRemoves
<1> USE <1>0
<1>t. {"key", "publish", "answer", "create", "remove"} \subseteq HandlerPcs \ {"idle"}
      /\ {"ok", "no table", "exists"} \subseteq Tags \ {"pending"}
  BY DEF HandlerPcs, Tags
<1>1. CASE FindTable(c)
  <2>1. \/ GoOn(c, "key", tables[Serving(c).table])
        \/ \E tag \in {"ok", "no table"} : Return(c, tag, 0)
    BY <1>1 DEF FindTable
  <2>2. QED BY <1>t, <2>1, GoOnGoesOn, ReturnAnswers
<1>2. CASE PutCreatesTable(c)
  BY <1>2, <1>t, GoOnGoesOn DEF PutCreatesTable
<1>3. CASE ReadKey(c)
  <2> DEFINE r == collections[held[c]][Serving(c).key]
             n == IF Serving(c).action = "get" THEN r.value
                  ELSE IF r = NoRecord THEN 0 ELSE 1
  <2>1. Serving(c).key \in Keys
    BY ServedCall DEF CallType
  <2>2. collections[held[c]] \in [Keys -> RecordType]
    BY <1>3 DEF ReadKey, ServiceTypeOK
  <2>3. n \in Nat
    BY <2>1, <2>2 DEF RecordType
  <2>4. Return(c, "ok", n)
    BY <1>3 DEF ReadKey
  <2>5. QED BY <1>t, <2>3, <2>4, ReturnAnswers
<1>4. CASE WriteKey(c)
  BY <1>4, <1>t, GoOnGoesOn DEF WriteKey
<1>5. CASE Publish(c)
  BY <1>5, <1>t, GoOnGoesOn DEF Publish, HandlerInv
<1>a. CASE Answer(c)
  BY <1>a, <1>t, ReturnAnswers DEF Answer
<1>6. CASE AddTableChecks(c)
  BY <1>6, <1>t, GoOnGoesOn, ReturnAnswers DEF AddTableChecks
<1>7. CASE AddTableCreates(c)
  BY <1>7, <1>t, ReturnAnswers DEF AddTableCreates
<1>8. CASE RemoveTableChecks(c)
  BY <1>8, <1>t, GoOnGoesOn DEF RemoveTableChecks
<1>9. CASE RemoveTableRemoves(c)
  <2>1. held[c] \in Nat
    BY DEF ServiceTypeOK
  <2>2. QED BY <1>9, <1>t, <2>1, ReturnAnswers DEF RemoveTableRemoves
<1>10. QED BY <1>1, <1>2, <1>3, <1>4, <1>5, <1>a, <1>6, <1>7, <1>8, <1>9 DEF Handle

LEMMA ReceiveEffect ==
    ASSUME ServiceTypeOK, NEW c \in Clients,
           NEW a \in Actions, NEW t \in Tables, NEW k \in Keys, Receive(c, a, t, k)
    PROVE  Receives(c)
<1> DEFINE m == [action |-> a, table |-> t, key |-> k, before |-> Finished,
                 result |-> IF Allowed(a, t) THEN Unfinished ELSE Result("refused", 0)]
<1>1. Finished \subseteq Nat
  BY LenProperties DEF Finished, ServiceTypeOK
<1>2. m \in CallType
  BY <1>1 DEF CallType, Unfinished, Result, Tags
<1>3. /\ ~Active(c)
      /\ call' = [call EXCEPT ![c] = Len(calls) + 1]
      /\ calls' = Append(calls, m)
  BY DEF Receive, Active
<1>4. CASE Allowed(a, t)
  BY <1>2, <1>3, <1>4 DEF Receive, Receives, Allowed
<1>5. CASE ~Allowed(a, t)
  BY <1>2, <1>3, <1>5 DEF Receive, Receives, Result
<1>6. QED BY <1>4, <1>5

\* What the calls look like after an answer, and after a new call.
LEMMA AnswersCalls ==
    ASSUME ServiceTypeOK, HandlerInv, NEW c \in Clients, Answers(c)
    PROVE  /\ calls' \in Seq(CallType)
           /\ DOMAIN calls' = DOMAIN calls /\ Len(calls') = Len(calls)
           /\ \A n \in DOMAIN calls :
                /\ calls'[n].action = calls[n].action
                /\ calls'[n].table = calls[n].table
                /\ calls'[n].key = calls[n].key
                /\ calls'[n].before = calls[n].before
                /\ n # call[c] => calls'[n] = calls[n]
           /\ calls'[call[c]].result.tag # "pending"
<1>1. PICK r \in ResultType : /\ r.tag # "pending"
                              /\ calls' = [calls EXCEPT ![call[c]].result = r]
  BY DEF Answers
<1>2. Serving(c) \in CallType /\ call[c] \in 1..Len(calls)
  BY ServedCall DEF Answers
<1> DEFINE m == [Serving(c) EXCEPT !.result = r]
<1>3. /\ m \in CallType /\ m.result = r
      /\ m.action = Serving(c).action /\ m.table = Serving(c).table
      /\ m.key = Serving(c).key /\ m.before = Serving(c).before
  BY <1>2 DEF CallType, ResultType
<1>4. calls \in Seq(CallType)
  BY DEF ServiceTypeOK
<1>5. calls' = [calls EXCEPT ![call[c]] = m]
  BY <1>1 DEF Serving
<1> HIDE DEF m
<1>6. /\ calls' \in Seq(CallType) /\ Len(calls') = Len(calls)
      /\ \A n \in 1..Len(calls) : calls'[n] = IF n = call[c] THEN m ELSE calls[n]
  BY <1>2, <1>3, <1>4, <1>5, ExceptSeq
<1>7. DOMAIN calls = 1..Len(calls) /\ DOMAIN calls' = 1..Len(calls)
  BY <1>4, <1>6, LenProperties
<1>8. QED BY <1>1, <1>2, <1>3, <1>6, <1>7 DEF Serving

LEMMA ReceivesCalls ==
    ASSUME ServiceTypeOK, NEW c \in Clients, Receives(c)
    PROVE  /\ calls' \in Seq(CallType)
           /\ Len(calls) \in Nat /\ Len(calls') = Len(calls) + 1
           /\ DOMAIN calls = 1..Len(calls) /\ DOMAIN calls' = 1..Len(calls) + 1
           /\ \A n \in DOMAIN calls : calls'[n] = calls[n]
           /\ call'[c] = Len(calls) + 1
           /\ calls'[Len(calls) + 1].before = Finished
           /\ pc'[c] # "idle" =>
                /\ pc'[c] = "table"
                /\ calls'[Len(calls) + 1].result = Unfinished
                /\ calls'[Len(calls) + 1].table = Reserved
                     => calls'[Len(calls) + 1].action \in {"get", "contains"}
<1>1. calls \in Seq(CallType) /\ call \in [Clients -> 0..Len(calls)]
      /\ pc \in [Clients -> HandlerPcs]
  BY DEF ServiceTypeOK
<1>2. PICK m \in CallType :
        /\ calls' = Append(calls, m)
        /\ m.before = Finished
        /\ pc'[c] # "idle" =>
             /\ pc'[c] = "table" /\ m.result = Unfinished
             /\ m.table = Reserved => m.action \in {"get", "contains"}
  BY <1>1 DEF Receives
<1>3. /\ Len(calls) \in Nat /\ calls' \in Seq(CallType)
      /\ Len(calls') = Len(calls) + 1
      /\ \A n \in 1..Len(calls) : calls'[n] = calls[n]
      /\ calls'[Len(calls) + 1] = m
  BY <1>1, <1>2, AppendProperties, LenProperties
<1>4. DOMAIN calls = 1..Len(calls) /\ DOMAIN calls' = 1..Len(calls) + 1
  BY <1>1, <1>3, LenProperties
<1>5. call'[c] = Len(calls) + 1
  BY <1>1 DEF Receives
<1>6. QED BY <1>2, <1>3, <1>4, <1>5

LEMMA HandlersAfter ==
    ASSUME ServiceTypeOK, HandlerInv, NEW c \in Clients,
           GoesOn(c) \/ Answers(c) \/ Receives(c)
    PROVE  HandlerInv'
<1> USE DEF HandlerInv, Active, Serving
<1>0. pc \in [Clients -> HandlerPcs] /\ call \in [Clients -> 0..Len(calls)]
  BY DEF ServiceTypeOK
<1>1. CASE GoesOn(c)
  BY <1>0, <1>1 DEF GoesOn
<1>2. CASE Answers(c)
  <2>1. /\ \A d \in Clients : Active(d)' => Active(d) /\ d # c /\ pc'[d] = pc[d]
        /\ UNCHANGED call
    BY <1>0, <1>2 DEF Answers
  <2>2. \A d \in Clients : Active(d)' =>
          call[d] \in DOMAIN calls' /\ calls'[call[d]] = calls[call[d]]
    BY <1>2, <2>1, AnswersCalls DEF Answers
  <2>3. QED BY <2>1, <2>2
<1>3. CASE Receives(c)
  <2>1. \A d \in Clients : d # c => pc'[d] = pc[d] /\ call'[d] = call[d]
    BY <1>0, <1>3 DEF Receives
  <2>2. \A d \in Clients : d # c /\ Active(d) =>
          /\ call'[d] \in DOMAIN calls' /\ calls'[call'[d]] = calls[call[d]]
          /\ call'[d] # call'[c]
    BY <1>3, <2>1, ReceivesCalls
  <2>3. QED BY <1>3, <2>1, <2>2, ReceivesCalls
<1>4. QED BY <1>1, <1>2, <1>3

-----------------------------------------------------------------------------
(* Types.                                                                   *)

MemoryTyped ==
    /\ tables \in [Tables -> 0..Len(collections)]
    /\ collections \in Seq([Keys -> RecordType])

HeldTyped ==
    /\ held \in [Clients -> Nat]
    /\ \A c \in Clients : pc[c] \in {"key", "publish"} => held[c] \in DOMAIN collections

LogTyped ==
    /\ pending \in Seq(DOMAIN calls)
    /\ current \in Seq(DOMAIN calls)
    /\ ended \in Seq(DOMAIN calls)
    /\ wal_buffer \in Seq(DOMAIN calls)
    /\ wal \in Seq(DOMAIN calls)

LEMMA TypesInParts ==
    ServiceTypeOK <=>
        /\ MemoryTyped /\ HeldTyped /\ LogTyped
        /\ pc \in [Clients -> HandlerPcs]
        /\ call \in [Clients -> 0..Len(calls)]
        /\ calls \in Seq(CallType)
        /\ dropped \subseteq DOMAIN calls
  BY DEF ServiceTypeOK, MemoryTyped, HeldTyped, LogTyped

LEMMA CreateTableTyped ==
    ASSUME MemoryTyped, NEW t \in Tables, CreateTable(t)
    PROVE  /\ MemoryTyped' /\ tables'[t] \in DOMAIN collections'
           /\ DOMAIN collections \subseteq DOMAIN collections'
<1> DEFINE C == [Keys -> RecordType]
<1>1. collections \in Seq(C) /\ tables \in [Tables -> 0..Len(collections)]
  BY DEF MemoryTyped
<1>2. Len(collections) \in Nat /\ DOMAIN collections = 1..Len(collections)
  BY <1>1, LenProperties
<1>3. CASE tables[t] # 0
  BY <1>1, <1>2, <1>3 DEF CreateTable, MemoryTyped, memoryVars
<1>4. CASE tables[t] = 0
  <2>1. EmptyCollection \in C
    BY DEF EmptyCollection, NoRecord, RecordType
  <2>2. collections' = Append(collections, EmptyCollection)
        /\ tables' = [tables EXCEPT ![t] = Len(collections) + 1]
    BY <1>4 DEF CreateTable
  <2>3. collections' \in Seq(C) /\ Len(collections') = Len(collections) + 1
    BY <1>1, <2>1, <2>2, AppendProperties
  <2>4. DOMAIN collections' = 1..Len(collections) + 1
    BY <1>2, <2>3, LenProperties
  <2>5. tables' \in [Tables -> 0..Len(collections')] /\ tables'[t] = Len(collections) + 1
    BY <1>1, <1>2, <2>2, <2>3
  <2>6. QED BY <1>2, <2>3, <2>4, <2>5 DEF MemoryTyped
<1>5. QED BY <1>3, <1>4

LEMMA WriteTyped ==
    ASSUME MemoryTyped, NEW h \in DOMAIN collections, NEW k \in Keys,
           NEW action \in Mutations, NEW n \in Nat, UNCHANGED tables,
           collections' = [collections EXCEPT ![h][k] = Changed(action, @, n)]
    PROVE  MemoryTyped' /\ DOMAIN collections' = DOMAIN collections
<1> DEFINE C == [Keys -> RecordType]
           new == [collections[h] EXCEPT ![k] = Changed(action, @, n)]
<1>1. /\ collections \in Seq(C) /\ Len(collections) \in Nat
      /\ h \in 1..Len(collections) /\ collections[h] \in C
  BY LenProperties, ElementOfSeq DEF MemoryTyped
<1>2. Changed(action, collections[h][k], n) \in RecordType
  BY <1>1 DEF Changed, Mutations, RecordType, NoRecord
<1>3. new \in C
  BY <1>1, <1>2
<1>4. collections' = [collections EXCEPT ![h] = new]
  OBVIOUS
<1> HIDE DEF new
<1>5. collections' \in Seq(C) /\ Len(collections') = Len(collections)
  BY <1>1, <1>3, <1>4, ExceptSeq
<1>6. QED BY <1>1, <1>5, LenProperties DEF MemoryTyped

LEMMA HandleMemory ==
    ASSUME ServiceTypeOK, HandlerInv, NEW c \in Clients, Handle(c)
    PROVE  MemoryTyped' /\ HeldTyped'
<1>0. /\ MemoryTyped /\ HeldTyped /\ Serving(c) \in CallType /\ call[c] \in Nat
      /\ pc \in [Clients -> HandlerPcs]
  <2>1. Active(c)
    BY DEF Handle, Active, FindTable, PutCreatesTable, ReadKey, WriteKey, Publish,
       Answer, AddTableChecks, AddTableCreates, RemoveTableChecks, RemoveTableRemoves
  <2>2. QED BY <2>1, ServedCall, TypesInParts
<1>1. /\ Serving(c).table \in Tables /\ Serving(c).key \in Keys
      /\ tables \in [Tables -> 0..Len(collections)]
      /\ DOMAIN collections = 1..Len(collections) /\ Len(collections) \in Nat
  BY <1>0, LenProperties DEF CallType, MemoryTyped
<1>2. CASE FindTable(c)
  <2>1. UNCHANGED memoryVars
    BY <1>2 DEF FindTable
  <2>2. \/ /\ tables[Serving(c).table] # 0
           /\ GoOn(c, "key", tables[Serving(c).table])
        \/ pc' = [pc EXCEPT ![c] = "idle"] /\ UNCHANGED held
    BY <1>2 DEF FindTable, Return
  <2>3. tables[Serving(c).table] # 0 => tables[Serving(c).table] \in 1..Len(collections)
    BY <1>1
  <2>4. QED BY <1>0, <1>1, <2>1, <2>2, <2>3 DEF GoOn, MemoryTyped, HeldTyped, memoryVars
<1>3. CASE PutCreatesTable(c)
  <2>1. /\ MemoryTyped' /\ tables'[Serving(c).table] \in DOMAIN collections'
        /\ DOMAIN collections \subseteq DOMAIN collections'
    BY <1>0, <1>1, <1>3, CreateTableTyped DEF PutCreatesTable
  <2>2. DOMAIN collections' \subseteq Nat
    BY <2>1, LenProperties DEF MemoryTyped
  <2>3. QED BY <1>0, <1>3, <2>1, <2>2 DEF PutCreatesTable, GoOn, HeldTyped
<1>4. CASE ReadKey(c) \/ Answer(c)
  BY <1>0, <1>4 DEF ReadKey, Answer, Return, MemoryTyped, HeldTyped, memoryVars
<1>a. CASE Publish(c)
  <2>1. held' \in [Clients -> Nat] /\ held' = held
    BY <1>0, <1>a DEF Publish, GoOn, HeldTyped
  <2>2. QED BY <1>0, <1>a, <2>1 DEF Publish, GoOn, MemoryTyped, HeldTyped, memoryVars
<1>5. CASE WriteKey(c)
  <2>1. MemoryTyped' /\ DOMAIN collections' = DOMAIN collections
    BY <1>0, <1>1, <1>5, WriteTyped DEF WriteKey, HeldTyped
  <2>2. held' \in [Clients -> Nat] /\ held' = held
    BY <1>0, <1>5 DEF WriteKey, GoOn, HeldTyped
  <2>3. QED BY <1>0, <1>5, <2>1, <2>2 DEF WriteKey, GoOn, HeldTyped
<1>6. CASE AddTableChecks(c)
  <2>1. UNCHANGED memoryVars
    BY <1>6 DEF AddTableChecks
  <2>2. \/ GoOn(c, "create", 0)
        \/ pc' = [pc EXCEPT ![c] = "idle"] /\ UNCHANGED held
    BY <1>6 DEF AddTableChecks, Return
  <2>3. QED BY <1>0, <2>1, <2>2 DEF GoOn, MemoryTyped, HeldTyped, memoryVars
<1>7. CASE AddTableCreates(c)
  <2>1. MemoryTyped' /\ DOMAIN collections \subseteq DOMAIN collections'
    BY <1>0, <1>1, <1>7, CreateTableTyped DEF AddTableCreates
  <2>2. QED BY <1>0, <1>7, <2>1 DEF AddTableCreates, Return, HeldTyped
<1>8. CASE RemoveTableChecks(c)
  BY <1>0, <1>8 DEF RemoveTableChecks, GoOn, MemoryTyped, HeldTyped, memoryVars
<1>9. CASE RemoveTableRemoves(c)
  BY <1>0, <1>1, <1>9 DEF RemoveTableRemoves, Return, MemoryTyped, HeldTyped
<1>10. QED
  BY <1>2, <1>3, <1>4, <1>a, <1>5, <1>6, <1>7, <1>8, <1>9 DEF Handle

LEMMA HandleLogTyped ==
    ASSUME ServiceTypeOK, HandlerInv, NEW c \in Clients, Handle(c),
           DOMAIN calls' = DOMAIN calls
    PROVE  LogTyped' /\ dropped' \subseteq DOMAIN calls'
<1>0. LogTyped /\ dropped \subseteq DOMAIN calls
  BY TypesInParts
<1>1. CASE Publish(c)
  <2>1. call[c] \in DOMAIN calls
    BY <1>1 DEF Publish, HandlerInv, Active
  <2>2. \/ /\ pending' = Append(pending, call[c])
           /\ UNCHANGED <<current, ended, dropped>>
        \/ dropped' = dropped \cup {call[c]} /\ UNCHANGED runtimeVars
    BY <1>1 DEF Publish, Events!Submit
  <2>3. Append(pending, call[c]) \in Seq(DOMAIN calls)
    BY <1>0, <2>1, AppendProperties DEF LogTyped
  <2>4. QED BY <1>0, <1>1, <2>1, <2>2, <2>3 DEF Publish, LogTyped, runtimeVars, walVars
<1>2. CASE ~Publish(c)
  <2>1. UNCHANGED <<runtimeVars, dropped, walVars>>
    BY <1>2 DEF Handle, FindTable, PutCreatesTable, ReadKey, WriteKey, Answer,
       AddTableChecks, AddTableCreates, RemoveTableChecks, RemoveTableRemoves
  <2>2. QED BY <1>0, <2>1 DEF LogTyped, runtimeVars, walVars
<1>3. QED BY <1>1, <1>2

LEMMA DispatchLogTyped ==
    ASSUME ServiceTypeOK, Dispatch
    PROVE  LogTyped' /\ dropped' \subseteq DOMAIN calls' /\ UNCHANGED calls
<1> DEFINE S == DOMAIN calls
<1>0. LogTyped /\ dropped \subseteq S
  BY TypesInParts
<1>1. CASE TakeEvent
  <2>1. pending # << >> /\ current' = <<Head(pending)>> /\ pending' = Tail(pending)
        /\ UNCHANGED <<ended, calls, dropped, walVars>>
    BY <1>1 DEF TakeEvent, Events!Begin
  <2>2. Head(pending) \in S /\ Tail(pending) \in Seq(S)
    BY <1>0, <2>1, HeadTailProperties DEF LogTyped
  <2>3. <<Head(pending)>> \in Seq(S)
    BY <2>2
  <2>4. QED BY <1>0, <2>1, <2>2, <2>3 DEF LogTyped, walVars
<1>2. ASSUME Events!End, UNCHANGED calls
      PROVE  /\ ended' \in Seq(S) /\ current' \in Seq(S) /\ pending' \in Seq(S)
             /\ wal_buffer \o current \in Seq(S)
  <2>1. ended \o current \in Seq(S) /\ wal_buffer \o current \in Seq(S)
    BY <1>0, ConcatProperties DEF LogTyped
  <2>2. QED BY <1>0, <1>2, <2>1, EmptySeq DEF Events!End, LogTyped
<1>3. CASE WriteEvent
  <2>1. wal \o (wal_buffer \o current) \in Seq(S)
    BY <1>0, <1>2, <1>3, ConcatProperties DEF LogTyped, WriteEvent
  <2>2. QED BY <1>0, <1>2, <1>3, <2>1, EmptySeq DEF WriteEvent, FlushedAll, LogTyped
<1>4. CASE FlushFails
  <2> DEFINE e == wal_buffer \o current
  <2>1. e \in Seq(S) /\ Len(e) \in Nat /\ \A j \in 1..Len(e) : e[j] \in S
    BY <1>2, <1>4, LenProperties, ElementOfSeq DEF FlushFails
  <2>2. PICK i \in 0..Len(e) - 1 :
          /\ wal' = wal \o SubSeq(e, 1, i)
          /\ wal_buffer' = SubSeq(e, i + 1, Len(e))
    BY <1>4 DEF FlushFails, FlushedAll
  <2> HIDE DEF e
  <2>3. SubSeq(e, 1, i) \in Seq(S) /\ SubSeq(e, i + 1, Len(e)) \in Seq(S)
    BY <2>1, SubSeqProperties
  <2>4. wal' \in Seq(S)
    BY <1>0, <2>2, <2>3, ConcatProperties DEF LogTyped
  <2>5. QED BY <1>0, <1>2, <1>4, <2>2, <2>3, <2>4 DEF FlushFails, LogTyped
<1>5. CASE AppendFails
  <2>1. Events!Elements(current) \subseteq S
    BY <1>0, ElementOfSeq, LenProperties DEF Events!Elements, LogTyped
  <2>2. QED BY <1>0, <1>2, <1>5, <2>1 DEF AppendFails, LogTyped, walVars
<1>6. QED BY <1>1, <1>3, <1>4, <1>5 DEF Dispatch

LEMMA NextTyped ==
    ASSUME ServiceTypeOK, HandlerInv, [ServiceNext]_serviceVars
    PROVE  ServiceTypeOK' /\ HandlerInv'
<1>0. /\ MemoryTyped /\ HeldTyped /\ LogTyped /\ calls \in Seq(CallType)
      /\ pc \in [Clients -> HandlerPcs] /\ call \in [Clients -> 0..Len(calls)]
      /\ dropped \subseteq DOMAIN calls
  BY TypesInParts
<1>1. ASSUME NEW c \in Clients, Handle(c) PROVE ServiceTypeOK' /\ HandlerInv'
  <2>1. GoesOn(c) \/ Answers(c)
    BY <1>1, HandleEffect
  <2>2. calls' \in Seq(CallType) /\ DOMAIN calls' = DOMAIN calls /\ Len(calls') = Len(calls)
    BY <1>0, <2>1, AnswersCalls DEF GoesOn
  <2>3. pc' \in [Clients -> HandlerPcs] /\ call' = call
    BY <1>0, <2>1 DEF GoesOn, Answers, HandlerPcs
  <2>4. MemoryTyped' /\ HeldTyped'
    BY <1>1, HandleMemory
  <2>5. LogTyped' /\ dropped' \subseteq DOMAIN calls'
    BY <1>1, <2>2, HandleLogTyped
  <2>6. ServiceTypeOK'
    BY <1>0, <2>2, <2>3, <2>4, <2>5
       DEF ServiceTypeOK, MemoryTyped, HeldTyped, LogTyped
  <2>7. QED BY <2>1, <2>6, HandlersAfter
<1>2. ASSUME NEW c \in Clients, NEW a \in Actions, NEW t \in Tables, NEW k \in Keys,
             Receive(c, a, t, k)
      PROVE  ServiceTypeOK' /\ HandlerInv'
  <2>1. Receives(c)
    BY <1>2, ReceiveEffect
  <2>2. /\ calls' \in Seq(CallType) /\ DOMAIN calls \subseteq DOMAIN calls'
        /\ Len(calls) \in Nat /\ Len(calls') = Len(calls) + 1
    BY <2>1, ReceivesCalls
  <2>3. call' \in [Clients -> 0..Len(calls')]
    BY <1>0, <2>1, <2>2 DEF Receives
  <2>4. UNCHANGED <<memoryVars, held, runtimeVars, dropped, walVars>>
    BY <1>2 DEF Receive
  <2>5. pc' \in [Clients -> HandlerPcs] /\ HeldTyped'
    BY <1>0, <2>1, <2>4 DEF Receives, HandlerPcs, HeldTyped, memoryVars
  <2>6. LogTyped'
    BY <1>0, <2>2, <2>4, SeqMonotonic DEF LogTyped, runtimeVars, walVars
  <2>7. ServiceTypeOK'
    BY <1>0, <2>2, <2>3, <2>4, <2>5, <2>6
       DEF ServiceTypeOK, MemoryTyped, HeldTyped, LogTyped, memoryVars
  <2>8. QED BY <2>1, <2>7, HandlersAfter
<1>3. CASE Dispatch
  <2>1. LogTyped' /\ dropped' \subseteq DOMAIN calls'
    BY <1>3, DispatchLogTyped
  <2>2. UNCHANGED <<memoryVars, pc, call, held, calls>>
    BY <1>3 DEF Dispatch, TakeEvent, WriteEvent, FlushFails, AppendFails
  <2>3. ServiceTypeOK'
    BY <1>0, <2>1, <2>2
       DEF ServiceTypeOK, MemoryTyped, HeldTyped, LogTyped, memoryVars
  <2>4. QED BY <2>2, <2>3 DEF HandlerInv, Active, Serving
<1>4. CASE UNCHANGED serviceVars
  <2>1. ServiceTypeOK'
    BY <1>4 DEF serviceVars, memoryVars, runtimeVars, walVars, ServiceTypeOK
  <2>2. QED BY <1>4, <2>1 DEF serviceVars, HandlerInv, Active, Serving
<1>5. QED BY <1>1, <1>2, <1>3, <1>4 DEF ServiceNext

LEMMA InitTyped == ServiceInit => ServiceTypeOK /\ HandlerInv
<1> SUFFICES ASSUME ServiceInit PROVE ServiceTypeOK /\ HandlerInv
  OBVIOUS
<1> DEFINE n == Cardinality(Seeded)
<1>1. n \in Nat
  BY ServiceAssumption, FS_CardinalityType
<1>2. /\ EmptyCollection \in [Keys -> RecordType]
      /\ IdentityCollection \in [Keys -> RecordType]
  BY ServiceAssumption
     DEF EmptyCollection, IdentityCollection, Identity, NoRecord, RecordType
<1> HIDE DEF n
<1>3. /\ collections = [i \in 1..n |-> IF i = 1 THEN IdentityCollection
                                               ELSE EmptyCollection]
      /\ tables \in [Tables -> 0..n]
  BY DEF ServiceInit, n
<1>4. collections \in Seq([Keys -> RecordType]) /\ Len(collections) = n
  BY <1>1, <1>2, <1>3
<1>5. LogTyped /\ calls \in Seq(CallType) /\ Len(calls) = 0
  BY EmptySeq DEF ServiceInit, LogTyped, Events!AbstractInit
<1>6. MemoryTyped /\ HeldTyped
  BY <1>3, <1>4 DEF ServiceInit, MemoryTyped, HeldTyped
<1>7. /\ pc \in [Clients -> HandlerPcs] /\ call \in [Clients -> 0..Len(calls)]
      /\ dropped \subseteq DOMAIN calls
  BY <1>5 DEF ServiceInit, HandlerPcs
<1>8. ServiceTypeOK
  BY <1>5, <1>6, <1>7, TypesInParts
<1>9. QED BY <1>8 DEF ServiceInit, HandlerInv, Active

LEMMA HandlersHold == ServiceSpec => [](ServiceTypeOK /\ HandlerInv)
  BY InitTyped, NextTyped, PTL DEF ServiceSpec

\* In every reachable state the variables have their types: no handler uses a
\* collection that it does not hold.
THEOREM ServiceTypesHold == ServiceSpec => []ServiceTypeOK
  BY HandlersHold, PTL

-----------------------------------------------------------------------------
(* The log.  An entry gets into it while its call is unfinished, and the     *)
(* handler has only the answer left: so it comes after everything that was   *)
(* answered before, and no call that has it in its past is received before   *)
(* it is there.  Nothing ever changes the order: TakeEvent, WriteEvent and   *)
(* FlushFails only move the borders between the parts of the log, and        *)
(* AppendFails takes one part out.                                           *)

BeforeInv == \A n \in DOMAIN calls : calls[n].before \subseteq Finished

Honest(n) ==
    /\ n \in DOMAIN calls
    /\ calls[n].action \in Mutations
    /\ Acknowledged(n)
    /\ calls[n].table # Reserved

LogInv ==
    /\ \A i \in DOMAIN Log : Honest(Log[i])
    /\ \A i, j \in DOMAIN Log : i < j => /\ Log[i] # Log[j]
                                         /\ Log[j] \notin calls[Log[i]].before

Leaves == UNCHANGED <<pending, current, wal_buffer, wal>>

LogsCall(c) ==
    /\ pc[c] = "publish"
    /\ pending' = Append(pending, call[c])
    /\ UNCHANGED <<current, wal_buffer, wal, call, calls>>
    /\ pc' = [pc EXCEPT ![c] = "answer"]

LEMMA HandleLogs ==
    ASSUME NEW c \in Clients, Handle(c)
    PROVE  Leaves \/ LogsCall(c)
  BY DEF Handle, FindTable, PutCreatesTable, ReadKey, WriteKey, Publish, Answer,
     AddTableChecks, AddTableCreates, RemoveTableChecks, RemoveTableRemoves, GoOn,
     Events!Submit, Leaves, LogsCall, runtimeVars, walVars

LEMMA LogInSeq == ServiceTypeOK => Log \in Seq(DOMAIN calls)
<1> SUFFICES ASSUME ServiceTypeOK PROVE Log \in Seq(DOMAIN calls)
  OBVIOUS
<1> DEFINE S == DOMAIN calls
<1>1. wal \o wal_buffer \in Seq(S)
  BY TypesInParts, ConcatProperties DEF LogTyped
<1>2. (wal \o wal_buffer) \o current \in Seq(S)
  BY <1>1, TypesInParts, ConcatProperties DEF LogTyped
<1>3. QED BY <1>2, TypesInParts, ConcatProperties DEF LogTyped, Log

\* Calls that are in the log are acknowledged and stay so.
LEMMA SameLog ==
    ASSUME LogInv, Log' = Log,
           \A n \in DOMAIN calls : /\ n \in DOMAIN calls'
                                   /\ calls'[n].action = calls[n].action
                                   /\ calls'[n].table = calls[n].table
                                   /\ calls'[n].before = calls[n].before
                                   /\ Acknowledged(n) => Acknowledged(n)'
    PROVE  LogInv'
<1>1. \A i \in DOMAIN Log : Honest(Log[i])'
  <2> TAKE i \in DOMAIN Log
  <2>1. PICK n \in DOMAIN calls : n = Log[i] /\ Honest(n)
    BY DEF LogInv, Honest
  <2>2. /\ n \in DOMAIN calls' /\ calls'[n].action \in Mutations
        /\ calls'[n].table # Reserved /\ Acknowledged(n)'
    BY <2>1 DEF Honest
  <2>3. Log'[i] = n
    BY <2>1
  <2>4. QED BY <2>2, <2>3 DEF Honest, Acknowledged
<1>2. QED BY <1>1 DEF LogInv, Honest

LEMMA BeforeAfter ==
    ASSUME ServiceTypeOK, HandlerInv, BeforeInv, NEW c \in Clients,
           GoesOn(c) \/ Answers(c) \/ Receives(c)
    PROVE  /\ BeforeInv'
           /\ \A n \in DOMAIN calls :
                /\ n \in DOMAIN calls'
                /\ calls[n].result # Unfinished => calls'[n] = calls[n]
<1>1. CASE GoesOn(c)
  BY <1>1 DEF GoesOn, BeforeInv, Finished
<1>2. CASE Answers(c)
  <2>1. \A n \in DOMAIN calls :
          /\ n \in DOMAIN calls'
          /\ calls[n].result # Unfinished => calls'[n] = calls[n]
    BY <1>2, AnswersCalls DEF Answers, HandlerInv, Serving
  <2>2. Finished \subseteq Finished'
    BY <2>1 DEF Finished
  <2>3. QED BY <1>2, <2>1, <2>2, AnswersCalls DEF BeforeInv
<1>3. CASE Receives(c)
  <2>1. \A n \in DOMAIN calls : n \in DOMAIN calls' /\ calls'[n] = calls[n]
    BY <1>3, ReceivesCalls
  <2>2. Finished \subseteq Finished'
    BY <2>1 DEF Finished
  <2>3. \A n \in DOMAIN calls' : n \in DOMAIN calls \/ n = Len(calls) + 1
    BY <1>3, ReceivesCalls
  <2>4. calls'[Len(calls) + 1].before = Finished
    BY <1>3, ReceivesCalls
  <2>5. QED BY <2>1, <2>2, <2>3, <2>4 DEF BeforeInv
<1>4. QED BY <1>1, <1>2, <1>3

\* Handlers do not change what a call asks for.
LEMMA HandleFields ==
    ASSUME ServiceTypeOK, HandlerInv, NEW c \in Clients, Handle(c)
    PROVE  /\ Active(c) /\ call' = call /\ DOMAIN calls' = DOMAIN calls
           /\ \A n \in DOMAIN calls : /\ calls'[n].action = calls[n].action
                                      /\ calls'[n].table = calls[n].table
                                      /\ calls'[n].key = calls[n].key
                                      /\ calls'[n].before = calls[n].before
                                      /\ n # call[c] => calls'[n] = calls[n]
           /\ \A d \in Clients : d # c => pc'[d] = pc[d] /\ (Active(d) => call[d] # call[c])
<1>0. pc \in [Clients -> HandlerPcs]
  BY DEF ServiceTypeOK
<1>1. GoesOn(c) \/ Answers(c)
  BY HandleEffect
<1>2. Active(c)
  BY <1>1 DEF GoesOn, Answers
<1>3. \A d \in Clients : d # c => pc'[d] = pc[d] /\ (Active(d) => call[d] # call[c])
  BY <1>0, <1>1, <1>2 DEF GoesOn, Answers, HandlerInv
<1>4. CASE GoesOn(c)
  BY <1>2, <1>3, <1>4 DEF GoesOn
<1>5. CASE Answers(c)
  BY <1>2, <1>3, <1>5, AnswersCalls DEF Answers
<1>6. QED BY <1>1, <1>4, <1>5

\* What is acknowledged stays so: only the answer itself ends a handler that
\* has nothing left to do but that.
LEMMA HandleAcknowledged ==
    ASSUME ServiceTypeOK, HandlerInv, NEW c \in Clients, Handle(c),
           NEW n \in DOMAIN calls, Acknowledged(n)
    PROVE  Acknowledged(n)'
<1>1. CASE n # call[c]
  BY <1>1, HandleFields DEF Acknowledged
<1>2. CASE n = call[c]
  <2>1. pc[c] = "answer"
    BY <1>2, HandleFields DEF Acknowledged, HandlerInv, Active, Serving, Result, Unfinished
  <2>2. Answer(c)
    BY <2>1 DEF Handle, FindTable, PutCreatesTable, ReadKey, WriteKey, Publish,
       AddTableChecks, AddTableCreates, RemoveTableChecks, RemoveTableRemoves
  <2>3. calls' = [calls EXCEPT ![n].result = Result("ok", 0)]
    BY <1>2, <2>2 DEF Answer, Return
  <2>4. Serving(c) \in CallType
    BY <2>1, ServedCall DEF Active
  <2>5. calls'[n].result = Result("ok", 0)
    BY <1>2, <2>3, <2>4 DEF CallType, Serving
  <2>6. QED BY <2>5 DEF Acknowledged
<1>3. QED BY <1>1, <1>2

LEMMA ReceivesAcknowledged ==
    ASSUME ServiceTypeOK, HandlerInv, NEW c \in Clients, Receives(c),
           NEW n \in DOMAIN calls, Acknowledged(n)
    PROVE  Acknowledged(n)'
<1>1. pc \in [Clients -> HandlerPcs] /\ call \in [Clients -> 0..Len(calls)]
  BY DEF ServiceTypeOK
<1>2. calls'[n] = calls[n]
  BY ReceivesCalls
<1>3. \A d \in Clients : pc[d] = "answer" => pc'[d] = pc[d] /\ call'[d] = call[d]
  BY <1>1 DEF Receives, Active
<1>4. QED BY <1>2, <1>3 DEF Acknowledged

\* ConcatAssociative, for all sequences over a set at once.
LEMMA Regroup ==
    ASSUME NEW S
    PROVE  \A s, t, u \in Seq(S) : (s \o t) \o u = s \o (t \o u)
<1> TAKE s, t, u \in Seq(S)
<1>1. s \in Seq(S) /\ t \in Seq(S) /\ u \in Seq(S)
  OBVIOUS
<1>2. QED BY <1>1, ConcatAssociative, SMTT(30)

\* An entry gets in at the end.
LEMMA LogGrows ==
    ASSUME ServiceTypeOK, HandlerInv, NEW c \in Clients, LogsCall(c)
    PROVE  /\ Len(Log) \in Nat /\ DOMAIN Log = 1..Len(Log)
           /\ DOMAIN Log' = 1..Len(Log) + 1
           /\ \A i \in 1..Len(Log) : Log'[i] = Log[i]
           /\ Log'[Len(Log) + 1] = call[c]
<1> DEFINE S == DOMAIN calls
           n == call[c]
           front == (wal \o wal_buffer) \o current
<1>0. n \in S
  BY DEF HandlerInv, Active, LogsCall
<1>1. front \in Seq(S) /\ pending \in Seq(S)
  <2>1. wal \o wal_buffer \in Seq(S)
    BY TypesInParts, ConcatProperties DEF LogTyped
  <2>2. QED BY <2>1, TypesInParts, ConcatProperties DEF LogTyped
<1>2. Log = front \o pending /\ Log' = front \o Append(pending, n)
  BY DEF Log, LogsCall
<1>3. Log \in Seq(S)
  BY LogInSeq
<1> HIDE DEF front
<1>4. Append(pending, n) = pending \o <<n>> /\ <<n>> \in Seq(S)
  BY <1>0, <1>1, AppendIsConcat
<1>5. Log' = Log \o <<n>>
  BY <1>1, <1>2, <1>4, Regroup
<1>6. Log' = Append(Log, n)
  BY <1>0, <1>3, <1>5, AppendIsConcat
<1>7. QED
  BY <1>0, <1>3, <1>6, AppendProperties, LenProperties

LEMMA LogsCallKeeps ==
    ASSUME ServiceTypeOK, HandlerInv, BeforeInv, LogInv, NEW c \in Clients, LogsCall(c)
    PROVE  LogInv'
<1> DEFINE S == DOMAIN calls
           n == call[c]
<1>0. /\ n \in S /\ calls[n].result = Unfinished /\ calls[n].action \in Mutations
      /\ calls[n].table # Reserved
  BY DEF HandlerInv, Active, Serving, LogsCall, Mutations
<1>1. /\ Len(Log) \in Nat /\ DOMAIN Log = 1..Len(Log)
      /\ DOMAIN Log' = 1..Len(Log) + 1
      /\ \A i \in 1..Len(Log) : Log'[i] = Log[i]
      /\ Log'[Len(Log) + 1] = n
  BY LogGrows
<1>2. UNCHANGED <<call, calls>> /\ pc' = [pc EXCEPT ![c] = "answer"] /\ pc[c] = "publish"
  BY DEF LogsCall
<1>3. pc \in [Clients -> HandlerPcs]
  BY DEF ServiceTypeOK
<1>4. ~Acknowledged(n)
  BY <1>0, <1>2 DEF Acknowledged, HandlerInv, Active, Result, Unfinished
<1>5. \A m : Acknowledged(m) \/ m = n => Acknowledged(m)'
  BY <1>2, <1>3 DEF Acknowledged
<1>6. \A i \in DOMAIN Log : /\ Log[i] \in S /\ Log[i] # n
                            /\ n \notin calls[Log[i]].before
  BY <1>0, <1>4 DEF LogInv, Honest, BeforeInv, Finished
<1>8. \A i \in DOMAIN Log' : i \in DOMAIN Log \/ (i = Len(Log) + 1 /\ Log'[i] = n)
  BY <1>1
<1>9. \A i \in DOMAIN Log' : Honest(Log'[i]) \/ Log'[i] = n
  BY <1>1, <1>8 DEF LogInv
<1>10. \A i \in DOMAIN Log' : Honest(Log[i])'
  <2> TAKE i \in DOMAIN Log'
  <2>1. PICK m : m = Log'[i] /\ (Honest(m) \/ m = n)
    BY <1>9
  <2>2. /\ m \in DOMAIN calls' /\ calls'[m].action \in Mutations
        /\ calls'[m].table # Reserved /\ Acknowledged(m)'
    BY <1>0, <1>2, <1>5, <2>1 DEF Honest
  <2>3. QED BY <2>1, <2>2 DEF Honest, Acknowledged
<1>11. \A i, j \in DOMAIN Log' : i < j => /\ Log'[i] # Log'[j]
                                          /\ Log'[j] \notin calls'[Log'[i]].before
  BY <1>1, <1>2, <1>6, <1>8 DEF LogInv
<1>12. QED BY <1>10, <1>11 DEF LogInv

-----------------------------------------------------------------------------
(* The dispatcher.                                                          *)

LEMMA HeadFirst ==
    ASSUME NEW S, NEW s \in Seq(S), s # << >>
    PROVE  /\ <<Head(s)>> \in Seq(S) /\ Tail(s) \in Seq(S)
           /\ s = <<Head(s)>> \o Tail(s)
<1> DEFINE t == <<Head(s)>> \o Tail(s)
<1>1. /\ Head(s) \in S /\ Tail(s) \in Seq(S)
      /\ Len(Tail(s)) = Len(s) - 1
      /\ \A i \in 1..Len(Tail(s)) : Tail(s)[i] = s[i + 1]
      /\ Head(s) = s[1] /\ Len(s) \in Nat \ {0}
  BY HeadTailProperties, EmptySeq
<1>2. <<Head(s)>> \in Seq(S) /\ Len(<<Head(s)>>) = 1 /\ <<Head(s)>>[1] = s[1]
  BY <1>1
<1>3. /\ t \in Seq(S) /\ Len(t) = Len(s)
      /\ \A i \in 1..Len(s) : t[i] = IF i <= 1 THEN <<Head(s)>>[i] ELSE Tail(s)[i - 1]
  BY <1>1, <1>2, ConcatProperties
<1>4. \A i \in 1..Len(s) : t[i] = s[i]
  BY <1>1, <1>2, <1>3
<1>5. QED BY <1>1, <1>2, <1>3, <1>4, SeqEqual

\* Where the i-th element of a \o c is in (a \o b) \o c.
Place(a, b, i) == IF i <= Len(a) THEN i ELSE i + Len(b)

LEMMA TakenOut ==
    ASSUME NEW S, NEW a \in Seq(S), NEW b \in Seq(S), NEW c \in Seq(S),
           NEW i \in DOMAIN (a \o c)
    PROVE  /\ Place(a, b, i) \in DOMAIN ((a \o b) \o c)
           /\ (a \o c)[i] = ((a \o b) \o c)[Place(a, b, i)]
<1> DEFINE ab == a \o b
           k == Place(a, b, i)
<1> USE DEF Place
<1>1. /\ Len(a) \in Nat /\ Len(b) \in Nat /\ Len(c) \in Nat
  BY LenProperties
<1>2. /\ a \o c \in Seq(S) /\ Len(a \o c) = Len(a) + Len(c)
      /\ \A j \in 1..Len(a) + Len(c) :
           (a \o c)[j] = IF j <= Len(a) THEN a[j] ELSE c[j - Len(a)]
  BY ConcatProperties
<1>3. /\ ab \in Seq(S) /\ Len(ab) = Len(a) + Len(b)
      /\ \A j \in 1..Len(a) + Len(b) :
           ab[j] = IF j <= Len(a) THEN a[j] ELSE b[j - Len(a)]
  BY ConcatProperties
<1> HIDE DEF ab
<1>t. \A s \in Seq(S) :
        /\ s \o c \in Seq(S) /\ Len(s \o c) = Len(s) + Len(c)
        /\ \A j \in 1..Len(s) + Len(c) :
             (s \o c)[j] = IF j <= Len(s) THEN s[j] ELSE c[j - Len(s)]
  BY ConcatProperties
<1>4. /\ ab \o c \in Seq(S) /\ Len(ab \o c) = Len(ab) + Len(c)
      /\ \A j \in 1..Len(ab) + Len(c) :
           (ab \o c)[j] = IF j <= Len(ab) THEN ab[j] ELSE c[j - Len(ab)]
  BY <1>3, <1>t
<1>5. DOMAIN (a \o c) = 1..Len(a) + Len(c)
  BY <1>2, LenProperties
<1>6. DOMAIN (ab \o c) = 1..Len(ab) + Len(c)
  BY <1>4, LenProperties
<1>7. k \in 1..Len(ab) + Len(c)
  BY <1>1, <1>3, <1>5
<1>8. (a \o c)[i] = (ab \o c)[k]
  <2>1. CASE i <= Len(a)
    BY <1>1, <1>2, <1>3, <1>4, <1>5, <2>1
  <2>2. CASE i > Len(a)
    <3>1. (a \o c)[i] = c[i - Len(a)] /\ i \in 1..Len(a) + Len(c)
      BY <1>1, <1>2, <1>5, <2>2
    <3>2. k \in 1..Len(ab) + Len(c) /\ ~(k <= Len(ab)) /\ k - Len(ab) = i - Len(a)
      BY <1>1, <1>3, <2>2, <3>1
    <3>3. (ab \o c)[k] = c[k - Len(ab)]
      BY <1>4, <3>2
    <3>4. QED BY <3>1, <3>2, <3>3
  <2>3. i <= Len(a) \/ i > Len(a)
    BY <1>1, <1>5
  <2>4. QED BY <2>1, <2>2, <2>3
<1>9. QED BY <1>6, <1>7, <1>8 DEF ab

\* The dispatcher only moves the borders between the parts of the log.
LEMMA BordersMove ==
    ASSUME ServiceTypeOK, TakeEvent \/ WriteEvent \/ FlushFails
    PROVE  Log' = Log
<1> DEFINE S == DOMAIN calls
<1>0. /\ wal \in Seq(S) /\ wal_buffer \in Seq(S) /\ current \in Seq(S) /\ pending \in Seq(S)
  BY TypesInParts DEF LogTyped
<1> HIDE DEF S
<1>2. /\ wal \o wal_buffer \in Seq(S)
      /\ (wal \o wal_buffer) \o current \in Seq(S)
      /\ wal_buffer \o current \in Seq(S)
      /\ wal \o (wal_buffer \o current) = (wal \o wal_buffer) \o current
  <2>1. wal \o wal_buffer \in Seq(S) /\ wal_buffer \o current \in Seq(S)
    BY <1>0, ConcatProperties
  <2>2. (wal \o wal_buffer) \o current \in Seq(S)
    BY <1>0, <2>1, ConcatProperties
  <2>3. wal \o (wal_buffer \o current) = (wal \o wal_buffer) \o current
    <3>1. wal \in Seq(S) /\ wal_buffer \in Seq(S) /\ current \in Seq(S)
      BY <1>0
    <3>2. QED BY <3>1, Regroup
  <2>4. QED BY <2>1, <2>2, <2>3
<1>3. CASE TakeEvent
  <2>1. /\ current = << >> /\ pending # << >> /\ current' = <<Head(pending)>>
        /\ pending' = Tail(pending) /\ UNCHANGED <<wal, wal_buffer>>
    BY <1>3 DEF TakeEvent, Events!Begin, walVars
  <2>2. /\ <<Head(pending)>> \in Seq(S) /\ Tail(pending) \in Seq(S)
        /\ pending = <<Head(pending)>> \o Tail(pending)
    <3>1. pending \in Seq(S) /\ pending # << >>
      BY <1>0, <2>1
    <3>2. QED BY <3>1, HeadFirst, SMTT(60)
  <2>3. Log = (wal \o wal_buffer) \o pending
    BY <1>2, <2>1, ConcatEmptySeq DEF Log
  <2>4. ((wal \o wal_buffer) \o <<Head(pending)>>) \o Tail(pending)
            = (wal \o wal_buffer) \o (<<Head(pending)>> \o Tail(pending))
    <3>1. /\ wal \o wal_buffer \in Seq(S)
          /\ <<Head(pending)>> \in Seq(S) /\ Tail(pending) \in Seq(S)
      BY <1>2, <2>2
    <3>2. QED BY <3>1, Regroup
  <2>5. QED BY <2>1, <2>2, <2>3, <2>4 DEF Log
<1>4. CASE WriteEvent
  <2>1. /\ current' = << >> /\ wal_buffer' = << >> /\ pending' = pending
        /\ wal' = wal \o (wal_buffer \o current)
    BY <1>4 DEF WriteEvent, FlushedAll, Events!End
  <2>2. Log' = ((wal' \o << >>) \o << >>) \o pending
    BY <2>1 DEF Log
  <2>3. wal' \o << >> = wal' /\ wal' \in Seq(S)
    BY <1>2, <2>1, ConcatEmptySeq
  <2>4. QED BY <1>2, <2>1, <2>2, <2>3 DEF Log
<1>5. CASE FlushFails
  <2> DEFINE e == wal_buffer \o current
  <2>1. PICK i \in 0..Len(e) - 1 :
          /\ wal' = wal \o SubSeq(e, 1, i)
          /\ wal_buffer' = SubSeq(e, i + 1, Len(e))
    BY <1>5 DEF FlushFails, FlushedAll
  <2>2. current' = << >> /\ pending' = pending
    BY <1>5 DEF FlushFails, Events!End
  <2>3. e \in Seq(S) /\ Len(e) \in Nat /\ \A j \in 1..Len(e) : e[j] \in S
    BY <1>2, LenProperties, ElementOfSeq
  <2>4. wal \o e = (wal \o wal_buffer) \o current
    BY <1>2
  <2> HIDE DEF e
  <2>5. SubSeq(e, 1, i) \in Seq(S) /\ SubSeq(e, i + 1, Len(e)) \in Seq(S)
    BY <2>3, SubSeqProperties
  <2>6. SubSeq(e, 1, i) \o SubSeq(e, i + 1, Len(e)) = e
    <3>1. SubSeq(e, 1, i) \o SubSeq(e, i + 1, Len(e)) = SubSeq(e, 1, Len(e))
      BY <2>3, ConcatAdjacentSubSeq
    <3>2. QED BY <2>3, <3>1, SubSeqFull
  <2>7. wal' \o wal_buffer' = wal \o e
    <3>1. wal \in Seq(S)
      BY <1>0
    <3>2. \A s, t \in Seq(S) : (wal \o s) \o t = wal \o (s \o t)
      BY <3>1, Regroup
    <3>3. QED BY <2>1, <2>5, <2>6, <3>2
  <2>8. (wal \o e) \o << >> = wal \o e
    BY <1>2, <2>4, ConcatEmptySeq
  <2>9. QED BY <2>2, <2>4, <2>7, <2>8 DEF Log
<1>6. QED BY <1>3, <1>4, <1>5

\* An append that fails takes one part out.
LEMMA PartGoes ==
    ASSUME ServiceTypeOK, AppendFails
    PROVE  LET front == wal \o wal_buffer
           IN  /\ front \in Seq(DOMAIN calls) /\ current \in Seq(DOMAIN calls)
               /\ pending \in Seq(DOMAIN calls)
               /\ Log = (front \o current) \o pending
               /\ Log' = front \o pending
<1>0. /\ wal \in Seq(DOMAIN calls) /\ wal_buffer \in Seq(DOMAIN calls)
      /\ current \in Seq(DOMAIN calls) /\ pending \in Seq(DOMAIN calls)
  BY TypesInParts DEF LogTyped
<1> DEFINE front == wal \o wal_buffer
<1>1. current' = << >> /\ pending' = pending /\ UNCHANGED <<wal, wal_buffer>>
  BY DEF AppendFails, Events!End, walVars
<1>2. front \in Seq(DOMAIN calls)
  BY <1>0, ConcatProperties
<1>3. Log = (front \o current) \o pending
  BY DEF Log
<1>4. Log' = front \o pending
  BY <1>1, <1>2, ConcatEmptySeq DEF Log
<1>5. QED BY <1>0, <1>2, <1>3, <1>4

LEMMA DispatchKeeps ==
    ASSUME ServiceTypeOK, LogInv, Dispatch
    PROVE  LogInv'
<1> DEFINE S == DOMAIN calls
<1>0. UNCHANGED <<pc, call>>
  BY DEF Dispatch, TakeEvent, WriteEvent, FlushFails, AppendFails
<1>1. UNCHANGED calls
  BY DEF Dispatch, TakeEvent, WriteEvent, FlushFails, AppendFails
<1>2. CASE TakeEvent \/ WriteEvent \/ FlushFails
  BY <1>0, <1>1, <1>2, BordersMove, SameLog DEF Acknowledged
<1>6. CASE AppendFails
  <2> DEFINE front == wal \o wal_buffer
             g(k) == Place(front, current, k)
  <2>2. /\ front \in Seq(S) /\ current \in Seq(S) /\ pending \in Seq(S)
        /\ Log = (front \o current) \o pending /\ Log' = front \o pending
    BY <1>6, PartGoes
  <2> HIDE DEF front
  <2>5. \A i \in DOMAIN Log' : g(i) \in DOMAIN Log /\ Log'[i] = Log[g(i)]
    <3>1. front \in Seq(S) /\ current \in Seq(S) /\ pending \in Seq(S)
      BY <2>2
    <3>2. \A i \in DOMAIN (front \o pending) :
             /\ Place(front, current, i) \in DOMAIN ((front \o current) \o pending)
             /\ (front \o pending)[i]
                  = ((front \o current) \o pending)[Place(front, current, i)]
      BY <3>1, TakenOut, SMTT(60)
    <3>3. QED BY <2>2, <3>2
  <2>6. Len(front) \in Nat /\ Len(current) \in Nat /\ Len(front \o pending) \in Nat
        /\ DOMAIN Log' = 1..Len(front \o pending)
    <3>1. front \o pending \in Seq(S)
      BY <2>2, ConcatProperties
    <3>2. QED BY <2>2, <3>1, LenProperties
  <2>7. \A i, j \in DOMAIN Log' : i < j => g(i) < g(j)
    BY <2>6 DEF Place
  <2> HIDE DEF g
  <2>8. \A i \in DOMAIN Log' : Honest(Log[g(i)])
    BY <2>5 DEF LogInv
  <2>9. \A i \in DOMAIN Log' : Honest(Log'[i])
    BY <2>5, <2>8
  <2>10. \A i, j \in DOMAIN Log' : i < j => /\ Log'[i] # Log'[j]
                                            /\ Log'[j] \notin calls[Log'[i]].before
    BY <2>5, <2>7 DEF LogInv
  <2>11. \A i \in DOMAIN Log' : Honest(Log[i])'
    <3> TAKE i \in DOMAIN Log'
    <3>1. PICK m : m = Log'[i] /\ Honest(m)
      BY <2>9
    <3>2. QED BY <1>0, <1>1, <3>1 DEF Honest, Acknowledged
  <2>12. QED BY <1>1, <2>10, <2>11 DEF LogInv
<1>7. QED BY <1>2, <1>6 DEF Dispatch

-----------------------------------------------------------------------------
LEMMA InitLog == ServiceInit => BeforeInv /\ LogInv
<1> SUFFICES ASSUME ServiceInit PROVE BeforeInv /\ LogInv
  OBVIOUS
<1>1. Log = << >>
  <2>1. << >> \o << >> = << >>
    BY EmptySeq, ConcatEmptySeq
  <2>2. QED BY <2>1 DEF Log, ServiceInit, Events!AbstractInit
<1>2. QED BY <1>1 DEF ServiceInit, BeforeInv, LogInv

LEMMA NextLog ==
    ASSUME ServiceTypeOK, HandlerInv, BeforeInv, LogInv, [ServiceNext]_serviceVars
    PROVE  BeforeInv' /\ LogInv'
<1>1. ASSUME NEW c \in Clients, Handle(c) PROVE BeforeInv' /\ LogInv'
  <2>1. GoesOn(c) \/ Answers(c)
    BY <1>1, HandleEffect
  <2>2. CASE Leaves
    <3>1. Log' = Log
      BY <2>2 DEF Leaves, Log
    <3>2. QED BY <1>1, <2>1, <3>1, BeforeAfter, HandleFields, HandleAcknowledged, SameLog
  <2>3. CASE LogsCall(c)
    BY <2>1, <2>3, BeforeAfter, LogsCallKeeps
  <2>4. QED BY <1>1, <2>2, <2>3, HandleLogs
<1>2. ASSUME NEW c \in Clients, NEW a \in Actions, NEW t \in Tables, NEW k \in Keys,
             Receive(c, a, t, k)
      PROVE  BeforeInv' /\ LogInv'
  <2>1. Receives(c) /\ Log' = Log
    BY <1>2, ReceiveEffect DEF Receive, Log, runtimeVars, walVars
  <2>2. QED BY <2>1, BeforeAfter, ReceivesCalls, ReceivesAcknowledged, SameLog
<1>3. CASE Dispatch
  <2>1. UNCHANGED calls
    BY <1>3 DEF Dispatch, TakeEvent, WriteEvent, FlushFails, AppendFails
  <2>2. QED BY <1>3, <2>1, DispatchKeeps DEF BeforeInv, Finished
<1>4. CASE UNCHANGED serviceVars
  <2>1. UNCHANGED <<pc, call, calls>> /\ Log' = Log
    BY <1>4 DEF serviceVars, runtimeVars, walVars, Log
  <2>2. QED BY <2>1, SameLog DEF BeforeInv, Finished, Acknowledged
<1>5. QED BY <1>1, <1>2, <1>3, <1>4 DEF ServiceNext

LEMMA LogHolds == ServiceSpec => [](BeforeInv /\ LogInv /\ ServiceTypeOK)
  BY InitTyped, NextTyped, InitLog, NextLog, PTL DEF ServiceSpec

\* A mutation that returned before another was received is never logged after
\* it, however handlers interleave and flushes and appends fail.
THEOREM LogRespectsRealTimeHolds == ServiceSpec => []LogRespectsRealTime
<1>1. LogInv => LogRespectsRealTime
  BY DEF LogInv, LogRespectsRealTime
<1>2. QED BY <1>1, LogHolds, PTL

\* Every entry of the log, also one that reached the file before its call was
\* answered, stands for a mutation that was applied and is answered ok, by now
\* or by its handler's next step; none is on the reserved table, and no mutation
\* has two entries.
THEOREM LogIsHonestHolds == ServiceSpec => []LogIsHonest
<1>1. LogInv /\ ServiceTypeOK => LogIsHonest
  <2> SUFFICES ASSUME LogInv, ServiceTypeOK PROVE LogIsHonest
    OBVIOUS
  <2>1. DOMAIN Log \subseteq Nat
    BY LogInSeq, LenProperties
  <2>2. \A i, j \in DOMAIN Log : Log[i] = Log[j] => i = j
    BY <2>1 DEF LogInv
  <2>3. QED BY <2>2 DEF LogInv, Honest, LogIsHonest
<1>2. QED BY <1>1, LogHolds, PTL

-----------------------------------------------------------------------------
(* Memory and the log.  A mutation is applied from its write on; the last   *)
(* one applied to a key decides whether the key is stored, and no other was *)
(* received after that one was answered.  All that is answered is logged or *)
(* was given up, so that the last entry for the key is the last one applied *)
(* when no two overlapped.                                                  *)

\* Mutations whose event was published or given up: they are answered, or have
\* nothing left but that.
Published ==
    {n \in DOMAIN calls :
       /\ calls[n].action \in Mutations
       /\ \/ calls[n].result.tag = "ok"
          \/ \E d \in Clients : pc[d] = "answer" /\ call[d] = n}

\* A mutation that is applied: answered, or about to be published or answered.
InEffect(n) ==
    /\ calls[n].action \in Mutations
    /\ \/ calls[n].result.tag = "ok"
       \/ \E d \in Clients : pc[d] \in {"publish", "answer"} /\ call[d] = n

Applied(t, k) ==
    {n \in DOMAIN calls : InEffect(n) /\ calls[n].table = t /\ calls[n].key = k}

\* One of the mutations S of a key, with the data cs of the calls, may be the last.
LastOf(S, present, cs) ==
    IF S = {} THEN ~present
    ELSE \E w \in S : /\ present <=> cs[w].action # "delete"
                      /\ \A m \in S : w \notin cs[m].before

LastInv == \A t \in Tables \ {Reserved}, k \in Keys :
    NeverRemoved(t) => LastOf(Applied(t, k), Stored(t, k), calls)

KeptInv == \A n \in Published : n \in dropped \/ \E i \in DOMAIN Log : Log[i] = n

\* No two tables share a collection, and a handler holds that of its table
\* unless the table was removed.
PlacesInv ==
    /\ \A t, u \in Tables : tables[t] # 0 /\ tables[t] = tables[u] => t = u
    /\ \A c \in Clients :
         /\ pc[c] \in {"key", "publish"} =>
              /\ \A t \in Tables : t # Serving(c).table => held[c] # tables[t]
              /\ NeverRemoved(Serving(c).table) => held[c] = tables[Serving(c).table]
         /\ pc[c] = "create" => Serving(c).action = "add_table"
         /\ pc[c] = "remove" => Serving(c).action = "remove_table"

\* So whether a table was removed is settled by what was received.
LEMMA RemovedSame ==
    ASSUME ServiceTypeOK, HandlerInv, NEW c \in Clients, Handle(c)
    PROVE  \A t : NeverRemoved(t)' <=> NeverRemoved(t)
  BY HandleFields DEF NeverRemoved

\* The calls that handlers serve are what they were.
LEMMA ServingSame ==
    ASSUME ServiceTypeOK, HandlerInv, NEW c \in Clients, Handle(c)
    PROVE  \A d \in Clients : pc[d] # "idle" =>
               /\ Serving(d)'.action = Serving(d).action
               /\ Serving(d)'.table = Serving(d).table
               /\ Serving(d)'.key = Serving(d).key
<1>1. \A d \in Clients : pc[d] # "idle" => call[d] \in DOMAIN calls
  BY DEF HandlerInv, Active
<1>2. QED BY <1>1, HandleFields DEF Serving

LEMMA TableCreated ==
    ASSUME ServiceTypeOK, NEW t \in Tables, CreateTable(t)
    PROVE  /\ \A u \in Tables : u # t => tables'[u] = tables[u]
           /\ \A h \in DOMAIN collections : collections'[h] = collections[h]
           /\ tables[t] # 0 => tables'[t] = tables[t]
           /\ tables[t] = 0 => /\ tables'[t] = Len(collections) + 1
                               /\ collections'[Len(collections) + 1] = EmptyCollection
           /\ Len(collections) \in Nat /\ DOMAIN collections = 1..Len(collections)
           /\ \A u \in Tables : tables[u] \in 0..Len(collections)
<1>1. /\ collections \in Seq([Keys -> RecordType])
      /\ tables \in [Tables -> 0..Len(collections)]
  BY DEF ServiceTypeOK
<1>2. Len(collections) \in Nat /\ DOMAIN collections = 1..Len(collections)
  BY <1>1, LenProperties
<1>3. EmptyCollection \in [Keys -> RecordType]
  BY DEF EmptyCollection, NoRecord, RecordType
<1>4. CASE tables[t] # 0
  BY <1>1, <1>2, <1>4 DEF CreateTable, memoryVars
<1>5. CASE tables[t] = 0
  <2>1. /\ collections' = Append(collections, EmptyCollection)
        /\ tables' = [tables EXCEPT ![t] = Len(collections) + 1]
    BY <1>5 DEF CreateTable
  <2>2. /\ \A h \in 1..Len(collections) : collections'[h] = collections[h]
        /\ collections'[Len(collections) + 1] = EmptyCollection
    BY <1>1, <1>3, <2>1, AppendProperties
  <2>3. /\ tables'[t] = Len(collections) + 1
        /\ \A u \in Tables : u # t => tables'[u] = tables[u]
    BY <1>1, <2>1
  <2>4. QED BY <1>1, <1>2, <1>5, <2>2, <2>3
<1>6. QED BY <1>4, <1>5

\* A collection that may be held: of no other table, and of this one unless it
\* was removed.
Holds(t, h, ts) ==
    /\ \A u \in Tables : u # t => h # ts[u]
    /\ NeverRemoved(t) => h = ts[t]

LEMMA PlacesKept ==
    ASSUME ServiceTypeOK, HandlerInv, PlacesInv, NEW c \in Clients, Handle(c),
           \A t, u \in Tables : tables'[t] # 0 /\ tables'[t] = tables'[u] => t = u,
           \A d \in Clients : d # c => held'[d] = held[d],
           \A d \in Clients : d # c /\ pc[d] \in {"key", "publish"}
               => Holds(Serving(d).table, held[d], tables'),
           pc'[c] \in {"key", "publish"} => Holds(Serving(c).table, held'[c], tables'),
           pc'[c] = "create" => Serving(c).action = "add_table",
           pc'[c] = "remove" => Serving(c).action = "remove_table"
    PROVE  PlacesInv'
<1>1. Active(c) /\ \A d \in Clients : d # c => pc'[d] = pc[d]
  BY HandleFields
<1>2. ASSUME NEW d \in Clients, pc'[d] # "idle"
      PROVE  /\ Serving(d)'.action = Serving(d).action
             /\ Serving(d)'.table = Serving(d).table
  BY <1>1, <1>2, ServingSame DEF Active
<1>3. ASSUME NEW d \in Clients, pc'[d] \in {"key", "publish"}
      PROVE  /\ \A t \in Tables : t # Serving(d)'.table => held'[d] # tables'[t]
             /\ NeverRemoved(Serving(d).table)' => held'[d] = tables'[Serving(d)'.table]
  <2>1. Holds(Serving(d).table, held'[d], tables')
    BY <1>1, <1>3
  <2>2. Serving(d)'.table = Serving(d).table
    BY <1>2, <1>3
  <2>3. NeverRemoved(Serving(d).table)' <=> NeverRemoved(Serving(d)'.table)
    BY <2>2, RemovedSame
  <2>4. QED BY <2>1, <2>2, <2>3 DEF Holds
<1>4. ASSUME NEW d \in Clients, pc'[d] \in {"create", "remove"}
      PROVE  Serving(d)'.action = IF pc'[d] = "create" THEN "add_table" ELSE "remove_table"
  <2>1. Serving(d)'.action = Serving(d).action
    BY <1>2, <1>4
  <2>2. d # c => pc[d] = pc'[d]
    BY <1>1
  <2>3. QED BY <1>4, <2>1, <2>2 DEF PlacesInv
<1>5. QED BY <1>3, <1>4 DEF PlacesInv

LEMMA HandlePlaces ==
    ASSUME ServiceTypeOK, HandlerInv, PlacesInv, NEW c \in Clients, Handle(c)
    PROVE  PlacesInv'
<1> DEFINE t == Serving(c).table
<1>0. /\ Active(c) /\ t \in Tables
      /\ pc \in [Clients -> HandlerPcs] /\ held \in [Clients -> Nat]
      /\ tables \in [Tables -> 0..Len(collections)]
      /\ Len(collections) \in Nat /\ DOMAIN collections = 1..Len(collections)
  <2>1. Active(c)
    BY HandleFields
  <2>2. Serving(c) \in CallType
    BY <2>1, ServedCall
  <2>3. collections \in Seq([Keys -> RecordType])
    BY DEF ServiceTypeOK
  <2>4. QED BY <2>1, <2>2, <2>3, LenProperties DEF CallType, ServiceTypeOK
<1> HIDE DEF t
<1>1. \A d \in Clients : pc[d] \in {"key", "publish"} =>
        /\ Holds(Serving(d).table, held[d], tables)
        /\ held[d] \in 1..Len(collections)
  BY <1>0 DEF PlacesInv, Holds, ServiceTypeOK
<1>2. \A u, v \in Tables : tables[u] # 0 /\ tables[u] = tables[v] => u = v
  BY DEF PlacesInv
\* The handler leaves the tables alone, and goes on with what it held or found.
<1>3. ASSUME UNCHANGED tables, \A d \in Clients : d # c => held'[d] = held[d],
             pc'[c] \in {"key", "publish"} => Holds(t, held'[c], tables),
             pc'[c] = "create" => Serving(c).action = "add_table",
             pc'[c] = "remove" => Serving(c).action = "remove_table"
      PROVE  PlacesInv'
  <2>1. \A u, v \in Tables : tables'[u] # 0 /\ tables'[u] = tables'[v] => u = v
    BY <1>2, <1>3
  <2>2. \A d \in Clients : d # c /\ pc[d] \in {"key", "publish"}
          => Holds(Serving(d).table, held[d], tables')
    BY <1>1, <1>3
  <2>3. pc'[c] \in {"key", "publish"} => Holds(Serving(c).table, held'[c], tables')
    BY <1>3 DEF t
  <2>4. QED BY <1>3, <2>1, <2>2, <2>3, PlacesKept
\* The handler answers.
<1>4. ASSUME UNCHANGED tables, NEW tag, NEW n, Return(c, tag, n)
      PROVE  PlacesInv'
  <2>1. pc'[c] = "idle" /\ held' = held
    BY <1>0, <1>4 DEF Return
  <2>2. QED BY <1>3, <1>4, <2>1
\* It creates the table, and goes on with its collection or answers.
<1>5. ASSUME CreateTable(t), \A d \in Clients : d # c => held'[d] = held[d],
             pc'[c] \in {"idle", "key"}, pc'[c] = "key" => held'[c] = tables'[t]
      PROVE  PlacesInv'
  <2>1. /\ \A u \in Tables : u # t => tables'[u] = tables[u]
        /\ tables[t] # 0 => tables'[t] = tables[t]
        /\ tables[t] = 0 => tables'[t] = Len(collections) + 1
    BY <1>0, <1>5, TableCreated
  <2>2. \A u \in Tables : u # t => tables[u] # tables'[t]
    BY <1>0, <1>2, <2>1
  <2>3. \A u, v \in Tables : tables'[u] # 0 /\ tables'[u] = tables'[v] => u = v
    BY <1>2, <2>1, <2>2
  <2>4. ASSUME NEW d \in Clients, d # c, pc[d] \in {"key", "publish"}
        PROVE  Holds(Serving(d).table, held[d], tables')
    <3>1. Holds(Serving(d).table, held[d], tables) /\ held[d] \in 1..Len(collections)
      BY <1>1, <2>4
    <3>2. Serving(d).table = t /\ NeverRemoved(t) => tables[t] # 0
      BY <3>1 DEF Holds
    <3>3. held[d] # Len(collections) + 1
      BY <1>0, <3>1
    <3>4. \A u \in Tables : u # Serving(d).table => held[d] # tables'[u]
      BY <2>1, <3>1, <3>3 DEF Holds
    <3>5. Serving(d).table \in Tables
      <4>1. Active(d)
        BY <2>4 DEF Active
      <4>2. QED BY <4>1, ServedCall DEF CallType
    <3>6. NeverRemoved(Serving(d).table) => held[d] = tables'[Serving(d).table]
      BY <2>1, <3>1, <3>2, <3>5 DEF Holds
    <3>7. QED BY <3>4, <3>6 DEF Holds
  <2>5. pc'[c] \in {"key", "publish"} => Holds(Serving(c).table, held'[c], tables')
    BY <1>5, <2>1, <2>2 DEF Holds, t
  <2>6. QED BY <1>5, <2>3, <2>4, <2>5, PlacesKept
<1>6. CASE FindTable(c)
  <2>1. \/ GoOn(c, "key", tables[t])
        \/ \E tag \in {"ok", "no table"} : Return(c, tag, 0)
    BY <1>6 DEF FindTable, t
  <2>2. UNCHANGED tables
    BY <1>6 DEF FindTable, memoryVars
  <2>3. CASE GoOn(c, "key", tables[t])
    <3>1. /\ pc'[c] = "key" /\ held'[c] = tables[t]
          /\ \A d \in Clients : d # c => held'[d] = held[d]
      BY <1>0, <2>3 DEF GoOn
    <3>2. tables[t] # 0
      <4>1. CASE tables[t] = 0
        BY <1>0, <1>6, <3>1, <4>1 DEF FindTable, Return, t
      <4>2. QED BY <4>1
    <3>3. Holds(t, tables[t], tables)
      BY <1>0, <1>2, <3>2 DEF Holds
    <3>4. QED BY <1>3, <2>2, <3>1, <3>3
  <2>4. QED BY <1>4, <2>1, <2>2, <2>3
<1>7. CASE PutCreatesTable(c)
  <2>1. CreateTable(t) /\ GoOn(c, "key", tables'[t])
    BY <1>7 DEF PutCreatesTable, t
  <2>2. /\ pc'[c] = "key" /\ held'[c] = tables'[t]
        /\ \A d \in Clients : d # c => held'[d] = held[d]
    BY <1>0, <2>1 DEF GoOn
  <2>3. QED BY <1>5, <2>1, <2>2
<1>8. CASE ReadKey(c)
  BY <1>4, <1>8 DEF ReadKey, memoryVars
<1>9. CASE WriteKey(c)
  <2>1. /\ pc[c] = "key" /\ pc'[c] = "publish" /\ held' = held /\ UNCHANGED tables
    BY <1>0, <1>9 DEF WriteKey, GoOn
  <2>2. Holds(t, held[c], tables)
    BY <1>1, <2>1 DEF t
  <2>3. QED BY <1>3, <2>1, <2>2
<1>10. CASE Publish(c)
  <2>1. /\ pc'[c] = "answer" /\ UNCHANGED tables
        /\ \A d \in Clients : d # c => held'[d] = held[d]
    BY <1>0, <1>10 DEF Publish, GoOn, memoryVars
  <2>2. QED BY <1>3, <2>1
<1>a. CASE Answer(c)
  BY <1>4, <1>a DEF Answer, memoryVars
<1>11. CASE AddTableChecks(c)
  <2>1. UNCHANGED tables /\ (GoOn(c, "create", 0) \/ Return(c, "exists", 0))
        /\ Serving(c).action = "add_table"
    BY <1>11 DEF AddTableChecks, memoryVars
  <2>2. CASE GoOn(c, "create", 0)
    <3>1. pc'[c] = "create" /\ \A d \in Clients : d # c => held'[d] = held[d]
      BY <1>0, <2>2 DEF GoOn
    <3>2. QED BY <1>3, <2>1, <3>1
  <2>3. QED BY <1>4, <2>1, <2>2
<1>12. CASE AddTableCreates(c)
  <2>1. CreateTable(t) /\ pc'[c] = "idle" /\ held' = held
    BY <1>0, <1>12 DEF AddTableCreates, Return, t
  <2>2. QED BY <1>5, <2>1
<1>13. CASE RemoveTableChecks(c)
  <2>1. /\ UNCHANGED tables /\ pc'[c] = "remove"
        /\ \A d \in Clients : d # c => held'[d] = held[d]
        /\ Serving(c).action = "remove_table"
    BY <1>0, <1>13 DEF RemoveTableChecks, GoOn, memoryVars
  <2>2. QED BY <1>3, <2>1
<1>14. CASE RemoveTableRemoves(c)
  <2>1. /\ pc[c] = "remove" /\ pc'[c] = "idle" /\ held' = held
        /\ tables' = [tables EXCEPT ![t] = 0]
    BY <1>0, <1>14 DEF RemoveTableRemoves, Return, t
  <2>2. \A u \in Tables : tables'[u] = IF u = t THEN 0 ELSE tables[u]
    BY <1>0, <2>1
  <2>3. ~NeverRemoved(t)
    <3>1. Serving(c).action = "remove_table" /\ call[c] \in DOMAIN calls
      BY <1>0, <2>1 DEF PlacesInv, HandlerInv
    <3>2. QED BY <3>1 DEF NeverRemoved, Serving, t
  <2>4. ASSUME NEW d \in Clients, d # c, pc[d] \in {"key", "publish"}
        PROVE  Holds(Serving(d).table, held[d], tables')
    <3>1. Holds(Serving(d).table, held[d], tables) /\ held[d] # 0
      BY <1>0, <1>1, <2>4
    <3>2. Serving(d).table \in Tables
      <4>1. Active(d)
        BY <2>4 DEF Active
      <4>2. QED BY <4>1, ServedCall DEF CallType
    <3>3. QED BY <2>2, <2>3, <3>1, <3>2 DEF Holds
  <2>5. \A u, v \in Tables : tables'[u] # 0 /\ tables'[u] = tables'[v] => u = v
    BY <1>2, <2>2
  <2>6. QED BY <2>1, <2>4, <2>5, PlacesKept
<1>15. QED BY <1>6, <1>7, <1>8, <1>9, <1>10, <1>a, <1>11, <1>12, <1>13, <1>14 DEF Handle

\* What a new call changes: the calls before it are what they were.
LEMMA ReceiveFields ==
    ASSUME ServiceTypeOK, HandlerInv, NEW c \in Clients, NEW a \in Actions,
           NEW t \in Tables, NEW k \in Keys, Receive(c, a, t, k)
    PROVE  /\ UNCHANGED <<tables, collections, held, pending, current, wal_buffer, wal, dropped>>
           /\ DOMAIN calls' = DOMAIN calls \cup {Len(calls) + 1}
           /\ \A n \in DOMAIN calls : calls'[n] = calls[n]
           /\ calls'[Len(calls) + 1].result.tag # "ok"
           /\ call'[c] = Len(calls) + 1 /\ Len(calls) + 1 \notin DOMAIN calls
           /\ ~Active(c) /\ pc'[c] \in {"idle", "table"}
           /\ \A d \in Clients : d # c => pc'[d] = pc[d] /\ call'[d] = call[d]
<1>0. pc \in [Clients -> HandlerPcs] /\ call \in [Clients -> 0..Len(calls)]
  BY DEF ServiceTypeOK
<1>1. Receives(c)
  BY ReceiveEffect
<1>2. /\ Len(calls) \in Nat
      /\ DOMAIN calls = 1..Len(calls) /\ DOMAIN calls' = 1..Len(calls) + 1
      /\ \A n \in DOMAIN calls : calls'[n] = calls[n]
      /\ call'[c] = Len(calls) + 1
  BY <1>1, ReceivesCalls
<1>3. calls'[Len(calls) + 1].result.tag # "ok"
  <2>1. PICK m \in CallType : /\ calls' = Append(calls, m)
                              /\ m.result = Unfinished \/ m.result.tag = "refused"
    BY <1>1 DEF Receives
  <2>2. calls'[Len(calls) + 1] = m
    BY <2>1, AppendProperties DEF ServiceTypeOK
  <2>3. m.result.tag # "ok"
    BY <2>1 DEF Unfinished, Result
  <2>4. QED BY <2>2, <2>3
<1>4. \A d \in Clients : d # c => pc'[d] = pc[d] /\ call'[d] = call[d]
  BY <1>0, <1>1 DEF Receives
<1>5. pc'[c] \in {"idle", "table"} /\ ~Active(c)
  BY <1>0, <1>1 DEF Receives
<1>6. UNCHANGED <<tables, collections, held, pending, current, wal_buffer, wal, dropped>>
  BY DEF Receive, memoryVars, runtimeVars, walVars
<1>7. DOMAIN calls' = DOMAIN calls \cup {Len(calls) + 1} /\ Len(calls) + 1 \notin DOMAIN calls
  BY <1>2
<1>8. QED BY <1>2, <1>3, <1>4, <1>5, <1>6, <1>7

LEMMA ReceivePlaces ==
    ASSUME ServiceTypeOK, HandlerInv, PlacesInv, NEW c \in Clients, NEW a \in Actions,
           NEW t \in Tables, NEW k \in Keys, Receive(c, a, t, k)
    PROVE  PlacesInv'
<1>1. /\ UNCHANGED <<tables, held>>
      /\ \A n \in DOMAIN calls : n \in DOMAIN calls' /\ calls'[n] = calls[n]
      /\ pc'[c] \in {"idle", "table"}
      /\ \A d \in Clients : d # c => pc'[d] = pc[d] /\ call'[d] = call[d]
  BY ReceiveFields
<1>2. \A u : NeverRemoved(u)' => NeverRemoved(u)
  BY <1>1 DEF NeverRemoved
<1>3. \A d \in Clients : d # c /\ Active(d) => calls'[call'[d]] = calls[call[d]]
  BY <1>1 DEF HandlerInv
<1>4. \A d \in Clients : pc'[d] \in {"key", "publish", "create", "remove"} =>
          d # c /\ pc'[d] = pc[d] /\ calls'[call'[d]] = calls[call[d]]
  BY <1>1, <1>3 DEF Active
<1>5. QED BY <1>1, <1>2, <1>4 DEF PlacesInv, Serving

LEMMA NextPlaces ==
    ASSUME ServiceTypeOK, HandlerInv, PlacesInv, [ServiceNext]_serviceVars
    PROVE  PlacesInv'
<1>1. ASSUME NEW c \in Clients, Handle(c) PROVE PlacesInv'
  BY <1>1, HandlePlaces
<1>2. ASSUME NEW c \in Clients, NEW a \in Actions, NEW t \in Tables, NEW k \in Keys,
             Receive(c, a, t, k)
      PROVE  PlacesInv'
  BY <1>2, ReceivePlaces
<1>3. CASE Dispatch \/ UNCHANGED serviceVars
  <2>1. UNCHANGED <<tables, held, pc, call, calls>>
    BY <1>3 DEF Dispatch, TakeEvent, WriteEvent, FlushFails, AppendFails, serviceVars,
       memoryVars
  <2>2. QED BY <2>1 DEF PlacesInv, NeverRemoved, Serving
<1>4. QED BY <1>1, <1>2, <1>3 DEF ServiceNext

\* Of a mutation, only Answer says that it went well.
LEMMA AnswerOf ==
    ASSUME ServiceTypeOK, HandlerInv, PlacesInv, NEW c \in Clients, Handle(c), ~Answer(c)
    PROVE  /\ pc[c] # "answer"
           /\ Serving(c).action \in Mutations =>
                UNCHANGED calls \/ calls'[call[c]].result.tag # "ok"
<1>0. /\ Active(c) /\ Serving(c) \in CallType
      /\ call[c] \in DOMAIN calls /\ calls \in Seq(CallType)
  <2>1. Active(c)
    BY HandleFields
  <2>2. QED BY <2>1, ServedCall DEF HandlerInv, ServiceTypeOK
<1>1. pc[c] # "answer"
  BY DEF Handle, FindTable, PutCreatesTable, ReadKey, WriteKey, Publish, AddTableChecks,
     AddTableCreates, RemoveTableChecks, RemoveTableRemoves
<1>2. ASSUME Serving(c).action \in Mutations
      PROVE  UNCHANGED calls \/ Return(c, "no table", 0)
  <2>1. Serving(c).action \notin {"get", "contains", "add_table", "remove_table"}
    BY <1>2 DEF Mutations
  <2>2. PutCreatesTable(c) \/ WriteKey(c) \/ FindTable(c) \/ Publish(c)
    BY <2>1 DEF Handle, ReadKey, Answer, AddTableChecks, AddTableCreates,
       RemoveTableChecks, RemoveTableRemoves, PlacesInv
  <2>3. QED BY <2>1, <2>2 DEF PutCreatesTable, WriteKey, FindTable, Publish, GoOn
<1>3. Return(c, "no table", 0) => calls'[call[c]].result.tag = "no table"
  <2> SUFFICES ASSUME Return(c, "no table", 0)
               PROVE  calls'[call[c]].result.tag = "no table"
    OBVIOUS
  <2> DEFINE r == Result("no table", 0)
  <2>1. calls' = [calls EXCEPT ![call[c]] = [calls[call[c]] EXCEPT !.result = r]]
    BY DEF Return
  <2>2. calls'[call[c]] = [calls[call[c]] EXCEPT !.result = r]
    BY <1>0, <2>1
  <2>3. calls'[call[c]].result = r
    BY <1>0, <2>2 DEF Serving, CallType
  <2>4. r.tag = "no table"
    BY DEF Result
  <2> HIDE DEF r
  <2>5. QED BY <2>3, <2>4
<1>4. QED BY <1>1, <1>2, <1>3

\* A sequence in three parts, and what is left of it without the middle one.
Joined(a, b, c) == (a \o b) \o c
Around(a, c) == a \o c

\* Without its middle part a sequence has all its elements but those of that part.
LEMMA SplitOut ==
    ASSUME NEW S, NEW a \in Seq(S), NEW b \in Seq(S), NEW c \in Seq(S)
    PROVE  \A i \in DOMAIN Joined(a, b, c) :
             \/ \E j \in DOMAIN b : b[j] = Joined(a, b, c)[i]
             \/ \E j \in DOMAIN Around(a, c) : Around(a, c)[j] = Joined(a, b, c)[i]
<1> SUFFICES ASSUME NEW i \in DOMAIN ((a \o b) \o c)
             PROVE  \/ \E j \in DOMAIN b : b[j] = ((a \o b) \o c)[i]
                    \/ \E j \in DOMAIN (a \o c) : (a \o c)[j] = ((a \o b) \o c)[i]
  BY Zenon DEF Joined, Around
<1> DEFINE ab == a \o b
           x == (ab \o c)[i]
<1>1. /\ Len(a) \in Nat /\ Len(b) \in Nat /\ Len(c) \in Nat /\ DOMAIN b = 1..Len(b)
  BY LenProperties
<1>2. /\ a \o c \in Seq(S) /\ Len(a \o c) = Len(a) + Len(c)
      /\ \A j \in 1..Len(a) + Len(c) :
           (a \o c)[j] = IF j <= Len(a) THEN a[j] ELSE c[j - Len(a)]
  BY ConcatProperties
<1>3. /\ ab \in Seq(S) /\ Len(ab) = Len(a) + Len(b)
      /\ \A j \in 1..Len(a) + Len(b) :
           ab[j] = IF j <= Len(a) THEN a[j] ELSE b[j - Len(a)]
  BY ConcatProperties
<1> HIDE DEF ab
<1>t. \A s \in Seq(S) :
        /\ s \o c \in Seq(S) /\ Len(s \o c) = Len(s) + Len(c)
        /\ \A j \in 1..Len(s) + Len(c) :
             (s \o c)[j] = IF j <= Len(s) THEN s[j] ELSE c[j - Len(s)]
  BY ConcatProperties
<1>4. /\ ab \o c \in Seq(S) /\ Len(ab \o c) = Len(ab) + Len(c)
      /\ \A j \in 1..Len(ab) + Len(c) :
           (ab \o c)[j] = IF j <= Len(ab) THEN ab[j] ELSE c[j - Len(ab)]
  BY <1>3, <1>t
<1>5. DOMAIN (a \o c) = 1..Len(a) + Len(c)
  BY <1>2, LenProperties
<1>6. i \in 1..Len(a) + Len(b) + Len(c)
  <2>1. DOMAIN (ab \o c) = 1..Len(ab) + Len(c)
    BY <1>4, LenProperties
  <2>2. i \in DOMAIN (ab \o c)
    BY DEF ab
  <2>3. QED BY <1>1, <1>3, <2>1, <2>2
<1> HIDE DEF x
<1>7. CASE i <= Len(a)
  <2>1. x = a[i] /\ (a \o c)[i] = a[i] /\ i \in DOMAIN (a \o c)
    <3>1. i \in 1..Len(ab) + Len(c) /\ i <= Len(ab) /\ i \in 1..Len(a) + Len(b)
          /\ i \in 1..Len(a) + Len(c)
      BY <1>1, <1>3, <1>6, <1>7
    <3>2. QED BY <1>2, <1>3, <1>4, <1>5, <1>7, <3>1 DEF x
  <2>2. QED BY <2>1 DEF x, ab
<1>8. CASE i > Len(a) /\ i <= Len(a) + Len(b)
  <2>1. x = b[i - Len(a)] /\ i - Len(a) \in DOMAIN b
    <3>1. i \in 1..Len(ab) + Len(c) /\ i <= Len(ab) /\ i \in 1..Len(a) + Len(b)
          /\ ~(i <= Len(a)) /\ i - Len(a) \in 1..Len(b)
      BY <1>1, <1>3, <1>6, <1>8
    <3>2. QED BY <1>1, <1>3, <1>4, <3>1 DEF x
  <2>2. QED BY <2>1 DEF x, ab
<1>9. CASE i > Len(a) + Len(b)
  <2> DEFINE j == i - Len(b)
  <2>1. x = c[i - Len(ab)] /\ i - Len(ab) = j - Len(a)
    <3>1. i \in 1..Len(ab) + Len(c) /\ ~(i <= Len(ab)) /\ i - Len(ab) = j - Len(a)
      BY <1>1, <1>3, <1>6, <1>9
    <3>2. QED BY <1>4, <3>1 DEF x
  <2>2. j \in 1..Len(a) + Len(c) /\ ~(j <= Len(a))
    BY <1>1, <1>6, <1>9
  <2>3. (a \o c)[j] = c[j - Len(a)]
    <3> HIDE DEF j
    <3>1. QED BY <1>2, <2>2
  <2>4. j \in DOMAIN (a \o c) /\ (a \o c)[j] = x
    <3> HIDE DEF j
    <3>1. QED BY <1>5, <2>1, <2>2, <2>3
  <2>5. QED BY <2>4 DEF x, ab
<1>10. QED BY <1>1, <1>6, <1>7, <1>8, <1>9

-----------------------------------------------------------------------------
(* No answered mutation is lost without being given up.                     *)

LEMMA HandleKept ==
    ASSUME ServiceTypeOK, HandlerInv, PlacesInv, KeptInv, NEW c \in Clients, Handle(c)
    PROVE  KeptInv'
<1>1. /\ DOMAIN calls' = DOMAIN calls /\ call' = call /\ Active(c)
      /\ \A n \in DOMAIN calls : calls'[n].action = calls[n].action
                                 /\ (n # call[c] => calls'[n] = calls[n])
      /\ \A d \in Clients : d # c => pc'[d] = pc[d]
  BY HandleFields
<1>2. CASE Publish(c)
  <2>1. Published' \subseteq Published \cup {call[c]}
    BY <1>1, <1>2 DEF Published, Publish, GoOn
  <2>2. CASE Events!Submit(call[c]) /\ UNCHANGED dropped
    <3>1. LogsCall(c)
      BY <1>2, <2>2 DEF Publish, LogsCall, Events!Submit, GoOn, walVars
    <3>2. /\ DOMAIN Log \subseteq DOMAIN Log'
          /\ \A i \in DOMAIN Log : Log'[i] = Log[i]
          /\ Len(Log) + 1 \in DOMAIN Log' /\ Log'[Len(Log) + 1] = call[c]
      BY <3>1, LogGrows
    <3>3. QED BY <2>1, <2>2, <3>2 DEF KeptInv
  <2>3. CASE call[c] \in dropped' /\ dropped \subseteq dropped' /\ UNCHANGED runtimeVars
    <3>1. Log' = Log
      BY <1>2, <2>3 DEF Publish, Log, runtimeVars, walVars
    <3>2. QED BY <2>1, <2>3, <3>1 DEF KeptInv
  <2>4. QED BY <1>2, <2>2, <2>3 DEF Publish
<1>3. CASE ~Publish(c)
  <2>1. UNCHANGED <<Log, dropped>>
    BY <1>3 DEF Handle, FindTable, PutCreatesTable, ReadKey, WriteKey, Answer, AddTableChecks,
       AddTableCreates, RemoveTableChecks, RemoveTableRemoves, Log, runtimeVars, walVars
  <2>2. pc'[c] # "answer"
    BY <1>1, <1>3 DEF Handle, FindTable, PutCreatesTable, ReadKey, WriteKey, Answer,
       AddTableChecks, AddTableCreates, RemoveTableChecks, RemoveTableRemoves, GoOn,
       Return, ServiceTypeOK
  <2>3. CASE Answer(c)
    <3>1. call[c] \in DOMAIN calls /\ pc[c] = "answer"
      BY <1>1, <2>3 DEF HandlerInv, Answer
    <3>2. Published' \subseteq Published
      BY <1>1, <2>2, <3>1 DEF Published
    <3>3. QED BY <2>1, <3>2 DEF KeptInv
  <2>4. CASE ~Answer(c)
    <3>1. calls[call[c]].action \in Mutations =>
            UNCHANGED calls \/ calls'[call[c]].result.tag # "ok"
      BY <2>4, AnswerOf DEF Serving
    <3>2. Published' \subseteq Published
      BY <1>1, <2>2, <3>1 DEF Published
    <3>3. QED BY <2>1, <3>2 DEF KeptInv
  <2>5. QED BY <2>3, <2>4
<1>4. QED BY <1>2, <1>3

LEMMA DispatchKept ==
    ASSUME ServiceTypeOK, KeptInv, Dispatch
    PROVE  KeptInv'
<1>1. UNCHANGED calls /\ Published' = Published
  BY DEF Dispatch, TakeEvent, WriteEvent, FlushFails, AppendFails, Published
<1>2. CASE TakeEvent \/ WriteEvent \/ FlushFails
  <2>1. Log' = Log /\ dropped' = dropped
    BY <1>2, BordersMove DEF TakeEvent, WriteEvent, FlushFails
  <2>2. QED BY <1>1, <2>1 DEF KeptInv
<1>3. CASE AppendFails
  <2> DEFINE S == DOMAIN calls
             front == wal \o wal_buffer
  <2>1. /\ front \in Seq(S) /\ current \in Seq(S) /\ pending \in Seq(S)
        /\ Log = (front \o current) \o pending /\ Log' = front \o pending
    BY <1>3, PartGoes
  <2>2. dropped' = dropped \cup Events!Elements(current)
    BY <1>3 DEF AppendFails
  <2> HIDE DEF S, front
  <2>3. ASSUME NEW i \in DOMAIN Log
        PROVE  Log[i] \in dropped' \/ \E j \in DOMAIN Log' : Log'[j] = Log[i]
    <3>1. front \in Seq(S) /\ current \in Seq(S) /\ pending \in Seq(S)
      BY <2>1
    <3>2. Log = Joined(front, current, pending) /\ Log' = Around(front, pending)
      BY <2>1, Zenon DEF Joined, Around
    <3>3. \/ \E j \in DOMAIN current : current[j] = Log[i]
          \/ \E j \in DOMAIN Log' : Log'[j] = Log[i]
      BY <2>3, <3>1, <3>2, SplitOut
    <3>4. QED BY <2>2, <3>3 DEF Events!Elements
  <2>4. QED BY <1>1, <2>2, <2>3 DEF KeptInv
<1>4. QED BY <1>2, <1>3 DEF Dispatch

LEMMA NextKept ==
    ASSUME ServiceTypeOK, HandlerInv, PlacesInv, KeptInv, [ServiceNext]_serviceVars
    PROVE  KeptInv'
<1>1. ASSUME NEW c \in Clients, Handle(c) PROVE KeptInv'
  BY <1>1, HandleKept
<1>2. ASSUME NEW c \in Clients, NEW a \in Actions, NEW t \in Tables, NEW k \in Keys,
             Receive(c, a, t, k)
      PROVE  KeptInv'
  <2>1. UNCHANGED <<Log, dropped>>
    BY <1>2, ReceiveFields DEF Log
  <2>2. Published' \subseteq Published
    <3>1. /\ DOMAIN calls' = DOMAIN calls \cup {Len(calls) + 1}
          /\ \A n \in DOMAIN calls : calls'[n] = calls[n]
          /\ calls'[Len(calls) + 1].result.tag # "ok"
          /\ Len(calls) + 1 \notin DOMAIN calls
          /\ ~Active(c) /\ pc'[c] \in {"idle", "table"}
          /\ \A d \in Clients : d # c => pc'[d] = pc[d] /\ call'[d] = call[d]
      BY <1>2, ReceiveFields
    <3>2. \A d \in Clients : pc'[d] = "answer" =>
            pc[d] = "answer" /\ call'[d] = call[d] /\ call[d] \in DOMAIN calls
      BY <3>1 DEF Active, HandlerInv
    <3>3. QED BY <3>1, <3>2 DEF Published
  <2>3. QED BY <2>1, <2>2 DEF KeptInv
<1>3. CASE Dispatch
  BY <1>3, DispatchKept
<1>4. CASE UNCHANGED serviceVars
  BY <1>4 DEF serviceVars, runtimeVars, walVars, KeptInv, Published, Log
<1>5. QED BY <1>1, <1>2, <1>3, <1>4 DEF ServiceNext

-----------------------------------------------------------------------------
(* What is stored is what the last mutation in effect left.                 *)

\* A mutation takes effect with its write, and stays in effect.
LEMMA HandleEffects ==
    ASSUME ServiceTypeOK, HandlerInv, PlacesInv, NEW c \in Clients, Handle(c)
    PROVE  \A n \in DOMAIN calls :
             InEffect(n)' <=> InEffect(n) \/ (WriteKey(c) /\ n = call[c])
<1>0. pc \in [Clients -> HandlerPcs]
  BY DEF ServiceTypeOK
<1>1. /\ Active(c) /\ call' = call
      /\ \A n \in DOMAIN calls : /\ calls'[n].action = calls[n].action
                                 /\ n # call[c] => calls'[n] = calls[n]
      /\ \A d \in Clients : d # c => pc'[d] = pc[d] /\ (Active(d) => call[d] # call[c])
  BY HandleFields
<1>2. ASSUME NEW n \in DOMAIN calls, n # call[c]
      PROVE  InEffect(n)' <=> InEffect(n)
  BY <1>1, <1>2 DEF InEffect
\* The call that the handler serves.
<1>3. PICK m \in DOMAIN calls : m = call[c]
  BY <1>1 DEF HandlerInv
<1>4. InEffect(m) <=> pc[c] \in {"publish", "answer"}
  BY <1>1, <1>3 DEF InEffect, Serving, Active, HandlerInv, Unfinished, Result
<1>5. InEffect(m)' <=>
        /\ Serving(c).action \in Mutations
        /\ calls'[m].result.tag = "ok" \/ pc'[c] \in {"publish", "answer"}
  BY <1>1, <1>3 DEF InEffect, Serving, Active
<1>6. CASE WriteKey(c)
  <2>1. Serving(c).action \in Mutations /\ pc'[c] = "publish"
    BY <1>0, <1>6 DEF WriteKey, GoOn
  <2>2. QED BY <1>2, <1>3, <1>5, <1>6, <2>1
<1>a. CASE Publish(c)
  <2>1. pc[c] = "publish" /\ pc'[c] = "answer"
    BY <1>0, <1>a DEF Publish, GoOn
  <2>2. Serving(c).action \in Mutations /\ ~WriteKey(c)
    BY <2>1 DEF HandlerInv, Active, WriteKey
  <2>3. QED BY <1>2, <1>3, <1>4, <1>5, <2>1, <2>2
<1>7. CASE Answer(c)
  <2>1. pc[c] = "answer" /\ calls' = [calls EXCEPT ![call[c]].result = Result("ok", 0)]
    BY <1>7 DEF Answer, Return
  <2>2. calls[call[c]] \in CallType /\ calls \in Seq(CallType)
    BY <1>1, ServedCall DEF Serving, ServiceTypeOK
  <2>3. calls'[call[c]].result = Result("ok", 0)
    BY <1>3, <2>1, <2>2 DEF CallType
  <2>4. calls'[m].result.tag = "ok"
    <3>1. Result("ok", 0).tag = "ok"
      BY DEF Result
    <3>2. QED BY <1>3, <2>3, <3>1
  <2>5. ~WriteKey(c)
    BY <2>1 DEF WriteKey
  <2>6. Serving(c).action \in Mutations
    BY <2>1 DEF HandlerInv, Active
  <2>7. QED BY <1>2, <1>3, <1>4, <1>5, <2>1, <2>4, <2>5, <2>6
<1>8. CASE ~WriteKey(c) /\ ~Publish(c) /\ ~Answer(c)
  <2>0. pc[c] # "publish"
    BY <1>8 DEF Handle, FindTable, PutCreatesTable, ReadKey, AddTableChecks,
       AddTableCreates, RemoveTableChecks, RemoveTableRemoves
  <2>1. /\ pc[c] # "answer"
        /\ Serving(c).action \in Mutations =>
             UNCHANGED calls \/ calls'[call[c]].result.tag # "ok"
    BY <1>8, AnswerOf
  <2>2. pc'[c] \notin {"publish", "answer"}
    BY <1>0, <1>8 DEF Handle, FindTable, PutCreatesTable, ReadKey, AddTableChecks,
       AddTableCreates, RemoveTableChecks, RemoveTableRemoves, GoOn, Return
  <2>3. ~InEffect(m)'
    <3>1. calls[m].result.tag # "ok"
      BY <1>1, <1>3 DEF HandlerInv, Serving, Unfinished, Result
    <3>2. QED BY <1>3, <1>5, <2>1, <2>2, <3>1
  <2>4. QED BY <1>2, <1>3, <1>4, <1>8, <2>0, <2>1, <2>3
<1>9. QED BY <1>6, <1>a, <1>7, <1>8

\* No other step stores or unstores a key of a table that is not removed.
LEMMA StoredSame ==
    ASSUME ServiceTypeOK, HandlerInv, PlacesInv, NEW c \in Clients, Handle(c),
           ~WriteKey(c), NEW t \in Tables, NEW k \in Keys, NeverRemoved(t)
    PROVE  Stored(t, k)' <=> Stored(t, k)
<1>0. Active(c) /\ Serving(c).table \in Tables /\ call[c] \in DOMAIN calls
  <2>1. Active(c)
    BY HandleFields
  <2>2. QED BY <2>1, ServedCall DEF CallType, HandlerInv
<1>1. CASE UNCHANGED memoryVars
  BY <1>1 DEF memoryVars, Stored
<1>2. CASE CreateTable(Serving(c).table)
  <2> DEFINE u == Serving(c).table
  <2>1. /\ \A v \in Tables : v # u => tables'[v] = tables[v]
        /\ \A h \in DOMAIN collections : collections'[h] = collections[h]
        /\ tables[u] # 0 => tables'[u] = tables[u]
        /\ tables[u] = 0 => /\ tables'[u] = Len(collections) + 1
                            /\ collections'[Len(collections) + 1] = EmptyCollection
        /\ Len(collections) \in Nat /\ DOMAIN collections = 1..Len(collections)
        /\ \A v \in Tables : tables[v] \in 0..Len(collections)
    BY <1>0, <1>2, TableCreated
  <2>2. CASE tables[t] # 0
    <3>1. tables'[t] = tables[t] /\ tables[t] \in DOMAIN collections
      BY <2>1, <2>2
    <3>2. QED BY <2>1, <3>1 DEF Stored
  <2>3. CASE tables[t] = 0 /\ t # u
    BY <2>1, <2>3 DEF Stored
  <2>4. CASE tables[t] = 0 /\ t = u
    BY <2>1, <2>4 DEF Stored, EmptyCollection
  <2>5. QED BY <2>2, <2>3, <2>4
<1>3. CASE RemoveTableRemoves(c)
  <2>1. Serving(c).table # t
    BY <1>0, <1>3 DEF RemoveTableRemoves, PlacesInv, NeverRemoved, Serving
  <2>2. tables'[t] = tables[t] /\ collections' = collections
    BY <1>3, <2>1 DEF RemoveTableRemoves, ServiceTypeOK
  <2>3. QED BY <2>2 DEF Stored
<1>4. QED
  BY <1>1, <1>2, <1>3 DEF Handle, FindTable, PutCreatesTable, ReadKey, WriteKey, Publish,
     Answer, AddTableChecks, AddTableCreates, RemoveTableChecks

\* The write stores or unstores the key of its call and no other.
LEMMA StoredWritten ==
    ASSUME ServiceTypeOK, HandlerInv, PlacesInv, NEW c \in Clients, WriteKey(c),
           NEW t \in Tables, NEW k \in Keys, NeverRemoved(t)
    PROVE  IF Serving(c).table = t /\ Serving(c).key = k
           THEN Stored(t, k)' <=> Serving(c).action # "delete"
           ELSE Stored(t, k)' <=> Stored(t, k)
<1> DEFINE h == held[c]
           r == collections[h][Serving(c).key]
           new == Changed(Serving(c).action, r, call[c])
<1>0. /\ Active(c) /\ pc[c] = "key" /\ UNCHANGED tables
      /\ h \in DOMAIN collections /\ h # 0 /\ Serving(c).action \in Mutations
      /\ \A u \in Tables : u # Serving(c).table => h # tables[u]
      /\ NeverRemoved(Serving(c).table) => h = tables[Serving(c).table]
  <2>1. pc[c] = "key" /\ UNCHANGED tables /\ Serving(c).action \in Mutations
    BY DEF WriteKey
  <2>2. h \in DOMAIN collections /\ DOMAIN collections = 1..Len(collections)
    BY <2>1, LenProperties DEF ServiceTypeOK
  <2>3. QED BY <2>1, <2>2 DEF Active, PlacesInv
<1>1. Serving(c).key \in Keys /\ collections[h] \in [Keys -> RecordType]
      /\ collections \in Seq([Keys -> RecordType])
  <2>1. Serving(c) \in CallType
    BY <1>0, ServedCall
  <2>2. Serving(c).key \in Keys
    BY <2>1 DEF CallType
  <2>3. collections \in Seq([Keys -> RecordType])
    BY DEF ServiceTypeOK
  <2>4. QED BY <1>0, <2>2, <2>3, ElementOfSeq, LenProperties
<1>2. r \in RecordType
  BY <1>1
<1>3. new = NoRecord <=> Serving(c).action = "delete"
  BY <1>0, <1>2 DEF Changed, Mutations, NoRecord, RecordType
<1>4. collections' = [collections EXCEPT ![h] = [collections[h] EXCEPT ![Serving(c).key] = new]]
  BY DEF WriteKey
<1> HIDE DEF new
<1>5. /\ \A g \in DOMAIN collections : g # h => collections'[g] = collections[g]
      /\ collections'[h] = [collections[h] EXCEPT ![Serving(c).key] = new]
  BY <1>0, <1>1, <1>4
<1>6. collections'[h][Serving(c).key] = new
      /\ \A j \in Keys : j # Serving(c).key => collections'[h][j] = collections[h][j]
  BY <1>1, <1>5
<1>7. tables[t] # 0 => tables[t] \in DOMAIN collections
  <2>1. DOMAIN collections = 1..Len(collections) /\ Len(collections) \in Nat
        /\ tables \in [Tables -> 0..Len(collections)]
    BY <1>1, LenProperties DEF ServiceTypeOK
  <2>2. QED BY <2>1
<1> HIDE DEF h
<1>8. CASE Serving(c).table # t
  BY <1>0, <1>5, <1>7, <1>8 DEF Stored
<1>9. CASE Serving(c).table = t /\ Serving(c).key # k
  BY <1>0, <1>6, <1>9 DEF Stored
<1>10. CASE Serving(c).table = t /\ Serving(c).key = k
  BY <1>0, <1>3, <1>6, <1>10 DEF Stored
<1>11. QED BY <1>8, <1>9, <1>10

LEMMA HandleLast ==
    ASSUME ServiceTypeOK, HandlerInv, BeforeInv, PlacesInv, LastInv,
           NEW c \in Clients, Handle(c)
    PROVE  LastInv'
<1>1. /\ Active(c) /\ DOMAIN calls' = DOMAIN calls
      /\ \A n \in DOMAIN calls : /\ calls'[n].action = calls[n].action
                                 /\ calls'[n].table = calls[n].table
                                 /\ calls'[n].key = calls[n].key
                                 /\ calls'[n].before = calls[n].before
  BY HandleFields
<1>2. SUFFICES ASSUME NEW t \in Tables \ {Reserved}, NEW k \in Keys, NeverRemoved(t)
               PROVE  LastOf(Applied(t, k), Stored(t, k), calls)'
  BY RemovedSame DEF LastInv
<1>3. LastOf(Applied(t, k), Stored(t, k), calls)
  BY <1>2 DEF LastInv
<1>4. PICK m \in DOMAIN calls : m = call[c]
  BY <1>1 DEF HandlerInv
<1>5. Serving(c) = calls[m]
  BY <1>4 DEF Serving
<1>6. \A n \in DOMAIN calls : InEffect(n)' <=> InEffect(n) \/ (WriteKey(c) /\ n = m)
  BY <1>4, HandleEffects
<1>7. CASE WriteKey(c) /\ calls[m].table = t /\ calls[m].key = k
  <2>1. Applied(t, k)' = Applied(t, k) \cup {m}
    BY <1>1, <1>6, <1>7 DEF Applied
  <2>2. Stored(t, k)' <=> calls'[m].action # "delete"
    BY <1>1, <1>2, <1>5, <1>7, StoredWritten
  <2>3. \A n \in Applied(t, k)' : m \notin calls'[n].before
    <3>1. calls[m].result = Unfinished
      BY <1>1, <1>4 DEF HandlerInv, Serving
    <3>2. \A n \in DOMAIN calls : m \notin calls[n].before
      BY <3>1 DEF BeforeInv, Finished
    <3>3. QED BY <1>1, <3>2 DEF Applied
  <2>4. QED BY <2>1, <2>2, <2>3 DEF LastOf
<1>8. CASE ~(WriteKey(c) /\ calls[m].table = t /\ calls[m].key = k)
  <2>1. Applied(t, k)' = Applied(t, k)
    BY <1>1, <1>6, <1>8 DEF Applied
  <2>2. Stored(t, k)' <=> Stored(t, k)
    BY <1>2, <1>5, <1>8, StoredSame, StoredWritten
  <2>3. \A n \in Applied(t, k) : /\ calls'[n].action = calls[n].action
                                 /\ calls'[n].before = calls[n].before
    BY <1>1 DEF Applied
  <2>4. QED BY <1>3, <2>1, <2>2, <2>3 DEF LastOf
<1>9. QED BY <1>7, <1>8

LEMMA ReceiveLast ==
    ASSUME ServiceTypeOK, HandlerInv, LastInv, NEW c \in Clients, NEW a \in Actions,
           NEW u \in Tables, NEW j \in Keys, Receive(c, a, u, j)
    PROVE  LastInv'
<1>1. /\ UNCHANGED <<tables, collections>>
      /\ DOMAIN calls' = DOMAIN calls \cup {Len(calls) + 1}
      /\ \A n \in DOMAIN calls : calls'[n] = calls[n]
      /\ calls'[Len(calls) + 1].result.tag # "ok"
      /\ Len(calls) + 1 \notin DOMAIN calls
      /\ ~Active(c) /\ pc'[c] \in {"idle", "table"}
      /\ \A d \in Clients : d # c => pc'[d] = pc[d] /\ call'[d] = call[d]
  BY ReceiveFields
<1>2. \A d \in Clients :
        pc'[d] \in {"publish", "answer"} <=> pc[d] \in {"publish", "answer"}
  BY <1>1 DEF Active
<1>3. \A d \in Clients : pc[d] \in {"publish", "answer"} =>
        call'[d] = call[d] /\ call[d] \in DOMAIN calls
  BY <1>1 DEF Active, HandlerInv
<1>4. \A n \in DOMAIN calls : InEffect(n)' <=> InEffect(n)
  BY <1>1, <1>2, <1>3 DEF InEffect
<1>5. \A n \in DOMAIN calls' \ DOMAIN calls : ~InEffect(n)'
  BY <1>1, <1>2, <1>3 DEF InEffect
<1>6. SUFFICES ASSUME NEW t \in Tables \ {Reserved}, NEW k \in Keys, NeverRemoved(t)'
               PROVE  LastOf(Applied(t, k), Stored(t, k), calls)'
  BY DEF LastInv
<1>7. LastOf(Applied(t, k), Stored(t, k), calls)
  BY <1>1, <1>6 DEF LastInv, NeverRemoved
<1>8. Applied(t, k)' = Applied(t, k)
  BY <1>1, <1>4, <1>5 DEF Applied
<1>9. \A n \in Applied(t, k) : calls'[n] = calls[n]
  BY <1>1 DEF Applied
<1>10. Stored(t, k)' <=> Stored(t, k)
  BY <1>1 DEF Stored
<1>11. QED BY <1>7, <1>8, <1>9, <1>10 DEF LastOf

LEMMA NextLast ==
    ASSUME ServiceTypeOK, HandlerInv, BeforeInv, PlacesInv, LastInv,
           [ServiceNext]_serviceVars
    PROVE  LastInv'
<1>1. ASSUME NEW c \in Clients, Handle(c) PROVE LastInv'
  BY <1>1, HandleLast
<1>2. ASSUME NEW c \in Clients, NEW a \in Actions, NEW t \in Tables, NEW k \in Keys,
             Receive(c, a, t, k)
      PROVE  LastInv'
  BY <1>2, ReceiveLast
<1>3. CASE Dispatch \/ UNCHANGED serviceVars
  <2>1. UNCHANGED <<tables, collections, pc, call, calls>>
    BY <1>3 DEF Dispatch, TakeEvent, WriteEvent, FlushFails, AppendFails, serviceVars,
       memoryVars
  <2>2. QED BY <2>1 DEF LastInv, LastOf, NeverRemoved, Applied, InEffect, Stored
<1>4. QED BY <1>1, <1>2, <1>3 DEF ServiceNext

LEMMA InitPlaces == ServiceInit => PlacesInv /\ KeptInv /\ LastInv
<1> SUFFICES ASSUME ServiceInit PROVE PlacesInv /\ KeptInv /\ LastInv
  OBVIOUS
<1>1. /\ \A c \in Clients : pc[c] = "idle"
      /\ DOMAIN calls = {}
      /\ \A t \in Tables : tables[t] # 0 <=> t \in Seeded
      /\ \A t, u \in Seeded : tables[t] = tables[u] => t = u
      /\ collections = [i \in 1..Cardinality(Seeded) |->
                          IF i = 1 THEN IdentityCollection ELSE EmptyCollection]
      /\ tables \in [Tables -> 0..Cardinality(Seeded)] /\ tables[Reserved] = 1
  BY DEF ServiceInit
<1>2. PlacesInv
  BY <1>1 DEF PlacesInv
<1>3. KeptInv
  BY <1>1 DEF KeptInv, Published
<1>4. \A t \in Tables \ {Reserved}, k \in Keys : Applied(t, k) = {} /\ ~Stored(t, k)
  <2>1. Cardinality(Seeded) \in Nat /\ Reserved \in Seeded
    BY ServiceAssumption, FS_CardinalityType
  <2>2. ASSUME NEW t \in Tables \ {Reserved}, tables[t] # 0
        PROVE  collections[tables[t]] = EmptyCollection
    <3>1. tables[t] # 1 /\ tables[t] \in 1..Cardinality(Seeded)
      BY <1>1, <2>1, <2>2
    <3>2. QED BY <1>1, <3>1
  <2>3. \A k \in Keys : EmptyCollection[k] = NoRecord
    BY DEF EmptyCollection
  <2>4. \A t \in Tables, k \in Keys : Applied(t, k) = {}
    BY <1>1 DEF Applied
  <2>5. QED BY <2>2, <2>3, <2>4 DEF Stored
<1>5. LastInv
  BY <1>4 DEF LastInv, LastOf
<1>6. QED BY <1>2, <1>3, <1>5

LEMMA MemoryHolds ==
    ServiceSpec => [](ServiceTypeOK /\ HandlerInv /\ BeforeInv /\ LogInv
                      /\ PlacesInv /\ KeptInv /\ LastInv)
  BY InitTyped, NextTyped, InitLog, NextLog, InitPlaces, NextPlaces, NextKept, NextLast, PTL
     DEF ServiceSpec

\* Replaying the log gives back the keys in memory: in a quiet state a key of a
\* table that nobody removed is stored exactly when the log's last entry for it
\* is not a delete, if its mutations did not overlap and none was given up.  It
\* says nothing of the reserved table, whose one key has no entry.
THEOREM ReplayAgreesHolds == ServiceSpec => []ReplayAgrees
<1>1. ServiceTypeOK /\ LogInv /\ KeptInv /\ LastInv => ReplayAgrees
  <2> SUFFICES ASSUME ServiceTypeOK, LogInv, KeptInv, LastInv, Quiet,
                      NEW t \in Tables \ {Reserved}, NEW k \in Keys,
                      Sequential(CallsOn(t, k)),
                      NeverRemoved(t), CallsOn(t, k) \cap dropped = {}
               PROVE  Stored(t, k) <=> PresentByLog(t, k)
    BY DEF ReplayAgrees
  <2> DEFINE C == CallsOn(t, k)
             entries == {i \in DOMAIN Log : Log[i] \in C}
  <2>1. Applied(t, k) = C
    BY DEF Applied, InEffect, CallsOn, Quiet
  <2>2. LastOf(C, Stored(t, k), calls)
    BY <2>1 DEF LastInv
  <2>3. entries \subseteq Nat
    <3>1. DOMAIN Log = 1..Len(Log)
      BY LogInSeq, LenProperties
    <3>2. QED BY <3>1
  <2>4. \A n \in C : \E i \in entries : Log[i] = n
    BY DEF KeptInv, Published, CallsOn
  <2>5. PresentByLog(t, k) <=>
          \E i \in entries : /\ \A j \in entries : j <= i
                             /\ calls[Log[i]].action # "delete"
    BY DEF PresentByLog
  <2>6. CASE C = {}
    BY <2>2, <2>5, <2>6 DEF LastOf
  <2>7. CASE C # {}
    <3>1. PICK w \in C : /\ Stored(t, k) <=> calls[w].action # "delete"
                         /\ \A m \in C : w \notin calls[m].before
      BY <2>2, <2>7 DEF LastOf
    <3>2. PICK last \in entries : Log[last] = w
      BY <2>4, <3>1
    <3>3. ASSUME NEW j \in entries PROVE j <= last
      <4>1. CASE Log[j] = w
        <5>1. ~(last < j)
          BY <3>2, <4>1 DEF LogInv
        <5>2. QED BY <2>3, <5>1
      <4>2. CASE Log[j] # w
        <5>1. Log[j] \in C /\ w \notin calls[Log[j]].before
          BY <3>1
        <5>2. Log[j] \in calls[w].before
          BY <3>1, <4>2, <5>1 DEF Sequential
        <5>3. ~(last < j)
          BY <3>2, <5>2 DEF LogInv
        <5>4. QED BY <2>3, <5>3
      <4>3. QED BY <4>1, <4>2
    <3>4. \A i \in entries : (\A j \in entries : j <= i) => i = last
      BY <2>3, <3>3
    <3> HIDE DEF entries
    <3>5. QED BY <2>5, <3>1, <3>2, <3>3, <3>4
  <2>8. QED BY <2>6, <2>7
<1>2. QED BY <1>1, MemoryHolds, PTL
-----------------------------------------------------------------------------
(* The results of all calls (StorageHistory).  The invariant is that there  *)
(* is a story: an order of steps, of finished calls and of those under way, *)
(* that ends in what is in memory.  A handler's step is put in at the end,  *)
(* except when the collection it holds has left the store: then it goes     *)
(* just before the step that removed the table, which forgets what it did.  *)
(* Nothing its call had to wait for comes after that step, since the        *)
(* handler found the collection before.                                     *)

\* A call takes at most two steps.
LEMMA FewSteps ==
    ASSUME NEW action, NEW tag
    PROVE  Len(StepsWith(action, tag)) \in 0..2
<1>1. Len(Steps(action)) \in 0..2
  BY DEF Steps
<1>2. QED BY <1>1 DEF StepsWith

\* A story: what the reference store and the numbers of steps taken are after
\* each step, when the calls get the results `told`.  p.at[p.len] says which
\* steps are in it; a call that has none can still be told anything.
Takes(p, told, i) ==
    LET n == p.who[i]
        a == p.at[i - 1]
        steps == StepsWith(calls[n].action, told[n].tag)
    IN  /\ a[n] < Len(steps)
        /\ p.step[i] = steps[a[n] + 1]
        /\ \A m \in calls[n].before : a[m] = Len(StepsWith(calls[m].action, told[m].tag))
        /\ Consistent(p.step[i], n, told[n], p.store[i - 1])
        /\ p.store[i] = Effect(p.step[i], n, p.store[i - 1])
        /\ \A m \in Nat : p.at[i][m] = IF m = n THEN a[m] + 1 ELSE a[m]
        /\ p.at[p.len][n] # 0

StoryTyped(p) ==
    /\ p.len \in Nat
    /\ p.who \in [1..p.len -> DOMAIN calls]
    /\ p.at \in [0..p.len -> [Nat -> 0..2]]
    /\ p.store \in [0..p.len -> Stores]

Story(p, told) ==
    /\ StoryTyped(p)
    /\ p.store[0] = Start.store
    /\ \A m \in Nat : p.at[0][m] = 0
    /\ \A i \in 1..p.len : Takes(p, told, i)

CallsKnown ==
    /\ DOMAIN calls \subseteq Nat \ {0}
    /\ \A n \in DOMAIN calls : /\ calls[n].before \subseteq DOMAIN calls
                               /\ calls[n].table \in Tables
                               /\ calls[n].key \in Keys

\* A story says nothing of a call that has no step in it and that nobody waited for:
\* the call may be told something else.
LEMMA Retold ==
    ASSUME CallsKnown, NEW p, NEW told, NEW told2, NEW n \in Nat,
           Story(p, told), p.at[p.len][n] = 0,
           \A m \in DOMAIN calls : n \notin calls[m].before,
           \A m \in DOMAIN calls : m # n => told2[m] = told[m]
    PROVE  Story(p, told2)
<1>1. ASSUME NEW i \in 1..p.len PROVE Takes(p, told2, i)
  <2>1. Takes(p, told, i) /\ p.who[i] \in DOMAIN calls
    BY <1>1 DEF Story, StoryTyped
  <2>2. p.who[i] # n
    BY <2>1 DEF Takes
  <2>3. told2[p.who[i]] = told[p.who[i]]
    BY <2>1, <2>2
  <2>4. \A m \in calls[p.who[i]].before : told2[m] = told[m]
    BY <2>1 DEF CallsKnown
  <2>5. QED BY <2>1, <2>3, <2>4 DEF Takes
<1>2. QED BY <1>1 DEF Story

-----------------------------------------------------------------------------
(* Steps of the reference store.                                            *)

\* A step leads from a reference store to a reference store.
LEMMA EffectTyped ==
    ASSUME CallsKnown, NEW n \in DOMAIN calls, NEW s, NEW store \in Stores
    PROVE  Effect(s, n, store) \in Stores
<1> DEFINE t == calls[n].table
           k == calls[n].key
           T == [there : BOOLEAN, data : [Keys -> Nat]]
<1>1. t \in Tables /\ k \in Keys /\ n \in Nat
  BY DEF CallsKnown
<1>2. Present \in T /\ Absent \in T
  BY DEF Present, Absent
<1>3. store[t] \in T
  BY <1>1 DEF Stores
<1>4. \A v \in Nat : [store[t] EXCEPT !.data[k] = v] \in T
  BY <1>1, <1>3
<1>5. \A v \in T : [store EXCEPT ![t] = v] \in Stores
  BY <1>1 DEF Stores
<1>6. \A v \in Nat : [store EXCEPT ![t].data[k] = v] \in Stores
  BY <1>4, <1>5
<1> HIDE DEF T
<1>7. /\ [store EXCEPT ![t] = Present] \in Stores
      /\ [store EXCEPT ![t] = Absent] \in Stores
      /\ [store EXCEPT ![t].data[k] = n] \in Stores
      /\ [store EXCEPT ![t].data[k] = 0] \in Stores
  BY <1>1, <1>2, <1>5, <1>6
<1>8. QED BY <1>7 DEF Effect

\* A step touches nothing but the table of its call.
LEMMA EffectElsewhere ==
    ASSUME CallsKnown, NEW n \in DOMAIN calls, NEW s, NEW store \in Stores
    PROVE  \A u \in Tables : u # calls[n].table => Effect(s, n, store)[u] = store[u]
  BY DEF Effect, Stores, CallsKnown

\* What is done to a table just before it is removed leaves nothing behind.
LEMMA RemoveForgets ==
    ASSUME CallsKnown, NEW n \in DOMAIN calls, NEW w \in DOMAIN calls, NEW s,
           NEW store \in Stores, calls[w].table = calls[n].table
    PROVE  Effect("remove", w, Effect(s, n, store)) = Effect("remove", w, store)
<1> DEFINE e == Effect(s, n, store)
           t == calls[w].table
<1>1. e \in Stores /\ \A u \in Tables : u # t => e[u] = store[u]
  BY EffectTyped, EffectElsewhere
<1> HIDE DEF e
<1>2. /\ Effect("remove", w, e) = [e EXCEPT ![t] = Absent]
      /\ Effect("remove", w, store) = [store EXCEPT ![t] = Absent]
  BY DEF Effect
<1>3. [e EXCEPT ![t] = Absent] = [store EXCEPT ![t] = Absent]
  BY <1>1 DEF Stores
<1>4. QED BY <1>2, <1>3 DEF e

-----------------------------------------------------------------------------
(* A step is put into a story: at its end, or just before the step that     *)
(* removed the table from under it.                                         *)

Grown(p, r, n, s) ==
    [len |-> p.len + 1,
     who |-> [i \in 1..p.len + 1 |->
                IF i < r THEN p.who[i] ELSE IF i = r THEN n ELSE p.who[i - 1]],
     step |-> [i \in 1..p.len + 1 |->
                IF i < r THEN p.step[i] ELSE IF i = r THEN s ELSE p.step[i - 1]],
     at |-> [i \in 0..p.len + 1 |->
                IF i < r THEN p.at[i] ELSE [p.at[i - 1] EXCEPT ![n] = @ + 1]],
     store |-> [i \in 0..p.len + 1 |->
                IF i < r THEN p.store[i]
                ELSE IF i = r THEN Effect(s, n, p.store[r - 1])
                ELSE p.store[i - 1]]]

\* Nothing that the call n had to wait for is taken from r on.
Settled(p, r, n) ==
    \A m \in calls[n].before \cup {n} : \A i \in r - 1..p.len : p.at[i][m] = p.at[p.len][m]

Fits(p, told, r, n, s) ==
    LET steps == StepsWith(calls[n].action, told[n].tag)
        a == p.at[p.len]
    IN  /\ n \in DOMAIN calls
        /\ r \in 1..p.len + 1
        /\ a[n] < Len(steps)
        /\ s = steps[a[n] + 1]
        /\ \A m \in calls[n].before : a[m] = Len(StepsWith(calls[m].action, told[m].tag))
        /\ Settled(p, r, n)
        /\ Consistent(s, n, told[n], p.store[r - 1])
        /\ r <= p.len => p.step[r] = "remove" /\ calls[p.who[r]].table = calls[n].table
        /\ \A m \in DOMAIN calls : n \notin calls[m].before

\* The parts of the longer story.
LEMMA GrownParts ==
    ASSUME CallsKnown, NEW p, NEW n \in DOMAIN calls, NEW s, NEW r \in 1..p.len + 1,
           StoryTyped(p), p.at[p.len][n] < 2, NEW g, g = Grown(p, r, n, s),
           \A i \in r - 1..p.len : p.at[i][n] = p.at[p.len][n]
    PROVE  /\ g.len = p.len + 1 /\ StoryTyped(g)
           /\ \A i \in 1..p.len + 1 :
                /\ i < r => g.who[i] = p.who[i] /\ g.step[i] = p.step[i]
                /\ i = r => g.who[i] = n /\ g.step[i] = s
                /\ i > r => g.who[i] = p.who[i - 1] /\ g.step[i] = p.step[i - 1]
           /\ \A i \in 0..p.len + 1 :
                /\ i < r => g.at[i] = p.at[i] /\ g.store[i] = p.store[i]
                /\ i >= r => \A m \in Nat :
                     g.at[i][m] = IF m = n THEN p.at[i - 1][m] + 1 ELSE p.at[i - 1][m]
                /\ i = r => g.store[i] = Effect(s, n, p.store[r - 1])
                /\ i > r => g.store[i] = p.store[i - 1]
<1>1. /\ p.len \in Nat /\ n \in Nat
      /\ p.who \in [1..p.len -> DOMAIN calls]
      /\ p.at \in [0..p.len -> [Nat -> 0..2]]
      /\ p.store \in [0..p.len -> Stores]
      /\ r \in Nat /\ 1 <= r /\ r <= p.len + 1
  BY DEF StoryTyped, CallsKnown
<1>2. /\ g.len = p.len + 1
      /\ g.who = [i \in 1..p.len + 1 |->
                IF i < r THEN p.who[i] ELSE IF i = r THEN n ELSE p.who[i - 1]]
      /\ g.step = [i \in 1..p.len + 1 |->
                IF i < r THEN p.step[i] ELSE IF i = r THEN s ELSE p.step[i - 1]]
      /\ g.at = [i \in 0..p.len + 1 |->
                IF i < r THEN p.at[i] ELSE [p.at[i - 1] EXCEPT ![n] = @ + 1]]
      /\ g.store = [i \in 0..p.len + 1 |->
                IF i < r THEN p.store[i]
                ELSE IF i = r THEN Effect(s, n, p.store[r - 1])
                ELSE p.store[i - 1]]
  BY DEF Grown
<1>3. \A i \in 0..p.len + 1 : i < r => i \in 0..p.len
  BY <1>1
<1>4. \A i \in 0..p.len + 1 : i >= r => i - 1 \in r - 1..p.len /\ i - 1 \in 0..p.len
  BY <1>1
<1>5. \A i \in r - 1..p.len : p.at[i] \in [Nat -> 0..2] /\ p.at[i][n] + 1 \in 0..2
  <2>1. \A i \in r - 1..p.len : i \in 0..p.len
    BY <1>1
  <2>2. \A x \in 0..2 : x < 2 => x + 1 \in 0..2
    OBVIOUS
  <2>3. p.len \in 0..p.len
    BY <1>1
  <2>4. p.at[p.len][n] + 1 \in 0..2
    BY <1>1, <2>2, <2>3
  <2>5. QED BY <1>1, <2>1, <2>4
<1>6. \A i \in r - 1..p.len : [p.at[i] EXCEPT ![n] = @ + 1] \in [Nat -> 0..2]
  BY <1>1, <1>5
<1>7. g.at \in [0..p.len + 1 -> [Nat -> 0..2]]
  <2>1. ASSUME NEW i \in 0..p.len + 1
        PROVE  (IF i < r THEN p.at[i] ELSE [p.at[i - 1] EXCEPT ![n] = @ + 1]) \in [Nat -> 0..2]
    <3>1. CASE i < r
      BY <1>1, <1>3, <3>1
    <3>2. CASE ~(i < r)
      <4>1. i - 1 \in r - 1..p.len
        BY <1>1, <1>4, <3>2
      <4>2. QED BY <1>6, <3>2, <4>1
    <3>3. QED BY <3>1, <3>2
  <2>2. QED BY <1>2, <2>1
<1>8. Effect(s, n, p.store[r - 1]) \in Stores
  <2>1. r - 1 \in 0..p.len
    BY <1>1
  <2>2. p.store[r - 1] \in Stores
    BY <1>1, <2>1
  <2>3. QED BY <2>2, EffectTyped
<1>9. g.store \in [0..p.len + 1 -> Stores]
  BY <1>1, <1>2, <1>3, <1>4, <1>8
<1>10. g.who \in [1..p.len + 1 -> DOMAIN calls]
  <2>1. ASSUME NEW i \in 1..p.len + 1
        PROVE  (IF i < r THEN p.who[i] ELSE IF i = r THEN n ELSE p.who[i - 1]) \in DOMAIN calls
    <3>1. i < r => i \in 1..p.len
      BY <1>1
    <3>2. i > r => i - 1 \in 1..p.len
      BY <1>1
    <3>3. i < r \/ i = r \/ i > r
      BY <1>1
    <3>4. QED BY <1>1, <3>1, <3>2, <3>3
  <2>2. QED BY <1>2, <2>1
<1>11. StoryTyped(g)
  <2>1. p.len + 1 \in Nat
    BY <1>1
  <2>2. QED BY <1>2, <1>7, <1>9, <1>10, <2>1 DEF StoryTyped
<1>12. \A i \in 1..p.len + 1 :
          /\ i < r => g.who[i] = p.who[i] /\ g.step[i] = p.step[i]
          /\ i = r => g.who[i] = n /\ g.step[i] = s
          /\ i > r => g.who[i] = p.who[i - 1] /\ g.step[i] = p.step[i - 1]
  BY <1>1, <1>2
<1>13. \A i \in 0..p.len + 1 :
          /\ i < r => g.at[i] = p.at[i] /\ g.store[i] = p.store[i]
          /\ i = r => g.store[i] = Effect(s, n, p.store[r - 1])
          /\ i > r => g.store[i] = p.store[i - 1]
  BY <1>1, <1>2
<1>14. ASSUME NEW i \in 0..p.len + 1, i >= r, NEW m \in Nat
       PROVE  g.at[i][m] = IF m = n THEN p.at[i - 1][m] + 1 ELSE p.at[i - 1][m]
  <2>1. g.at[i] = [p.at[i - 1] EXCEPT ![n] = @ + 1]
    BY <1>1, <1>2, <1>14
  <2>2. p.at[i - 1] \in [Nat -> 0..2]
    BY <1>4, <1>5, <1>14
  <2>3. QED BY <1>1, <2>1, <2>2
<1>15. QED BY <1>2, <1>11, <1>12, <1>13, <1>14

\* What a step that fits a story is.
LEMMA FitsFacts ==
    ASSUME CallsKnown, NEW p, NEW told, NEW n, NEW s, NEW r,
           Story(p, told), Fits(p, told, r, n, s)
    PROVE  /\ StoryTyped(p) /\ p.len \in Nat /\ n \in DOMAIN calls /\ n \in Nat
           /\ r \in 1..p.len + 1 /\ r \in Nat /\ 1 <= r /\ r <= p.len + 1
           /\ p.len \in r - 1..p.len /\ p.len \in 0..p.len
           /\ p.at \in [0..p.len -> [Nat -> 0..2]]
           /\ p.who \in [1..p.len -> DOMAIN calls]
           /\ p.store \in [0..p.len -> Stores]
           /\ \A i \in r - 1..p.len : p.at[i][n] = p.at[p.len][n]
           /\ p.at[p.len][n] \in 0..2 /\ p.at[p.len][n] < 2
<1>1. StoryTyped(p)
  BY Zenon DEF Story
<1>2. /\ p.len \in Nat
      /\ p.at \in [0..p.len -> [Nat -> 0..2]]
      /\ p.who \in [1..p.len -> DOMAIN calls]
      /\ p.store \in [0..p.len -> Stores]
  BY <1>1, Zenon DEF StoryTyped
<1>3. n \in DOMAIN calls /\ r \in 1..p.len + 1 /\ Settled(p, r, n)
  BY Zenon DEF Fits
<1>4. n \in Nat
  BY <1>3 DEF CallsKnown
<1>5. /\ r \in Nat /\ 1 <= r /\ r <= p.len + 1
      /\ p.len \in r - 1..p.len /\ p.len \in 0..p.len
  BY <1>2, <1>3
<1>6. \A i \in r - 1..p.len : p.at[i][n] = p.at[p.len][n]
  BY <1>3 DEF Settled
<1>7. p.at[p.len][n] \in 0..2
  BY <1>2, <1>4, <1>5
<1>8. p.at[p.len][n] < Len(StepsWith(calls[n].action, told[n].tag))
  BY Zenon DEF Fits
<1>9. \A x, y \in 0..2 : x < y => x < 2
  OBVIOUS
<1>10. p.at[p.len][n] < 2
  BY <1>7, <1>8, <1>9, FewSteps
<1>11. QED BY <1>1, <1>2, <1>3, <1>4, <1>5, <1>6, <1>7, <1>10

\* A step that fits at place r of a story makes it a longer story.
LEMMA StoryGrows ==
    ASSUME CallsKnown, NEW p, NEW told, NEW n, NEW s, NEW r,
           Story(p, told), Fits(p, told, r, n, s), NEW g, g = Grown(p, r, n, s)
    PROVE  Story(g, told)
<1> DEFINE steps == StepsWith(calls[n].action, told[n].tag)
<1>1. /\ StoryTyped(p) /\ p.len \in Nat /\ n \in DOMAIN calls /\ n \in Nat
      /\ r \in 1..p.len + 1 /\ p.len \in r - 1..p.len
      /\ p.at \in [0..p.len -> [Nat -> 0..2]]
      /\ p.who \in [1..p.len -> DOMAIN calls]
      /\ p.store \in [0..p.len -> Stores]
  BY FitsFacts
<1>2. /\ \A i \in r - 1..p.len : p.at[i][n] = p.at[p.len][n]
      /\ p.at[p.len][n] \in 0..2
  BY FitsFacts
<1>3. /\ g.len = p.len + 1 /\ StoryTyped(g)
      /\ \A i \in 1..p.len + 1 :
           /\ i < r => g.who[i] = p.who[i] /\ g.step[i] = p.step[i]
           /\ i = r => g.who[i] = n /\ g.step[i] = s
           /\ i > r => g.who[i] = p.who[i - 1] /\ g.step[i] = p.step[i - 1]
      /\ \A i \in 0..p.len + 1 :
           /\ i < r => g.at[i] = p.at[i] /\ g.store[i] = p.store[i]
           /\ i >= r => \A m \in Nat :
                g.at[i][m] = IF m = n THEN p.at[i - 1][m] + 1 ELSE p.at[i - 1][m]
           /\ i = r => g.store[i] = Effect(s, n, p.store[r - 1])
           /\ i > r => g.store[i] = p.store[i - 1]
  <2>1. p.at[p.len][n] < 2
    BY FitsFacts
  <2>2. n \in DOMAIN calls /\ r \in 1..p.len + 1 /\ StoryTyped(p)
        /\ \A i \in r - 1..p.len : p.at[i][n] = p.at[p.len][n]
    BY <1>1, <1>2
  <2>3. QED BY <2>1, <2>2, GrownParts
<1>4. \A m \in Nat : g.at[p.len + 1][m] = IF m = n THEN p.at[p.len][m] + 1 ELSE p.at[p.len][m]
  <2>1. p.len + 1 \in 0..p.len + 1 /\ p.len + 1 >= r /\ (p.len + 1) - 1 = p.len
    BY <1>1
  <2>2. QED BY <1>3, <2>1
<1>5. \A m \in Nat : p.at[p.len][m] # 0 => g.at[g.len][m] # 0
  <2>1. \A m \in Nat : p.at[p.len][m] \in 0..2
    BY <1>1
  <2>2. QED BY <1>3, <1>4, <2>1
<1>6. \A m \in DOMAIN calls : m \in Nat /\ calls[m].before \subseteq Nat
  BY DEF CallsKnown
<1>7. ASSUME NEW i \in 1..p.len + 1, i < r PROVE Takes(g, told, i)
  <2>1. i \in 1..p.len /\ i - 1 \in 0..p.len + 1 /\ i - 1 < r
    BY <1>1, <1>7
  <2>2. Takes(p, told, i) /\ p.who[i] \in Nat
    BY <1>1, <1>6, <2>1 DEF Story
  <2>3. /\ g.who[i] = p.who[i] /\ g.step[i] = p.step[i]
        /\ g.at[i - 1] = p.at[i - 1] /\ g.store[i - 1] = p.store[i - 1]
        /\ g.at[i] = p.at[i] /\ g.store[i] = p.store[i]
    BY <1>3, <1>7, <2>1
  <2>4. g.at[g.len][p.who[i]] # 0
    BY <1>5, <2>2 DEF Takes
  <2>5. QED BY <2>2, <2>3, <2>4 DEF Takes
<1>8. Takes(g, told, r)
  <2>1. r - 1 \in 0..p.len + 1 /\ r - 1 < r /\ r \in 0..p.len + 1 /\ r - 1 \in r - 1..p.len
    BY <1>1
  <2>2. g.at[r - 1] = p.at[r - 1] /\ g.store[r - 1] = p.store[r - 1]
    BY <1>3, <2>1
  <2>3. g.who[r] = n /\ g.step[r] = s /\ g.store[r] = Effect(s, n, p.store[r - 1])
    BY <1>1, <1>3, <2>1
  <2>4. \A m \in calls[n].before \cup {n} : p.at[r - 1][m] = p.at[p.len][m]
    BY <2>1 DEF Fits, Settled
  <2>5. /\ p.at[r - 1][n] < Len(steps) /\ s = steps[p.at[r - 1][n] + 1]
        /\ \A m \in calls[n].before :
             p.at[r - 1][m] = Len(StepsWith(calls[m].action, told[m].tag))
    BY <2>4 DEF Fits
  <2>6. \A m \in Nat : g.at[r][m] = IF m = n THEN p.at[r - 1][m] + 1 ELSE p.at[r - 1][m]
    BY <1>3, <2>1
  <2>7. g.at[g.len][n] # 0
    <3>1. \A x \in 0..2 : x + 1 # 0
      OBVIOUS
    <3>2. g.len = p.len + 1
      BY <1>3
    <3>3. g.at[p.len + 1][n] = p.at[p.len][n] + 1
      BY <1>1, <1>4
    <3>4. QED BY <1>2, <3>1, <3>2, <3>3
  <2>8. Consistent(s, n, told[n], p.store[r - 1])
    BY DEF Fits
  <2>9. QED BY <2>2, <2>3, <2>5, <2>6, <2>7, <2>8 DEF Takes
<1>9. ASSUME NEW i \in 1..p.len + 1, i > r PROVE Takes(g, told, i)
  <2> DEFINE j == i - 1
             w == p.who[j]
  <2>1. /\ j \in 1..p.len /\ j \in 0..p.len + 1 /\ j - 1 \in 0..p.len /\ j >= r
        /\ i \in 0..p.len + 1 /\ i >= r /\ j \in r - 1..p.len /\ j - 1 \in r - 1..p.len
    BY <1>1, <1>9
  <2>2. Takes(p, told, j) /\ w \in DOMAIN calls /\ w \in Nat
    BY <1>1, <1>6, <2>1 DEF Story
  <2>3. g.who[i] = w /\ g.step[i] = p.step[j] /\ g.store[i] = p.store[j]
    BY <1>3, <1>9, <2>1
  <2>4. \A m \in Nat : /\ g.at[i][m] = IF m = n THEN p.at[j][m] + 1 ELSE p.at[j][m]
                       /\ g.at[j][m] = IF m = n THEN p.at[j - 1][m] + 1 ELSE p.at[j - 1][m]
    BY <1>3, <2>1
  <2>5. w # n
    <3>1. p.at[j][n] = p.at[j - 1][n] /\ p.at[j - 1][n] \in 0..2
      BY <1>1, <1>2, <2>1
    <3>2. \A m \in Nat : p.at[j][m] = IF m = w THEN p.at[j - 1][m] + 1 ELSE p.at[j - 1][m]
      BY <2>2 DEF Takes
    <3>3. \A x \in 0..2 : x # x + 1
      OBVIOUS
    <3>4. ASSUME w = n PROVE FALSE
      <4>1. p.at[j][n] = p.at[j - 1][n] + 1
        BY <1>1, <3>2, <3>4
      <4>2. QED BY <3>1, <3>3, <4>1, Zenon
    <3>5. QED BY <3>4
  <2>6. \A m \in calls[w].before : m # n /\ m \in Nat
    BY <1>6, <2>2 DEF Fits
  <2>7. \A m \in Nat : g.at[i][m] = IF m = w THEN g.at[j][m] + 1 ELSE g.at[j][m]
    <3>1. \A m \in Nat : p.at[j][m] = IF m = w THEN p.at[j - 1][m] + 1 ELSE p.at[j - 1][m]
      BY <2>2 DEF Takes
    <3>2. \A m \in Nat : m = w \/ m = n => p.at[j - 1][m] \in 0..2
      BY <1>1, <2>1
    <3>3. QED BY <2>4, <2>5, <3>1, <3>2
  <2>8. g.at[g.len][w] # 0
    BY <1>5, <2>2 DEF Takes
  <2>9. g.at[j][w] = p.at[j - 1][w] /\ \A m \in calls[w].before : g.at[j][m] = p.at[j - 1][m]
    BY <2>2, <2>4, <2>5, <2>6
  <2>10. /\ Consistent(p.step[j], w, told[w], g.store[j])
         /\ p.store[j] = Effect(p.step[j], w, g.store[j])
    <3>1. CASE j = r
      <4>1. p.step[r] = "remove" /\ calls[w].table = calls[n].table
        <5>1. r <= p.len
          BY <2>1, <3>1
        <5>2. r <= p.len => p.step[r] = "remove" /\ calls[p.who[r]].table = calls[n].table
          BY Zenon DEF Fits
        <5>3. QED BY <3>1, <5>1, <5>2, Zenon
      <4>2. g.store[j] = Effect(s, n, p.store[r - 1]) /\ p.store[r - 1] \in Stores
        BY <1>1, <1>3, <2>1, <3>1
      <4>3. Effect("remove", w, g.store[j]) = Effect("remove", w, p.store[j - 1])
        BY <1>1, <2>2, <3>1, <4>1, <4>2, RemoveForgets
      <4>4. Consistent("remove", w, told[w], g.store[j])
        BY DEF Consistent
      <4>5. QED BY <2>2, <3>1, <4>1, <4>3, <4>4 DEF Takes
    <3>2. CASE j > r
      <4>1. g.store[j] = p.store[j - 1]
        BY <1>3, <2>1, <3>2
      <4>2. QED BY <2>2, <4>1 DEF Takes
    <3>3. QED BY <1>1, <2>1, <3>1, <3>2
  <2>11. i - 1 = j /\ w = p.who[j]
    OBVIOUS
  <2> HIDE DEF j, w
  <2>12. /\ p.at[j - 1][w] < Len(StepsWith(calls[w].action, told[w].tag))
         /\ p.step[j] = StepsWith(calls[w].action, told[w].tag)[p.at[j - 1][w] + 1]
         /\ \A m \in calls[w].before :
              p.at[j - 1][m] = Len(StepsWith(calls[m].action, told[m].tag))
    BY <2>2, <2>11, Zenon DEF Takes
  <2>13. /\ g.at[j][w] < Len(StepsWith(calls[w].action, told[w].tag))
         /\ g.step[i] = StepsWith(calls[w].action, told[w].tag)[g.at[j][w] + 1]
         /\ \A m \in calls[w].before :
              g.at[j][m] = Len(StepsWith(calls[m].action, told[m].tag))
    BY <2>3, <2>9, <2>12, Zenon
  <2>14. /\ Consistent(g.step[i], w, told[w], g.store[j])
         /\ g.store[i] = Effect(g.step[i], w, g.store[j])
    BY <2>3, <2>10, Zenon
  <2>15. QED BY <2>3, <2>7, <2>8, <2>11, <2>13, <2>14, Zenon DEF Takes
<1>10. g.store[0] = Start.store /\ \A m \in Nat : g.at[0][m] = 0
  <2>1. 0 < r /\ 0 \in 0..p.len + 1
    BY <1>1
  <2>2. g.at[0] = p.at[0] /\ g.store[0] = p.store[0]
    BY <1>3, <2>1
  <2>3. QED BY <2>2 DEF Story
<1>11. \A i \in 1..p.len + 1 : Takes(g, told, i)
  BY <1>1, <1>7, <1>8, <1>9
<1>12. QED BY <1>3, <1>10, <1>11 DEF Story

\* Where a step of the story is after another was put in at r.
Shifted(x, r) == IF x < r THEN x ELSE x + 1

\* What the longer story has in common with the one it was made from.
LEMMA GrownFacts ==
    ASSUME CallsKnown, NEW p, NEW told, NEW n, NEW s, NEW r,
           Story(p, told), Fits(p, told, r, n, s), NEW g, g = Grown(p, r, n, s)
    PROVE  /\ p.len \in Nat /\ g.len = p.len + 1 /\ r \in 1..p.len + 1
           /\ \A m \in Nat : /\ m # n => g.at[p.len + 1][m] = p.at[p.len][m]
                             /\ m = n => g.at[p.len + 1][m] = p.at[p.len][m] + 1
           /\ r = p.len + 1 =>
                /\ g.store[p.len + 1] = Effect(s, n, p.store[p.len])
                /\ g.step[p.len + 1] = s /\ g.who[p.len + 1] = n
                /\ g.store[p.len] = p.store[p.len]
                /\ \A m \in Nat : m # n => g.at[p.len][m] = g.at[p.len + 1][m]
           /\ r # p.len + 1 => g.store[p.len + 1] = p.store[p.len]
           /\ \A x \in 1..p.len :
                /\ Shifted(x, r) \in 1..p.len + 1
                /\ g.step[Shifted(x, r)] = p.step[x]
                /\ g.who[Shifted(x, r)] = p.who[x]
                /\ x # r => g.store[Shifted(x, r) - 1] = p.store[x - 1]
                /\ x = r => g.store[Shifted(x, r) - 1] = Effect(s, n, p.store[x - 1])
                /\ \A m \in Nat :
                     m # n /\ (\A i \in x - 1..p.len : p.at[i][m] = p.at[p.len][m])
                       => \A i \in Shifted(x, r) - 1..p.len + 1 :
                            g.at[i][m] = g.at[p.len + 1][m]
<1>1. /\ StoryTyped(p) /\ p.len \in Nat /\ n \in DOMAIN calls
      /\ r \in 1..p.len + 1 /\ r \in Nat /\ 1 <= r /\ r <= p.len + 1
      /\ p.len \in r - 1..p.len /\ p.len \in 0..p.len
      /\ p.at \in [0..p.len -> [Nat -> 0..2]] /\ n \in Nat
  BY FitsFacts
<1>2. /\ \A i \in r - 1..p.len : p.at[i][n] = p.at[p.len][n]
      /\ p.at[p.len][n] \in 0..2
  BY FitsFacts
<1>3. p.at[p.len][n] < 2
  BY FitsFacts
<1>4. /\ g.len = p.len + 1
      /\ \A i \in 1..p.len + 1 :
           /\ i < r => g.who[i] = p.who[i] /\ g.step[i] = p.step[i]
           /\ i = r => g.who[i] = n /\ g.step[i] = s
           /\ i > r => g.who[i] = p.who[i - 1] /\ g.step[i] = p.step[i - 1]
      /\ \A i \in 0..p.len + 1 :
           /\ i < r => g.at[i] = p.at[i] /\ g.store[i] = p.store[i]
           /\ i >= r => \A m \in Nat :
                g.at[i][m] = IF m = n THEN p.at[i - 1][m] + 1 ELSE p.at[i - 1][m]
           /\ i = r => g.store[i] = Effect(s, n, p.store[r - 1])
           /\ i > r => g.store[i] = p.store[i - 1]
  <2>1. n \in DOMAIN calls /\ r \in 1..p.len + 1 /\ StoryTyped(p)
        /\ \A i \in r - 1..p.len : p.at[i][n] = p.at[p.len][n]
    BY <1>1, <1>2
  <2>2. QED BY <1>3, <2>1, GrownParts
<1>5. p.len + 1 \in 0..p.len + 1 /\ p.len + 1 \in 1..p.len + 1 /\ p.len + 1 >= r
      /\ (p.len + 1) - 1 = p.len /\ p.len \in 0..p.len + 1
  BY <1>1
<1>6. \A m \in Nat : g.at[p.len + 1][m] = IF m = n THEN p.at[p.len][m] + 1 ELSE p.at[p.len][m]
  BY <1>4, <1>5
<1>7. ASSUME r = p.len + 1
      PROVE  /\ g.store[p.len + 1] = Effect(s, n, p.store[p.len])
             /\ g.step[p.len + 1] = s /\ g.who[p.len + 1] = n
             /\ g.store[p.len] = p.store[p.len]
             /\ \A m \in Nat : m # n => g.at[p.len][m] = g.at[p.len + 1][m]
  <2>1. p.len < r
    BY <1>1, <1>7
  <2>2. g.at[p.len] = p.at[p.len] /\ g.store[p.len] = p.store[p.len]
    BY <1>4, <1>5, <2>1
  <2>3. QED BY <1>4, <1>5, <1>6, <1>7, <2>2
<1>8. r # p.len + 1 => g.store[p.len + 1] = p.store[p.len]
  <2>1. r # p.len + 1 => p.len + 1 > r
    BY <1>1
  <2>2. QED BY <1>4, <1>5, <2>1
<1>9. ASSUME NEW x \in 1..p.len
      PROVE  /\ Shifted(x, r) \in 1..p.len + 1
             /\ g.step[Shifted(x, r)] = p.step[x]
             /\ g.who[Shifted(x, r)] = p.who[x]
             /\ x # r => g.store[Shifted(x, r) - 1] = p.store[x - 1]
             /\ x = r => g.store[Shifted(x, r) - 1] = Effect(s, n, p.store[x - 1])
             /\ \A m \in Nat :
                  m # n /\ (\A i \in x - 1..p.len : p.at[i][m] = p.at[p.len][m])
                    => \A i \in Shifted(x, r) - 1..p.len + 1 :
                         g.at[i][m] = g.at[p.len + 1][m]
  <2>1. x \in Nat /\ 1 <= x /\ x <= p.len
    BY <1>1
  <2>2. CASE x < r
    <3>1. Shifted(x, r) = x /\ x \in 1..p.len + 1 /\ x # r
      BY <1>1, <2>1, <2>2 DEF Shifted
    <3>2. x - 1 \in 0..p.len + 1 /\ x - 1 < r
      BY <1>1, <2>1, <2>2
    <3>3. g.step[x] = p.step[x] /\ g.who[x] = p.who[x] /\ g.store[x - 1] = p.store[x - 1]
      BY <1>4, <2>2, <3>1, <3>2
    <3>4. ASSUME NEW m \in Nat, m # n,
                 \A i \in x - 1..p.len : p.at[i][m] = p.at[p.len][m],
                 NEW i \in x - 1..p.len + 1
          PROVE  g.at[i][m] = g.at[p.len + 1][m]
      <4>1. i \in 0..p.len + 1 /\ i \in Nat
        BY <1>1, <2>1
      <4>2. CASE i < r
        <5>1. i \in x - 1..p.len
          BY <1>1, <2>1, <4>1, <4>2
        <5>2. QED BY <1>4, <1>6, <3>4, <4>1, <4>2, <5>1
      <4>3. CASE i >= r
        <5>1. i - 1 \in x - 1..p.len
          BY <1>1, <2>1, <2>2, <4>1, <4>3
        <5>2. QED BY <1>4, <1>6, <3>4, <4>1, <4>3, <5>1
      <4>4. QED BY <1>1, <4>1, <4>2, <4>3
    <3>5. QED BY <3>1, <3>3, <3>4
  <2>3. CASE x >= r
    <3>1. /\ Shifted(x, r) = x + 1 /\ x + 1 \in 1..p.len + 1 /\ x + 1 > r
          /\ (x + 1) - 1 = x /\ x \in 0..p.len + 1 /\ (x # r => x > r)
      BY <1>1, <2>1, <2>3 DEF Shifted
    <3>3. /\ g.step[x + 1] = p.step[x] /\ g.who[x + 1] = p.who[x]
          /\ x # r => g.store[x] = p.store[x - 1]
          /\ x = r => g.store[x] = Effect(s, n, p.store[x - 1])
      BY <1>4, <3>1
    <3>4. ASSUME NEW m \in Nat, m # n,
                 \A i \in x - 1..p.len : p.at[i][m] = p.at[p.len][m],
                 NEW i \in x..p.len + 1
          PROVE  g.at[i][m] = g.at[p.len + 1][m]
      <4>1. i \in 0..p.len + 1 /\ i >= r /\ i - 1 \in x - 1..p.len
        BY <1>1, <2>1, <2>3
      <4>2. QED BY <1>4, <1>6, <3>4, <4>1
    <3>5. QED BY <3>1, <3>3, <3>4
  <2>4. QED BY <1>1, <2>1, <2>2, <2>3
<1>10. QED BY <1>1, <1>4, <1>6, <1>7, <1>8, <1>9

-----------------------------------------------------------------------------
(* What a story has to do with the state.                                   *)

\* Every call that is not over has a handler, and a record without a value is
\* no record.
ServedInv == \A n \in DOMAIN calls \ Finished : \E c \in Clients : Active(c) /\ call[c] = n
ValuesInv == \A h \in DOMAIN collections, k \in Keys :
                 collections[h][k].value = 0 => collections[h][k] = NoRecord

HandlersInv == /\ ServiceTypeOK /\ HandlerInv /\ BeforeInv
               /\ PlacesInv /\ ServedInv /\ ValuesInv

\* Calls are numbered from 1, and wait only for calls there are.
LEMMA AreKnown == ServiceTypeOK /\ BeforeInv => CallsKnown
<1> SUFFICES ASSUME ServiceTypeOK, BeforeInv PROVE CallsKnown
  OBVIOUS
<1>1. calls \in Seq(CallType)
  BY DEF ServiceTypeOK
<1>2. DOMAIN calls = 1..Len(calls) /\ Len(calls) \in Nat
  BY <1>1, LenProperties
<1>3. \A n \in DOMAIN calls : calls[n] \in CallType
  BY <1>1, <1>2, ElementOfSeq
<1>4. \A n \in DOMAIN calls : calls[n].before \subseteq DOMAIN calls
  BY DEF BeforeInv, Finished
<1>5. \A n \in DOMAIN calls : calls[n].table \in Tables /\ calls[n].key \in Keys
  BY <1>3 DEF CallType
<1>6. QED BY <1>2, <1>4, <1>5 DEF CallsKnown

\* What the calls ask for never changes, and neither do the stories about them.
LEMMA StoryStays ==
    ASSUME CallsKnown, NEW p, NEW told, Story(p, told),
           \A n \in DOMAIN calls : /\ n \in DOMAIN calls'
                                   /\ calls'[n].action = calls[n].action
                                   /\ calls'[n].table = calls[n].table
                                   /\ calls'[n].key = calls[n].key
                                   /\ calls'[n].before = calls[n].before
    PROVE  Story(p, told)'
<1>1. StoryTyped(p)'
  BY DEF Story, StoryTyped
<1>2. ASSUME NEW n \in DOMAIN calls, NEW s, NEW store, NEW r
      PROVE  /\ Effect(s, n, store)' = Effect(s, n, store)
             /\ Consistent(s, n, r, store)' <=> Consistent(s, n, r, store)
  <2>1. Effect(s, n, store)' = Effect(s, n, store)
    BY DEF Effect
  <2>2. Consistent(s, n, r, store)' <=> Consistent(s, n, r, store)
    BY DEF Consistent
  <2>3. QED BY <2>1, <2>2
<1>3. ASSUME NEW i \in 1..p.len PROVE Takes(p, told, i)'
  <2>1. Takes(p, told, i) /\ p.who[i] \in DOMAIN calls
    BY DEF Story, StoryTyped
  <2>2. \A m \in calls[p.who[i]].before : m \in DOMAIN calls
    BY <2>1 DEF CallsKnown
  <2>3. /\ Effect(p.step[i], p.who[i], p.store[i - 1])'
             = Effect(p.step[i], p.who[i], p.store[i - 1])
        /\ Consistent(p.step[i], p.who[i], told[p.who[i]], p.store[i - 1])'
             <=> Consistent(p.step[i], p.who[i], told[p.who[i]], p.store[i - 1])
    BY <1>2, <2>1
  <2>4. QED BY <2>1, <2>2, <2>3 DEF Takes
<1>4. Start.store' = Start.store
  BY DEF Start, FirstStore
<1>5. QED BY <1>1, <1>3, <1>4 DEF Story

\* What a handler has promised its client, and how many steps its call has taken.
Promise(c) == Result("ok", IF pc[c] = "remove" THEN held[c] ELSE 0)

Progress(where, action) ==
    CASE where = "table" -> 0
      [] where = "key" -> IF action = "put" THEN 1 ELSE 0
      [] where \in {"publish", "answer"} -> Len(Steps(action))
      [] OTHER -> 1

Progressed(p, told) ==
    /\ \A n \in Nat : n \notin DOMAIN calls => p.at[p.len][n] = 0
    /\ \A n \in Finished : /\ told[n] = calls[n].result
                           /\ p.at[p.len][n] = Len(StepsOf(n))
    /\ \A c \in Clients : Active(c) =>
         /\ told[call[c]] = Promise(c)
         /\ p.at[p.len][call[c]] = Progress(pc[c], Serving(c).action)

\* The reference store of what is in memory.
Shown(h) == [there |-> TRUE, data |-> [k \in Keys |-> collections[h][k].value]]
Memory == [t \in Tables |-> IF tables[t] = 0 THEN Absent ELSE Shown(tables[t])]

\* A collection that left the store is what its table was just before the step
\* gone[h] that removed it; a handler may still hold it.
Attached(h) == \E t \in Tables : tables[t] = h

Left(p, home, gone) ==
    /\ \A t \in Tables : tables[t] # 0 => home[tables[t]] = t
    /\ \A h \in DOMAIN collections : ~Attached(h) =>
         /\ gone[h] \in 1..p.len
         /\ p.step[gone[h]] = "remove"
         /\ calls[p.who[gone[h]]].table = home[h]
         /\ p.store[gone[h] - 1][home[h]] = Shown(h)
    /\ \A g, h \in DOMAIN collections :
         ~Attached(g) /\ ~Attached(h) /\ gone[g] = gone[h] => g = h

Holders(p, home, gone) ==
    \A c \in Clients : pc[c] = "key" =>
        /\ home[held[c]] = Serving(c).table
        /\ ~Attached(held[c]) => Settled(p, gone[held[c]], call[c])

Explained(p, told, home, gone) ==
    /\ Story(p, told) /\ Progressed(p, told)
    /\ p.store[p.len] = Memory
    /\ Left(p, home, gone) /\ Holders(p, home, gone)

ExplainedInv == \E p, told, home, gone : Explained(p, told, home, gone)

-----------------------------------------------------------------------------
(* Putting in a step of the call that a handler serves.                     *)

\* A handler's call: nobody waits for it, and what it waits for is over.
LEMMA OwnCall ==
    ASSUME HandlersInv, NEW c \in Clients, Active(c)
    PROVE  /\ call[c] \in DOMAIN calls /\ call[c] \in Nat
           /\ call[c] \notin Finished
           /\ \A m \in DOMAIN calls : call[c] \notin calls[m].before
           /\ calls[call[c]].before \subseteq Finished
           /\ \A d \in Clients : d # c /\ Active(d) => call[d] # call[c]
           /\ CallsKnown
<1>1. CallsKnown
  BY AreKnown DEF HandlersInv
<1>2. call[c] \in DOMAIN calls /\ call[c] \notin Finished
      /\ \A d \in Clients : d # c /\ Active(d) => call[d] # call[c]
  BY DEF HandlersInv, HandlerInv, Serving, Finished
<1>3. \A m \in DOMAIN calls : calls[m].before \subseteq Finished
  BY DEF HandlersInv, BeforeInv
<1>4. QED BY <1>1, <1>2, <1>3 DEF CallsKnown

\* What it may be told now: what it was promised, or anything if no step of it
\* has been put in.
MayTell(p, told, n, told2) ==
    /\ told2[n] = told[n] \/ p.at[p.len][n] = 0
    /\ \A m \in DOMAIN calls : m # n => told2[m] = told[m]

\* What a handler learns of its call's result leaves the story a story.
LEMMA ToldStory ==
    ASSUME HandlersInv, NEW c \in Clients, Active(c), NEW p, NEW told, NEW told2,
           Story(p, told), MayTell(p, told, call[c], told2)
    PROVE  Story(p, told2)
<1>1. /\ call[c] \in Nat /\ CallsKnown
      /\ \A m \in DOMAIN calls : call[c] \notin calls[m].before
  BY OwnCall
<1>2. CASE p.at[p.len][call[c]] = 0
  BY <1>1, <1>2, Retold DEF MayTell
<1>3. CASE told2[call[c]] = told[call[c]]
  <2>1. \A m \in DOMAIN calls : told2[m] = told[m]
    BY <1>3 DEF MayTell
  <2>2. ASSUME NEW i \in 1..p.len PROVE Takes(p, told2, i)
    <3>1. Takes(p, told, i) /\ p.who[i] \in DOMAIN calls
      BY DEF Story, StoryTyped
    <3>2. \A m \in calls[p.who[i]].before : m \in DOMAIN calls
      BY <1>1, <3>1 DEF CallsKnown
    <3>3. QED BY <2>1, <3>1, <3>2 DEF Takes
  <2>3. QED BY <2>2 DEF Story
<1>4. QED BY <1>2, <1>3 DEF MayTell

\* The next step of a handler's call is s.
NextIs(p, told, n, s) ==
    LET steps == StepsWith(calls[n].action, told[n].tag)
    IN  p.at[p.len][n] < Len(steps) /\ s = steps[p.at[p.len][n] + 1]

\* All steps of the calls that n had to wait for are in the story.
Waited(p, told, n) ==
    \A m \in calls[n].before : p.at[p.len][m] = Len(StepsWith(calls[m].action, told[m].tag))

\* What a handler's call waits for has taken all its steps.
LEMMA WaitedFor ==
    ASSUME HandlersInv, NEW c \in Clients, Active(c), NEW p, NEW told, NEW told2,
           Progressed(p, told), MayTell(p, told, call[c], told2)
    PROVE  Waited(p, told2, call[c])
<1>1. /\ calls[call[c]].before \subseteq Finished /\ call[c] \notin Finished
      /\ Finished \subseteq DOMAIN calls
  BY OwnCall DEF Finished
<1>2. QED BY <1>1 DEF MayTell, Progressed, StepsOf, Waited

\* A handler's next step fits at the end of the story, if it agrees with the memory.
LEMMA FitsAtEnd ==
    ASSUME HandlersInv, NEW c \in Clients, Active(c), NEW p, NEW told, NEW told2, NEW s,
           Story(p, told), Progressed(p, told), MayTell(p, told, call[c], told2),
           NextIs(p, told2, call[c], s),
           Consistent(s, call[c], told2[call[c]], p.store[p.len])
    PROVE  Fits(p, told2, p.len + 1, call[c], s)
<1>1. p.len \in Nat /\ p.len + 1 \in 1..p.len + 1 /\ ~(p.len + 1 <= p.len)
      /\ (p.len + 1) - 1 = p.len /\ \A i \in (p.len + 1) - 1..p.len : i = p.len
  <2>1. p.len \in Nat
    BY DEF Story, StoryTyped
  <2>2. QED BY <2>1
<1>2. Settled(p, p.len + 1, call[c])
  BY <1>1 DEF Settled
<1>3. /\ call[c] \in DOMAIN calls
      /\ \A m \in DOMAIN calls : call[c] \notin calls[m].before
  BY OwnCall
<1>4. Waited(p, told2, call[c])
  BY WaitedFor, Zenon
<1>5. LET steps == StepsWith(calls[call[c]].action, told2[call[c]].tag)
      IN  p.at[p.len][call[c]] < Len(steps) /\ s = steps[p.at[p.len][call[c]] + 1]
  BY Zenon DEF NextIs
<1>6. Consistent(s, call[c], told2[call[c]], p.store[(p.len + 1) - 1])
  BY <1>1, Zenon
<1>7. p.len + 1 <= p.len => FALSE
  BY <1>1, Zenon
<1>8. QED BY <1>1, <1>2, <1>3, <1>4, <1>5, <1>6, <1>7, Zenon DEF Fits, Waited

\* A handler whose collection has left the store may take its step just before the one
\* that removed the table.
LEMMA FitsBefore ==
    ASSUME HandlersInv, NEW c \in Clients, pc[c] = "key",
           NEW p, NEW told, NEW home, NEW gone, NEW told2, NEW s,
           Explained(p, told, home, gone), MayTell(p, told, call[c], told2),
           ~Attached(held[c]), NextIs(p, told2, call[c], s),
           Consistent(s, call[c], told2[call[c]], p.store[gone[held[c]] - 1])
    PROVE  Fits(p, told2, gone[held[c]], call[c], s)
<1> DEFINE r == gone[held[c]]
<1>0. Active(c)
  BY DEF Active
<1>1. Story(p, told) /\ Progressed(p, told) /\ p.len \in Nat
  BY DEF Explained, Story, StoryTyped
<1>2. held[c] \in DOMAIN collections
  BY DEF HandlersInv, ServiceTypeOK
<1>3. r \in 1..p.len /\ p.step[r] = "remove"
      /\ calls[p.who[r]].table = home[held[c]]
  BY <1>2 DEF Explained, Left
<1>4. Settled(p, r, call[c]) /\ home[held[c]] = calls[call[c]].table
  BY DEF Explained, Holders, Serving
<1>5. r \in 1..p.len + 1
  BY <1>1, <1>3
<1>6. /\ call[c] \in DOMAIN calls
      /\ \A m \in DOMAIN calls : call[c] \notin calls[m].before
  BY <1>0, OwnCall
<1>7. Waited(p, told2, call[c])
  BY <1>0, <1>1, WaitedFor, Zenon
<1>8. LET steps == StepsWith(calls[call[c]].action, told2[call[c]].tag)
      IN  p.at[p.len][call[c]] < Len(steps) /\ s = steps[p.at[p.len][call[c]] + 1]
  BY Zenon DEF NextIs
<1>9. p.step[r] = "remove" /\ calls[p.who[r]].table = calls[call[c]].table
  BY <1>3, <1>4, Zenon
<1> HIDE DEF r
<1>10. Consistent(s, call[c], told2[call[c]], p.store[r - 1])
  BY Zenon DEF r
<1>11. Fits(p, told2, r, call[c], s)
  BY <1>4, <1>5, <1>6, <1>7, <1>8, <1>9, <1>10, Zenon DEF Fits, Waited
<1>12. QED BY <1>11, Zenon DEF r

-----------------------------------------------------------------------------
(* What a handler's step does to all of this.                               *)

\* A handler's step changes what no other handler holds.
LEMMA HeldElsewhere ==
    ASSUME ServiceTypeOK, NEW c \in Clients, Handle(c)
    PROVE  \A d \in Clients : d # c => held'[d] = held[d]
<1>1. held \in [Clients -> Nat]
  BY DEF ServiceTypeOK
<1>2. QED BY <1>1 DEF Handle, FindTable, PutCreatesTable, ReadKey, WriteKey, Publish, Answer,
     AddTableChecks, AddTableCreates, RemoveTableChecks, RemoveTableRemoves, Return, GoOn

\* The state of the call that c serves after the step, of which `done` steps
\* are in the story.
Outcome(c, told2, done) ==
    \/ /\ pc'[c] # "idle" /\ UNCHANGED calls
       /\ told2[call[c]] = Result("ok", IF pc'[c] = "remove" THEN held'[c] ELSE 0)
       /\ done = Progress(pc'[c], Serving(c).action)
    \/ /\ pc'[c] = "idle"
       /\ told2[call[c]] = calls'[call[c]].result
       /\ done = Len(StepsWith(Serving(c).action, told2[call[c]].tag))

\* After a handler's step the story has the steps that each call should have taken.
LEMMA HandleProgress ==
    ASSUME HandlersInv, NEW c \in Clients, Handle(c),
           NEW p, NEW g, NEW told, NEW told2, NEW done,
           Progressed(p, told), MayTell(p, told, call[c], told2),
           \A m \in Nat : m # call[c] => g.at[g.len][m] = p.at[p.len][m],
           g.at[g.len][call[c]] = done, Outcome(c, told2, done)
    PROVE  Progressed(g, told2)'
<1> DEFINE n == call[c]
<1>1. /\ Active(c) /\ call' = call /\ DOMAIN calls' = DOMAIN calls
      /\ \A m \in DOMAIN calls : /\ calls'[m].action = calls[m].action
                                 /\ m # n => calls'[m] = calls[m]
      /\ \A d \in Clients : d # c => pc'[d] = pc[d]
  BY HandleFields DEF HandlersInv
<1>2. /\ n \in DOMAIN calls /\ n \notin Finished
      /\ \A d \in Clients : d # c /\ Active(d) => call[d] # n
      /\ \A d \in Clients : Active(d) => call[d] \in DOMAIN calls
  BY <1>1, OwnCall
<1>3. DOMAIN calls \subseteq Nat
  BY <1>1, OwnCall DEF CallsKnown
<1>4. ASSUME NEW m \in Nat, m \notin DOMAIN calls' PROVE g.at[g.len][m] = 0
  BY <1>1, <1>2, <1>4 DEF Progressed
<1>5. ASSUME NEW m \in DOMAIN calls', calls'[m].result # Unfinished
      PROVE  /\ told2[m] = calls'[m].result
             /\ g.at[g.len][m] = Len(StepsWith(calls'[m].action, calls'[m].result.tag))
  <2>1. CASE m # n
    <3>1. calls'[m] = calls[m] /\ m \in Finished /\ m \in Nat /\ m \in DOMAIN calls
      BY <1>1, <1>3, <1>5, <2>1 DEF Finished
    <3>2. /\ told[m] = calls[m].result /\ told2[m] = told[m]
          /\ p.at[p.len][m] = Len(StepsWith(calls[m].action, calls[m].result.tag))
      BY <2>1, <3>1 DEF Progressed, StepsOf, MayTell
    <3>3. QED BY <2>1, <3>1, <3>2
  <2>2. CASE m = n
    <3>1. ~(UNCHANGED calls)
      BY <1>2, <1>5, <2>2 DEF Finished
    <3>2. QED BY <1>1, <1>2, <2>2, <3>1 DEF Outcome, Serving
  <2>3. QED BY <2>1, <2>2
<1>6. ASSUME NEW d \in Clients, pc'[d] # "idle"
      PROVE  /\ told2[call[d]] = Result("ok", IF pc'[d] = "remove" THEN held'[d] ELSE 0)
             /\ g.at[g.len][call[d]] = Progress(pc'[d], calls'[call[d]].action)
  <2>1. CASE d = c
    BY <1>1, <1>2, <1>6, <2>1 DEF Outcome, Serving
  <2>2. CASE d # c
    <3>1. /\ pc'[d] = pc[d] /\ Active(d) /\ held'[d] = held[d]
          /\ call[d] # n /\ call[d] \in DOMAIN calls /\ call[d] \in Nat
      BY <1>1, <1>2, <1>3, <1>6, <2>2, HeldElsewhere DEF Active, HandlersInv
    <3>2. /\ told[call[d]] = Promise(d) /\ told2[call[d]] = told[call[d]]
          /\ p.at[p.len][call[d]] = Progress(pc[d], calls[call[d]].action)
      BY <3>1 DEF Progressed, Serving, MayTell
    <3>3. QED BY <1>1, <3>1, <3>2 DEF Promise
  <2>3. QED BY <2>1, <2>2
<1>7. QED BY <1>1, <1>4, <1>5, <1>6 DEF Progressed, Finished, StepsOf, Active, Promise, Serving

NowAttached(h) == \E t \in Tables : tables'[t] = h
NowShown(h) == [there |-> TRUE, data |-> [k \in Keys |-> collections'[h][k].value]]
NowMemory == [t \in Tables |-> IF tables'[t] = 0 THEN Absent ELSE NowShown(tables'[t])]

\* What becomes of the collections when step s of call n is put in at r: one
\* that had left is moved with the step that removed it, and may be written
\* when that is step r; the step may itself remove one.
LeftChanges(p, r, n, s, home, gone, home2, gone2) ==
    /\ \A t \in Tables : tables'[t] # 0 => home2[tables'[t]] = t
    /\ \A h \in DOMAIN collections : home2[h] = home[h]
    /\ \A h \in DOMAIN collections' : ~NowAttached(h) =>
         /\ h \in DOMAIN collections
         /\ \/ /\ ~Attached(h)
               /\ gone2[h] = Shifted(gone[h], r)
               /\ gone[h] # r => NowShown(h) = Shown(h)
               /\ gone[h] = r => NowShown(h) = Effect(s, n, p.store[r - 1])[home[h]]
            \/ /\ r = p.len + 1 /\ s = "remove" /\ gone2[h] = r
               /\ tables[calls[n].table] = h /\ home[h] = calls[n].table
               /\ NowShown(h) = p.store[p.len][home[h]]

\* The longer story says of each collection that left the store which step removed it.
LEMMA LeftGrows ==
    ASSUME CallsKnown, NEW p, NEW told, NEW n, NEW s, NEW r,
           Story(p, told), Fits(p, told, r, n, s), NEW g, g = Grown(p, r, n, s),
           NEW home, NEW gone, NEW home2, NEW gone2, Left(p, home, gone),
           LeftChanges(p, r, n, s, home, gone, home2, gone2),
           \A m \in DOMAIN calls : calls'[m].table = calls[m].table
    PROVE  Left(g, home2, gone2)'
<1>1. /\ p.len \in Nat /\ g.len = p.len + 1 /\ r \in 1..p.len + 1
      /\ r = p.len + 1 => /\ g.step[p.len + 1] = s /\ g.who[p.len + 1] = n
                          /\ g.store[p.len] = p.store[p.len]
      /\ \A x \in 1..p.len :
           /\ Shifted(x, r) \in 1..p.len + 1
           /\ g.step[Shifted(x, r)] = p.step[x]
           /\ g.who[Shifted(x, r)] = p.who[x]
           /\ x # r => g.store[Shifted(x, r) - 1] = p.store[x - 1]
           /\ x = r => g.store[Shifted(x, r) - 1] = Effect(s, n, p.store[x - 1])
  BY GrownFacts
<1>2. /\ \A x \in 1..p.len : p.who[x] \in DOMAIN calls
      /\ n \in DOMAIN calls
  BY DEF Story, StoryTyped, Fits
<1> DEFINE Old(h) == /\ ~Attached(h)
                     /\ gone2[h] = Shifted(gone[h], r)
                     /\ gone[h] # r => NowShown(h) = Shown(h)
                     /\ gone[h] = r => NowShown(h) = Effect(s, n, p.store[r - 1])[home[h]]
           New(h) == /\ r = p.len + 1 /\ s = "remove" /\ gone2[h] = r
                     /\ tables[calls[n].table] = h /\ home[h] = calls[n].table
                     /\ NowShown(h) = p.store[p.len][home[h]]
<1>3. \A h \in DOMAIN collections' : ~NowAttached(h) =>
        h \in DOMAIN collections /\ home2[h] = home[h] /\ (Old(h) \/ New(h))
  BY DEF LeftChanges
<1>4. ASSUME NEW h \in DOMAIN collections, Old(h)
      PROVE  /\ gone[h] \in 1..p.len /\ gone2[h] \in 1..p.len + 1
             /\ g.step[gone2[h]] = "remove"
             /\ calls'[g.who[gone2[h]]].table = home[h]
             /\ g.store[gone2[h] - 1][home[h]] = NowShown(h)
  <2>1. /\ gone[h] \in 1..p.len /\ p.step[gone[h]] = "remove"
        /\ calls[p.who[gone[h]]].table = home[h]
        /\ p.store[gone[h] - 1][home[h]] = Shown(h)
    BY <1>4 DEF Left
  <2>2. g.store[gone2[h] - 1][home[h]] = NowShown(h)
    <3>1. CASE gone[h] = r
      BY <1>1, <1>4, <2>1, <3>1
    <3>2. CASE gone[h] # r
      BY <1>1, <1>4, <2>1, <3>2
    <3>3. QED BY <3>1, <3>2
  <2>3. QED BY <1>1, <1>2, <1>4, <2>1, <2>2
<1>5. ASSUME NEW h \in DOMAIN collections, New(h)
      PROVE  /\ gone2[h] = p.len + 1 /\ gone2[h] \in 1..p.len + 1
             /\ g.step[gone2[h]] = "remove"
             /\ calls'[g.who[gone2[h]]].table = home[h]
             /\ g.store[gone2[h] - 1][home[h]] = NowShown(h)
  <2>1. (p.len + 1) - 1 = p.len
    BY <1>1
  <2>2. QED BY <1>1, <1>2, <1>5, <2>1
<1>6. ASSUME NEW h \in DOMAIN collections', NEW i \in DOMAIN collections',
             ~NowAttached(h), ~NowAttached(i), gone2[h] = gone2[i]
      PROVE  h = i
  <2>1. h \in DOMAIN collections /\ i \in DOMAIN collections
        /\ (Old(h) \/ New(h)) /\ (Old(i) \/ New(i))
    BY <1>3, <1>6
  <2>2. CASE Old(h) /\ Old(i)
    <3>1. gone[h] \in 1..p.len /\ gone[i] \in 1..p.len
      BY <1>4, <2>1, <2>2
    <3>2. \A x, y \in 1..p.len : Shifted(x, r) = Shifted(y, r) => x = y
      BY <1>1 DEF Shifted
    <3>3. Shifted(gone[h], r) = Shifted(gone[i], r)
      BY <1>6, <2>2
    <3>4. gone[h] = gone[i] /\ ~Attached(h) /\ ~Attached(i)
      BY <2>2, <3>1, <3>2, <3>3
    <3>5. QED BY <2>1, <3>4 DEF Left
  <2>3. CASE New(h) /\ New(i)
    BY <2>3
  <2>4. ASSUME NEW x \in DOMAIN collections, NEW y \in DOMAIN collections,
               Old(x), New(y)
        PROVE  gone2[x] # gone2[y]
    <3>1. gone2[y] = p.len + 1 /\ r = p.len + 1
      BY <1>5, <2>4
    <3>2. gone[x] \in 1..p.len
      BY <1>4, <2>4
    <3>3. gone2[x] = gone[x]
      BY <1>1, <2>4, <3>1, <3>2 DEF Shifted
    <3>4. QED BY <1>1, <3>1, <3>2, <3>3
  <2>5. QED BY <1>6, <2>1, <2>2, <2>3, <2>4
<1> HIDE DEF Old, New
<1>7. \A h \in DOMAIN collections' : ~NowAttached(h) =>
        /\ gone2[h] \in 1..p.len + 1
        /\ g.step[gone2[h]] = "remove"
        /\ calls'[g.who[gone2[h]]].table = home2[h]
        /\ g.store[gone2[h] - 1][home2[h]] = NowShown(h)
  BY <1>3, <1>4, <1>5
<1>8. \A t \in Tables : tables'[t] # 0 => home2[tables'[t]] = t
  BY DEF LeftChanges
<1>9. QED BY <1>1, <1>6, <1>7, <1>8 DEF Left, Attached, NowAttached, Shown, NowShown

\* In the longer story, too, nothing a handler waits for comes after the step that removed
\* its collection.
LEMMA HoldersGrow ==
    ASSUME HandlersInv, NEW c \in Clients, Handle(c), NEW p, NEW told, NEW told2,
           NEW s, NEW r, Story(p, told2), Fits(p, told2, r, call[c], s),
           NEW g, g = Grown(p, r, call[c], s),
           NEW home, NEW gone, NEW home2, NEW gone2, Holders(p, home, gone),
           Left(p, home, gone), LeftChanges(p, r, call[c], s, home, gone, home2, gone2),
           DOMAIN collections \subseteq DOMAIN collections',
           pc'[c] = "key" => NowAttached(held'[c]) /\ home2[held'[c]] = Serving(c).table
    PROVE  Holders(g, home2, gone2)'
<1> DEFINE n == call[c]
<1>1. /\ Active(c) /\ call' = call /\ n \in DOMAIN calls
      /\ \A m \in DOMAIN calls : /\ calls'[m].table = calls[m].table
                                 /\ calls'[m].before = calls[m].before
      /\ \A d \in Clients : d # c => pc'[d] = pc[d] /\ held'[d] = held[d]
      /\ \A d \in Clients : d # c /\ Active(d) => call[d] # n
      /\ \A m \in DOMAIN calls : n \notin calls[m].before
      /\ CallsKnown
  <2>1. Active(c) /\ ServiceTypeOK /\ HandlerInv
    BY HandleFields DEF HandlersInv
  <2>2. QED BY <2>1, HandleFields, HeldElsewhere, OwnCall
<1>2. /\ p.len \in Nat /\ g.len = p.len + 1 /\ r \in 1..p.len + 1
      /\ r = p.len + 1 => \A m \in Nat : m # n => g.at[p.len][m] = g.at[p.len + 1][m]
      /\ \A x \in 1..p.len :
           \A m \in Nat :
             m # n /\ (\A i \in x - 1..p.len : p.at[i][m] = p.at[p.len][m])
               => \A i \in Shifted(x, r) - 1..p.len + 1 : g.at[i][m] = g.at[p.len + 1][m]
  BY <1>1, GrownFacts
<1>3. ASSUME NEW d \in Clients, d # c, pc'[d] = "key"
      PROVE  /\ pc[d] = "key" /\ held'[d] = held[d] /\ held[d] \in DOMAIN collections
             /\ held[d] \in DOMAIN collections'
             /\ home[held[d]] = Serving(d).table
             /\ ~Attached(held[d]) => Settled(p, gone[held[d]], call[d])
             /\ call[d] \in DOMAIN calls /\ call[d] \in Nat
             /\ \A m \in calls[call[d]].before \cup {call[d]} : m \in Nat /\ m # n
  <2>1. pc[d] = "key" /\ held'[d] = held[d] /\ Active(d)
    BY <1>1, <1>3 DEF Active
  <2>2. held[d] \in DOMAIN collections
    BY <2>1 DEF HandlersInv, ServiceTypeOK
  <2>3. /\ home[held[d]] = Serving(d).table
        /\ ~Attached(held[d]) => Settled(p, gone[held[d]], call[d])
    BY <2>1 DEF Holders
  <2>4. call[d] \in DOMAIN calls /\ call[d] \in Nat /\ call[d] # n
    BY <1>1, <1>3, <2>1, OwnCall
  <2>5. \A m \in calls[call[d]].before : m \in Nat /\ m # n
    BY <1>1, <2>4 DEF CallsKnown
  <2>6. QED BY <2>1, <2>2, <2>3, <2>4, <2>5
<1>4. ASSUME NEW d \in Clients, d # c, pc'[d] = "key"
      PROVE  /\ home2[held'[d]] = calls'[call[d]].table
             /\ ~NowAttached(held'[d]) =>
                  \A m \in calls'[call[d]].before \cup {call[d]} :
                    \A i \in gone2[held'[d]] - 1..g.len : g.at[i][m] = g.at[g.len][m]
  <2> DEFINE h == held[d]
             B == calls[call[d]].before \cup {call[d]}
  <2>1. /\ held'[d] = h /\ home[h] = Serving(d).table /\ call[d] \in DOMAIN calls
        /\ ~Attached(h) => Settled(p, gone[h], call[d])
        /\ \A m \in B : m \in Nat /\ m # n
        /\ h \in DOMAIN collections' /\ h \in DOMAIN collections
    BY <1>3, <1>4
  <2>2. home2[h] = home[h]
    BY <2>1 DEF LeftChanges
  <2>3. home2[held'[d]] = calls'[call[d]].table
    BY <1>1, <2>1, <2>2 DEF Serving
  <2>4. ASSUME ~NowAttached(h), NEW m \in B, NEW i \in gone2[h] - 1..p.len + 1
        PROVE  g.at[i][m] = g.at[p.len + 1][m]
    <3>1. m \in Nat /\ m # n
      BY <2>1
    <3>2. CASE ~Attached(h) /\ gone2[h] = Shifted(gone[h], r)
      <4>1. gone[h] \in 1..p.len
        BY <2>1, <3>2 DEF Left
      <4>2. \A j \in gone[h] - 1..p.len : p.at[j][m] = p.at[p.len][m]
        BY <2>1, <3>2 DEF Settled
      <4>3. QED BY <1>2, <2>4, <3>1, <3>2, <4>1, <4>2
    <3>3. CASE r = p.len + 1 /\ gone2[h] = r
      <4>1. i = p.len \/ i = p.len + 1
        BY <1>2, <2>4, <3>3
      <4>2. QED BY <1>2, <3>1, <3>3, <4>1
    <3>4. QED BY <2>1, <2>4, <3>2, <3>3 DEF LeftChanges
  <2>5. calls'[call[d]].before = calls[call[d]].before
    BY <1>1, <2>1
  <2>6. QED BY <1>2, <2>1, <2>3, <2>4, <2>5
<1>5. pc'[c] = "key" => NowAttached(held'[c]) /\ home2[held'[c]] = calls'[call[c]].table
  BY <1>1 DEF Serving
<1>6. \A d \in Clients : pc'[d] = "key" =>
        /\ home2[held'[d]] = calls'[call[d]].table
        /\ ~NowAttached(held'[d]) =>
             \A m \in calls'[call[d]].before \cup {call[d]} :
               \A i \in gone2[held'[d]] - 1..g.len : g.at[i][m] = g.at[g.len][m]
  BY <1>4, <1>5
<1>7. QED BY <1>1, <1>6 DEF Holders, Settled, Serving, Attached, NowAttached

\* The rule for a handler's step: one story step, at the end or before a removal.
LEMMA StepExplained ==
    ASSUME HandlersInv, HandlersInv', NEW c \in Clients, Handle(c),
           NEW p, NEW told, NEW home, NEW gone, Explained(p, told, home, gone),
           NEW told2, MayTell(p, told, call[c], told2),
           NEW s, NEW r, Fits(p, told2, r, call[c], s),
           NEW home2, NEW gone2, LeftChanges(p, r, call[c], s, home, gone, home2, gone2),
           DOMAIN collections \subseteq DOMAIN collections',
           Outcome(c, told2, p.at[p.len][call[c]] + 1),
           r = p.len + 1 => Effect(s, call[c], p.store[p.len]) = NowMemory,
           r # p.len + 1 => p.store[p.len] = NowMemory,
           pc'[c] = "key" => NowAttached(held'[c]) /\ home2[held'[c]] = Serving(c).table
    PROVE  ExplainedInv'
<1> DEFINE n == call[c]
<1>0. PICK g : g = Grown(p, r, n, s)
  OBVIOUS
<1>1. /\ Active(c) /\ n \in DOMAIN calls /\ n \in Nat /\ CallsKnown
      /\ DOMAIN calls' = DOMAIN calls
      /\ \A m \in DOMAIN calls : /\ calls'[m].action = calls[m].action
                                 /\ calls'[m].table = calls[m].table
                                 /\ calls'[m].key = calls[m].key
                                 /\ calls'[m].before = calls[m].before
  <2>1. Active(c) /\ ServiceTypeOK /\ HandlerInv
    BY HandleFields DEF HandlersInv
  <2>2. QED BY <2>1, HandleFields, OwnCall
<1>2. /\ Story(p, told) /\ Progressed(p, told) /\ p.store[p.len] = Memory
      /\ Left(p, home, gone) /\ Holders(p, home, gone)
  BY DEF Explained
<1>3. Story(p, told2)
  BY <1>1, <1>2, ToldStory
<1>4. Story(g, told2)
  BY <1>0, <1>1, <1>3, StoryGrows
<1>5. Story(g, told2)'
  BY <1>1, <1>4, StoryStays
<1>6. /\ p.len \in Nat /\ g.len = p.len + 1
      /\ \A m \in Nat : m # n => g.at[g.len][m] = p.at[p.len][m]
      /\ g.at[g.len][n] = p.at[p.len][n] + 1
      /\ r = p.len + 1 => g.store[g.len] = Effect(s, n, p.store[p.len])
      /\ r # p.len + 1 => g.store[g.len] = p.store[p.len]
  BY <1>0, <1>1, <1>3, GrownFacts
<1>7. Progressed(g, told2)'
  BY <1>2, <1>6, HandleProgress
<1>8. g.store[g.len] = Memory'
  BY <1>6 DEF Memory, NowMemory, Shown, NowShown
<1>9. Left(g, home2, gone2)'
  BY <1>0, <1>1, <1>2, <1>3, LeftGrows
<1>10. Holders(g, home2, gone2)'
  BY <1>0, <1>2, <1>3, HoldersGrow
<1>11. Explained(g, told2, home2, gone2)'
  BY <1>5, <1>7, <1>8, <1>9, <1>10 DEF Explained
<1>12. QED BY <1>11 DEF ExplainedInv

-----------------------------------------------------------------------------
(* Every call has its handler, and a record without a value is none.        *)

\* What an answer does.
LEMMA ReturnGives ==
    ASSUME HandlersInv, NEW c \in Clients, Active(c), NEW tag, NEW n, Return(c, tag, n)
    PROVE  calls'[call[c]].result = Result(tag, n) /\ pc'[c] = "idle"
<1>1. Serving(c) \in CallType /\ call[c] \in DOMAIN calls
      /\ calls \in Seq(CallType) /\ pc \in [Clients -> HandlerPcs]
  <2>1. ServiceTypeOK /\ HandlerInv
    BY DEF HandlersInv
  <2>2. QED BY <2>1, ServedCall DEF HandlerInv, ServiceTypeOK
<1> DEFINE r == Result(tag, n)
<1>2. calls' = [calls EXCEPT ![call[c]] = [calls[call[c]] EXCEPT !.result = r]]
  BY DEF Return
<1>3. calls'[call[c]] = [calls[call[c]] EXCEPT !.result = r]
  BY <1>1, <1>2
<1> HIDE DEF r
<1>4. calls'[call[c]].result = r
  BY <1>1, <1>3 DEF Serving, CallType
<1>5. QED BY <1>1, <1>4 DEF Return, r

\* What going on does.
LEMMA GoOnGives ==
    ASSUME HandlersInv, NEW c \in Clients, NEW next, NEW h, GoOn(c, next, h)
    PROVE  pc'[c] = next /\ held'[c] = h /\ UNCHANGED calls
  BY DEF GoOn, HandlersInv, ServiceTypeOK

\* After a handler's step every unfinished call still has its handler.
LEMMA HandleServed ==
    ASSUME HandlersInv, NEW c \in Clients, Handle(c)
    PROVE  ServedInv'
<1> DEFINE n == call[c]
<1>1. ServiceTypeOK /\ HandlerInv /\ ServedInv
  BY DEF HandlersInv
<1>2. /\ Active(c) /\ call' = call /\ DOMAIN calls' = DOMAIN calls
      /\ \A m \in DOMAIN calls : m # n => calls'[m] = calls[m]
      /\ \A d \in Clients : d # c => pc'[d] = pc[d]
  BY <1>1, HandleFields
<1>3. ASSUME NEW m \in DOMAIN calls', calls'[m].result = Unfinished
      PROVE  \E d \in Clients : pc'[d] # "idle" /\ call'[d] = m
  <2>1. CASE m # n
    <3>1. calls[m].result = Unfinished
      BY <1>2, <1>3, <2>1
    <3>2. PICK d \in Clients : pc[d] # "idle" /\ call[d] = m
      BY <1>1, <1>2, <3>1 DEF ServedInv, Finished, Active
    <3>3. QED BY <1>2, <2>1, <3>2
  <2>2. CASE m = n
    <3>1. GoesOn(c) \/ Answers(c)
      BY <1>1, HandleEffect
    <3>2. CASE GoesOn(c)
      <4>1. pc'[c] # "idle"
        BY <1>1, <3>2 DEF GoesOn, ServiceTypeOK
      <4>2. QED BY <1>2, <2>2, <4>1
    <3>3. CASE Answers(c)
      <4>1. calls'[n].result.tag # "pending"
        BY <1>1, <3>3, AnswersCalls
      <4>2. QED BY <1>3, <2>2, <4>1 DEF Unfinished, Result
    <3>4. QED BY <3>1, <3>2, <3>3
  <2>3. QED BY <2>1, <2>2
<1>4. QED BY <1>3 DEF ServedInv, Finished, Active

\* A call that is received has its handler, or was answered at once.
LEMMA ReceiveServed ==
    ASSUME HandlersInv, NEW c \in Clients, Receives(c),
           pc'[c] = "idle" => calls'[Len(calls) + 1].result # Unfinished
    PROVE  ServedInv'
<1>1. ServiceTypeOK /\ ServedInv
  BY DEF HandlersInv
<1>2. /\ DOMAIN calls = 1..Len(calls) /\ DOMAIN calls' = 1..Len(calls) + 1
      /\ Len(calls) \in Nat
      /\ \A n \in DOMAIN calls : calls'[n] = calls[n]
      /\ call'[c] = Len(calls) + 1
  BY <1>1, ReceivesCalls
<1>3. \A d \in Clients : d # c => pc'[d] = pc[d] /\ call'[d] = call[d]
  BY <1>1 DEF Receives, ServiceTypeOK
<1>4. ASSUME NEW m \in DOMAIN calls', calls'[m].result = Unfinished
      PROVE  \E d \in Clients : pc'[d] # "idle" /\ call'[d] = m
  <2>1. CASE m \in DOMAIN calls
    <3>1. PICK d \in Clients : pc[d] # "idle" /\ call[d] = m
      BY <1>1, <1>2, <1>4, <2>1 DEF ServedInv, Finished, Active
    <3>2. d # c
      BY <3>1 DEF Receives, Active
    <3>3. QED BY <1>3, <3>1, <3>2
  <2>2. CASE m = Len(calls) + 1
    BY <1>2, <1>4, <2>2
  <2>3. QED BY <1>2, <2>1, <2>2
<1>5. QED BY <1>4 DEF ServedInv, Finished, Active

\* What a write leaves in the collection.
LEMMA WriteGives ==
    ASSUME HandlersInv, NEW c \in Clients, Active(c), WriteKey(c)
    PROVE  LET h == held[c]
               k == Serving(c).key
               record == Changed(Serving(c).action, collections[h][k], call[c])
           IN  /\ h \in DOMAIN collections /\ DOMAIN collections' = DOMAIN collections
               /\ collections[h] \in [Keys -> RecordType] /\ k \in Keys
               /\ collections'[h] \in [Keys -> RecordType]
               /\ \A i \in DOMAIN collections : i # h => collections'[i] = collections[i]
               /\ \A j \in Keys : j # k => collections'[h][j] = collections[h][j]
               /\ collections'[h][k] = record
               /\ record.value = IF Serving(c).action = "delete" THEN 0 ELSE call[c]
               /\ record.value = 0 => record = NoRecord
<1> DEFINE h == held[c]
           k == Serving(c).key
           record == Changed(Serving(c).action, collections[h][k], call[c])
<1>1. /\ ServiceTypeOK /\ HandlerInv /\ MemoryTyped /\ h \in DOMAIN collections
      /\ Serving(c).action \in Mutations
  BY DEF HandlersInv, ServiceTypeOK, MemoryTyped, WriteKey
<1>2. /\ k \in Keys /\ call[c] \in Nat /\ call[c] # 0
  BY <1>1, ServedCall DEF CallType
<1>3. collections \in Seq([Keys -> RecordType]) /\ DOMAIN collections = 1..Len(collections)
  BY <1>1, LenProperties DEF MemoryTyped
<1>4. collections[h] \in [Keys -> RecordType]
  BY <1>1, <1>3, ElementOfSeq
<1>5. collections' = [collections EXCEPT ![h] = [collections[h] EXCEPT ![k] = record]]
      /\ UNCHANGED tables
  BY DEF WriteKey
<1>6. record.value = IF Serving(c).action = "delete" THEN 0 ELSE call[c]
  BY <1>1 DEF Changed, Mutations, NoRecord
<1>7. record.value = 0 => record = NoRecord
  BY <1>1, <1>2, <1>6 DEF Changed, Mutations
<1>8. record \in RecordType
  BY <1>1, <1>2, <1>4 DEF Changed, Mutations, NoRecord, RecordType
<1> HIDE DEF record
<1>9. collections'[h] = [collections[h] EXCEPT ![k] = record]
      /\ DOMAIN collections' = DOMAIN collections
      /\ \A i \in DOMAIN collections : i # h => collections'[i] = collections[i]
  BY <1>1, <1>5
<1>10. /\ collections'[h] \in [Keys -> RecordType]
       /\ \A j \in Keys : j # k => collections'[h][j] = collections[h][j]
       /\ collections'[h][k] = record
  BY <1>2, <1>4, <1>8, <1>9
<1>11. QED BY <1>1, <1>2, <1>4, <1>6, <1>7, <1>9, <1>10 DEF record

\* Values in collections are numbers of calls.
LEMMA HandleValues ==
    ASSUME HandlersInv, ServiceTypeOK', NEW c \in Clients, Handle(c)
    PROVE  ValuesInv'
<1>0. /\ ValuesInv /\ ServiceTypeOK /\ HandlerInv /\ Active(c)
      /\ Serving(c).table \in Tables
  <2>1. ValuesInv /\ ServiceTypeOK /\ HandlerInv
    BY DEF HandlersInv
  <2>2. QED BY <2>1, HandleFields, ServedCall DEF CallType
<1>1. CASE WriteKey(c)
  <2>1. /\ DOMAIN collections' = DOMAIN collections
        /\ \A i \in DOMAIN collections : i # held[c] => collections'[i] = collections[i]
        /\ \A j \in Keys : j # Serving(c).key => collections'[held[c]][j] = collections[held[c]][j]
        /\ collections'[held[c]][Serving(c).key].value = 0
             => collections'[held[c]][Serving(c).key] = NoRecord
    BY <1>0, <1>1, WriteGives
  <2>2. QED BY <1>0, <2>1 DEF ValuesInv
<1>2. CASE PutCreatesTable(c) \/ AddTableCreates(c)
  <2> DEFINE t == Serving(c).table
  <2>1. CreateTable(t)
    BY <1>2 DEF PutCreatesTable, AddTableCreates
  <2>2. /\ \A h \in DOMAIN collections : collections'[h] = collections[h]
        /\ tables[t] = 0 => collections'[Len(collections) + 1] = EmptyCollection
        /\ DOMAIN collections = 1..Len(collections) /\ Len(collections) \in Nat
    BY <1>0, <2>1, TableCreated
  <2>3. \A h \in DOMAIN collections' :
          h \in DOMAIN collections \/ (h = Len(collections) + 1 /\ tables[t] = 0)
    <3>1. CASE tables[t] # 0
      BY <2>1, <3>1 DEF CreateTable, memoryVars
    <3>2. CASE tables[t] = 0
      <4>1. Len(collections') = Len(collections) + 1
        <5>1. collections' = Append(collections, EmptyCollection)
              /\ collections \in Seq([Keys -> RecordType])
          BY <1>0, <2>1, <3>2 DEF CreateTable, ServiceTypeOK
        <5>2. EmptyCollection \in [Keys -> RecordType]
          BY DEF EmptyCollection, NoRecord, RecordType
        <5>3. QED BY <5>1, <5>2, AppendProperties
      <4>2. DOMAIN collections' = 1..Len(collections')
        BY LenProperties DEF ServiceTypeOK
      <4>3. QED BY <2>2, <3>2, <4>1, <4>2
    <3>3. QED BY <3>1, <3>2
  <2>4. \A k \in Keys : EmptyCollection[k] = NoRecord
    BY DEF EmptyCollection
  <2>5. QED BY <1>0, <2>2, <2>3, <2>4 DEF ValuesInv
<1>3. CASE ~WriteKey(c) /\ ~PutCreatesTable(c) /\ ~AddTableCreates(c)
  <2>1. UNCHANGED collections
    BY <1>3 DEF Handle, FindTable, ReadKey, Publish, Answer, AddTableChecks,
       RemoveTableChecks, RemoveTableRemoves, memoryVars
  <2>2. QED BY <1>0, <2>1 DEF ValuesInv
<1>4. QED BY <1>1, <1>2, <1>3

\* HandlersInv is kept by every step.
LEMMA NextHandlers ==
    ASSUME HandlersInv, [ServiceNext]_serviceVars, BeforeInv'
    PROVE  HandlersInv'
<1>0. ServiceTypeOK /\ HandlerInv /\ PlacesInv /\ ServedInv /\ ValuesInv
  BY DEF HandlersInv
<1>1. ServiceTypeOK' /\ HandlerInv'
  BY <1>0, NextTyped
<1>2. PlacesInv'
  BY <1>0, NextPlaces
<1>3. ASSUME NEW c \in Clients, Handle(c) PROVE ServedInv' /\ ValuesInv'
  BY <1>1, <1>3, HandleServed, HandleValues
<1>4. ASSUME NEW c \in Clients, NEW a \in Actions, NEW t \in Tables, NEW k \in Keys,
             Receive(c, a, t, k)
      PROVE  ServedInv' /\ ValuesInv'
  <2>1. Receives(c)
    BY <1>0, <1>4, ReceiveEffect
  <2>2. pc'[c] = "idle" => calls'[Len(calls) + 1].result # Unfinished
    <3> DEFINE m == [action |-> a, table |-> t, key |-> k, before |-> Finished,
                     result |-> IF Allowed(a, t) THEN Unfinished ELSE Result("refused", 0)]
    <3>1. calls' = Append(calls, m) /\ pc \in [Clients -> HandlerPcs]
          /\ pc' = [pc EXCEPT ![c] = IF Allowed(a, t) THEN "table" ELSE "idle"]
      BY <1>0, <1>4 DEF Receive, ServiceTypeOK
    <3>2. calls'[Len(calls) + 1] = m
      <4>1. calls \in Seq(CallType) /\ m \in CallType
        <5>1. Finished \subseteq Nat
          BY <1>0, LenProperties DEF Finished, ServiceTypeOK
        <5>2. QED BY <1>0, <5>1 DEF CallType, Unfinished, Result, Tags, ServiceTypeOK
      <4>2. QED BY <3>1, <4>1, AppendProperties
    <3>3. pc'[c] = "idle" => m.result = Result("refused", 0)
      BY <3>1
    <3>4. QED BY <3>2, <3>3 DEF Unfinished, Result
  <2>3. QED BY <1>0, <1>4, <2>1, <2>2, ReceiveServed DEF Receive, memoryVars, ValuesInv
<1>5. ASSUME Dispatch \/ UNCHANGED serviceVars PROVE ServedInv' /\ ValuesInv'
  <2>1. UNCHANGED <<collections, pc, call, calls>>
    BY <1>5 DEF Dispatch, TakeEvent, WriteEvent, FlushFails, AppendFails, serviceVars,
       memoryVars
  <2>2. QED BY <1>0, <2>1 DEF ServedInv, ValuesInv, Finished, Active
<1>6. ServedInv' /\ ValuesInv'
  BY <1>3, <1>4, <1>5 DEF ServiceNext
<1>7. QED BY <1>1, <1>2, <1>6 DEF HandlersInv

-----------------------------------------------------------------------------
(* Steps that look at a table and change nothing.                           *)

\* How many steps the calls take.
LEMMA StepsTaken ==
    /\ \A action \in {"get", "contains", "update", "delete"} : Len(Steps(action)) = 1
    /\ Len(Steps("put")) = 2
    /\ Len(StepsWith("put", "ok")) = 2
    /\ Len(StepsWith("add_table", "ok")) = 2
    /\ Len(StepsWith("add_table", "exists")) = 1
    /\ Len(StepsWith("remove_table", "ok")) = 2
  BY DEF StepsWith, Steps

\* Which step comes next.
LEMMA StepOf ==
    ASSUME NEW action \in {"get", "contains", "update", "delete"},
           NEW tag \in {"ok", "no table"}
    PROVE  StepsWith(action, tag) = <<action>>
  BY DEF StepsWith, Steps

\* A sequence of one step.
LEMMA OneStep ==
    ASSUME NEW a, NEW i, i = 0
    PROVE  Len(<<a>>) = 1 /\ i < Len(<<a>>) /\ a = <<a>>[i + 1]
<1>1. Len(<<a>>) = 1 /\ <<a>>[1] = a
  OBVIOUS
<1>2. i + 1 = 1 /\ i < 1
  OBVIOUS
<1>3. QED BY <1>1, <1>2

\* The only step of a call on one key that is not a put.
LEMMA LookIsNext ==
    ASSUME NEW p, NEW told, NEW n, p.at[p.len][n] = 0,
           calls[n].action \in {"get", "contains", "update", "delete"},
           told[n].tag \in {"ok", "no table"}
    PROVE  /\ NextIs(p, told, n, calls[n].action)
           /\ Len(StepsWith(calls[n].action, told[n].tag)) = 1
<1>1. StepsWith(calls[n].action, told[n].tag) = <<calls[n].action>>
  BY StepOf
<1>2. PICK steps : steps = StepsWith(calls[n].action, told[n].tag)
  OBVIOUS
<1>3. PICK a : a = calls[n].action
  OBVIOUS
<1>4. steps = <<a>>
  BY <1>1, <1>2, <1>3, Zenon
<1>5. Len(steps) = 1 /\ p.at[p.len][n] < Len(steps) /\ a = steps[p.at[p.len][n] + 1]
  BY <1>4, OneStep, Zenon
<1>6. NextIs(p, told, n, a)
  BY <1>2, <1>5, Zenon DEF NextIs
<1>7. QED BY <1>2, <1>3, <1>5, <1>6, Zenon

\* The first step of add_table and of remove_table.
LEMMA CheckIsNext ==
    ASSUME NEW p, NEW told, NEW n, p.at[p.len][n] = 0,
           \/ calls[n].action = "add_table" /\ told[n].tag \in {"ok", "exists"}
           \/ calls[n].action = "remove_table" /\ told[n].tag = "ok"
    PROVE  NextIs(p, told, n, "check")
<1> DEFINE steps == StepsWith(calls[n].action, told[n].tag)
<1>1. 0 < Len(steps) /\ steps[0 + 1] = "check"
  BY DEF StepsWith, Steps
<1> HIDE DEF steps
<1>2. p.at[p.len][n] < Len(steps) /\ steps[p.at[p.len][n] + 1] = "check"
  BY <1>1
<1>3. QED BY <1>2 DEF NextIs, steps

\* The step that makes sure of a table is the first of put and the second of add_table.
LEMMA EnsureIsNext ==
    ASSUME NEW p, NEW told, NEW n, told[n].tag = "ok",
           \/ calls[n].action = "put" /\ p.at[p.len][n] = 0
           \/ calls[n].action = "add_table" /\ p.at[p.len][n] = 1
    PROVE  NextIs(p, told, n, "ensure")
<1> DEFINE steps == StepsWith(calls[n].action, told[n].tag)
           i == p.at[p.len][n]
<1>1. Len(steps) = 2 /\ i \in {0, 1} /\ (i = 0 => steps[1] = "ensure")
      /\ (i = 1 => steps[2] = "ensure")
  BY DEF StepsWith, Steps
<1> HIDE DEF steps, i
<1>2. i < Len(steps) /\ steps[i + 1] = "ensure"
  BY <1>1
<1>3. QED BY <1>2 DEF NextIs, steps, i

\* The last step of put and of remove_table.
LEMMA LastIsNext ==
    ASSUME NEW p, NEW told, NEW n, told[n].tag = "ok", p.at[p.len][n] = 1, NEW s,
           \/ calls[n].action = "put" /\ s = "put"
           \/ calls[n].action = "remove_table" /\ s = "remove"
    PROVE  NextIs(p, told, n, s)
<1> DEFINE steps == StepsWith(calls[n].action, told[n].tag)
<1>1. Len(steps) = 2 /\ steps[2] = s
  BY DEF StepsWith, Steps
<1> HIDE DEF steps
<1>2. p.at[p.len][n] < Len(steps) /\ steps[p.at[p.len][n] + 1] = s
  BY <1>1
<1>3. QED BY <1>2 DEF NextIs, steps

\* What a story says of a handler that is not idle.
LEMMA HandlerAt ==
    ASSUME HandlersInv, NEW c \in Clients, Active(c),
           NEW p, NEW told, NEW home, NEW gone, Explained(p, told, home, gone)
    PROVE  /\ p.at[p.len][call[c]] = Progress(pc[c], Serving(c).action)
           /\ told[call[c]] = Promise(c)
           /\ p.len \in Nat /\ p.store[p.len] = Memory
           /\ call[c] \in Nat /\ call[c] \in DOMAIN calls
           /\ Serving(c).table \in Tables /\ Serving(c).key \in Keys
           /\ Serving(c) = calls[call[c]]
           /\ CallsKnown
  BY OwnCall DEF Explained, Progressed, Story, StoryTyped, CallsKnown, Serving

\* A step without effect on the reference store moves no collection.
LEMMA LeftStays ==
    ASSUME NEW p, NEW n, NEW s, NEW r, NEW home, NEW gone, NEW gone2,
           Left(p, home, gone), UNCHANGED memoryVars,
           \A h \in DOMAIN collections : gone2[h] = Shifted(gone[h], r),
           r \in 1..p.len => Effect(s, n, p.store[r - 1]) = p.store[r - 1]
    PROVE  LeftChanges(p, r, n, s, home, gone, home, gone2)
<1>1. UNCHANGED tables /\ UNCHANGED collections
  BY DEF memoryVars
<1>2. /\ \A t \in Tables : tables'[t] # 0 => home[tables'[t]] = t
      /\ \A h : NowAttached(h) <=> Attached(h)
      /\ \A h : NowShown(h) = Shown(h)
  BY <1>1 DEF Left, NowAttached, Attached, NowShown, Shown
<1>3. ASSUME NEW h \in DOMAIN collections', ~NowAttached(h)
      PROVE  /\ h \in DOMAIN collections /\ ~Attached(h)
             /\ gone2[h] = Shifted(gone[h], r)
             /\ gone[h] = r => NowShown(h) = Effect(s, n, p.store[r - 1])[home[h]]
  <2>1. h \in DOMAIN collections /\ ~Attached(h) /\ gone2[h] = Shifted(gone[h], r)
    BY <1>1, <1>2, <1>3
  <2>2. gone[h] \in 1..p.len /\ p.store[gone[h] - 1][home[h]] = Shown(h)
    BY <2>1 DEF Left
  <2>3. QED BY <1>2, <2>1, <2>2
<1>4. QED BY <1>2, <1>3 DEF LeftChanges

\* The rule for a handler's step that changes nothing in memory.
LEMMA LookExplained ==
    ASSUME HandlersInv, HandlersInv', NEW c \in Clients, Handle(c), UNCHANGED memoryVars,
           NEW p, NEW told, NEW home, NEW gone, Explained(p, told, home, gone),
           NEW told2, MayTell(p, told, call[c], told2),
           NEW s, NextIs(p, told2, call[c], s),
           NEW r, \/ r = p.len + 1
                  \/ pc[c] = "key" /\ ~Attached(held[c]) /\ r = gone[held[c]],
           NEW store, store = p.store[r - 1],
           Consistent(s, call[c], told2[call[c]], store),
           Effect(s, call[c], store) = store,
           Outcome(c, told2, p.at[p.len][call[c]] + 1),
           pc'[c] # "key"
    PROVE  ExplainedInv'
<1>1. /\ Active(c) /\ p.len \in Nat /\ p.store[p.len] = Memory
      /\ Story(p, told) /\ Progressed(p, told) /\ Left(p, home, gone)
  BY HandleFields, HandlerAt DEF HandlersInv, Explained
<1>2. (p.len + 1) - 1 = p.len
  BY <1>1
<1>3. Fits(p, told2, r, call[c], s)
  <2>1. CASE r = p.len + 1
    BY <1>1, <1>2, <2>1, FitsAtEnd
  <2>2. CASE pc[c] = "key" /\ ~Attached(held[c]) /\ r = gone[held[c]]
    BY <2>2, FitsBefore
  <2>3. QED BY <2>1, <2>2
<1> DEFINE gone2 == [h \in DOMAIN collections |-> Shifted(gone[h], r)]
<1>5. PICK d : d = gone2
  OBVIOUS
<1>6. \A h \in DOMAIN collections : d[h] = Shifted(gone[h], r)
  BY <1>5
<1>7. LeftChanges(p, r, call[c], s, home, gone, home, d)
  BY <1>1, <1>6, LeftStays
<1>8. NowMemory = Memory
  BY DEF NowMemory, Memory, NowShown, Shown, memoryVars
<1>9. r = p.len + 1 => Effect(s, call[c], p.store[p.len]) = NowMemory
  BY <1>1, <1>2, <1>8
<1>10. DOMAIN collections \subseteq DOMAIN collections'
  BY DEF memoryVars
<1>11. QED BY <1>1, <1>3, <1>7, <1>8, <1>9, <1>10, StepExplained

\* The same story is still good.
LEMMA StillExplained ==
    ASSUME HandlersInv, HandlersInv', NEW c \in Clients, Handle(c), UNCHANGED memoryVars,
           NEW p, NEW told, NEW home, NEW gone, Explained(p, told, home, gone),
           Outcome(c, told, p.at[p.len][call[c]]),
           pc'[c] = "key" => Attached(held'[c]) /\ home[held'[c]] = Serving(c).table
    PROVE  ExplainedInv'
<1>0. /\ Story(p, told) /\ Progressed(p, told) /\ p.store[p.len] = Memory
      /\ Left(p, home, gone) /\ Holders(p, home, gone)
  BY DEF Explained
<1>1. /\ Active(c) /\ call' = call
      /\ \A m \in DOMAIN calls : /\ m \in DOMAIN calls'
                                 /\ calls'[m].action = calls[m].action
                                 /\ calls'[m].table = calls[m].table
                                 /\ calls'[m].key = calls[m].key
                                 /\ calls'[m].before = calls[m].before
      /\ \A d \in Clients : d # c => pc'[d] = pc[d] /\ held'[d] = held[d]
      /\ CallsKnown /\ call[c] \in DOMAIN calls
      /\ \A d \in Clients : Active(d) => call[d] \in DOMAIN calls
  <2>1. Active(c) /\ ServiceTypeOK /\ HandlerInv
    BY HandleFields DEF HandlersInv
  <2>2. QED BY <2>1, HandleFields, HeldElsewhere, OwnCall
<1>2. Story(p, told)'
  BY <1>0, <1>1, StoryStays
<1>3. MayTell(p, told, call[c], told)
  BY DEF MayTell
<1>4. Progressed(p, told)'
  BY <1>0, <1>3, HandleProgress
<1>5. p.store[p.len] = Memory'
  BY <1>0 DEF Memory, Shown, memoryVars
<1>6. Left(p, home, gone)'
  <2>1. \A m \in 1..p.len : p.who[m] \in DOMAIN calls
    BY <1>0 DEF Story, StoryTyped
  <2>2. UNCHANGED tables /\ UNCHANGED collections
    BY DEF memoryVars
  <2>3. \A h \in DOMAIN collections : ~Attached(h) =>
          calls'[p.who[gone[h]]].table = calls[p.who[gone[h]]].table
    BY <1>0, <1>1, <2>1 DEF Left
  <2>4. QED BY <1>0, <2>2, <2>3 DEF Left, Attached, Shown
<1>7. ASSUME NEW d \in Clients, pc'[d] = "key"
      PROVE  /\ home[held'[d]] = calls'[call[d]].table
             /\ ~Attached(held'[d]) =>
                  \A m \in calls'[call[d]].before \cup {call[d]} :
                    \A i \in gone[held'[d]] - 1..p.len : p.at[i][m] = p.at[p.len][m]
  <2>1. CASE d = c
    BY <1>1, <1>7, <2>1 DEF Serving
  <2>2. CASE d # c
    <3>1. pc[d] = "key" /\ held'[d] = held[d] /\ call[d] \in DOMAIN calls
      BY <1>1, <1>7, <2>2 DEF Active
    <3>2. /\ home[held[d]] = Serving(d).table
          /\ ~Attached(held[d]) => Settled(p, gone[held[d]], call[d])
      BY <1>0, <3>1 DEF Holders
    <3>3. QED BY <1>1, <3>1, <3>2 DEF Settled, Serving
  <2>3. QED BY <2>1, <2>2
<1>8. Holders(p, home, gone)'
  BY <1>1, <1>7 DEF Holders, Settled, Serving, Attached, memoryVars
<1>9. Explained(p, told, home, gone)'
  BY <1>2, <1>4, <1>5, <1>6, <1>8 DEF Explained
<1>10. QED BY <1>9 DEF ExplainedInv

-----------------------------------------------------------------------------
(* The handlers, one by one.                                                *)

\* What is in memory, read as a reference store.
LEMMA MemoryAt ==
    /\ \A t \in Tables : Memory[t] = IF tables[t] = 0 THEN Absent ELSE Shown(tables[t])
    /\ Absent.there = FALSE /\ \A k \in Keys : Absent.data[k] = 0
    /\ \A h : Shown(h).there = TRUE
    /\ \A h : \A k \in Keys : Shown(h).data[k] = collections[h][k].value
  BY DEF Memory, Absent, Shown

\* A result has its tag.
LEMMA ResultTag ==
    ASSUME NEW tag, NEW n PROVE \E r : r = Result(tag, n) /\ r.tag = tag
<1>1. Result(tag, n).tag = tag
  BY DEF Result
<1>2. QED BY <1>1, Zenon

\* The first step makes one.
LEMMA ZeroUp == \A i : i = 0 => i + 1 = 1
  OBVIOUS

\* The second step makes two.
LEMMA OneUp == \A i : i = 1 => i + 1 = 2
  OBVIOUS

\* The place before the next place.
LEMMA Back == \A i \in Nat : (i + 1) - 1 = i
  OBVIOUS

\* A call none of whose steps is in the story may be told anything.
OnlyTold(told, n, r, told2) ==
    told2[n] = r /\ \A m \in DOMAIN calls : m # n => told2[m] = told[m]

\* There is a record of results that differs for one call only.
LEMMA Tell ==
    ASSUME NEW told, NEW n \in Nat, NEW r, DOMAIN calls \subseteq Nat
    PROVE  \E told2 : OnlyTold(told, n, r, told2)
<1> DEFINE told2 == [m \in Nat |-> IF m = n THEN r ELSE told[m]]
<1>1. told2[n] = r /\ \A m \in DOMAIN calls : m # n => told2[m] = told[m]
  OBVIOUS
<1>2. QED BY <1>1 DEF OnlyTold

Tells(p, told, n, r, told2) == MayTell(p, told, n, told2) /\ told2[n] = r

\* A call none of whose steps is in the story may be told anything.
LEMMA TellAt ==
    ASSUME HandlersInv, NEW c \in Clients, Active(c),
           NEW p, NEW told, p.at[p.len][call[c]] = 0, NEW r
    PROVE  \E told2 : Tells(p, told, call[c], r, told2)
<1>1. call[c] \in Nat /\ DOMAIN calls \subseteq Nat
  BY OwnCall DEF CallsKnown
<1>2. PICK n \in Nat : n = call[c]
  BY <1>1, Zenon
<1>3. PICK told2 : OnlyTold(told, n, r, told2)
  BY <1>1, Tell, Zenon
<1>4. MayTell(p, told, n, told2)
  BY <1>2, <1>3, Zenon DEF MayTell, OnlyTold
<1>5. QED BY <1>2, <1>3, <1>4, Zenon DEF OnlyTold, Tells

\* A handler's call that is answered has taken all its steps.
LEMMA Answered ==
    ASSUME NEW c, NEW told2, NEW r, told2[call[c]] = r, calls'[call[c]].result = r,
           pc'[c] = "idle", NEW done,
           done = Len(StepsWith(Serving(c).action, told2[call[c]].tag))
    PROVE  Outcome(c, told2, done) /\ pc'[c] # "key"
<1>1. pc'[c] # "key"
  OBVIOUS
<1>2. Outcome(c, told2, done)
  BY Zenon DEF Outcome
<1>3. QED BY <1>1, <1>2

\* A handler that goes on promises the result it will answer.
LEMMA WentOn ==
    ASSUME NEW c, NEW told2, UNCHANGED calls, pc'[c] # "idle", NEW r,
           told2[call[c]] = r,
           r = Result("ok", IF pc'[c] = "remove" THEN held'[c] ELSE 0)
    PROVE  Outcome(c, told2, Progress(pc'[c], Serving(c).action))
  BY Zenon DEF Outcome

\* A step that changes no store.
LEMMA EffectNone ==
    ASSUME NEW n, NEW s, NEW store,
           s \in {"get", "contains", "check"}
             \/ (s \in {"update", "delete"} /\ ~store[calls[n].table].there)
    PROVE  Effect(s, n, store) = store
  BY DEF Effect

\* Finding no table is the call's step; finding one is none yet.
LEMMA FindTableExplained ==
    ASSUME HandlersInv, HandlersInv', NEW c \in Clients, FindTable(c), ExplainedInv
    PROVE  ExplainedInv'
<1> DEFINE n == call[c]
           t == Serving(c).table
           a == Serving(c).action
<1>0. Handle(c) /\ Active(c) /\ pc[c] = "table" /\ UNCHANGED memoryVars
      /\ a \in {"get", "contains", "update", "delete"}
  BY DEF FindTable, Handle, Active
<1>1. PICK p, told, home, gone : Explained(p, told, home, gone)
  BY DEF ExplainedInv
<1>2. /\ p.at[p.len][n] = 0 /\ told[n] = Promise(c)
      /\ p.len \in Nat /\ p.store[p.len] = Memory /\ n \in Nat
      /\ t \in Tables /\ Serving(c).key \in Keys /\ Serving(c) = calls[n]
      /\ DOMAIN calls \subseteq Nat
  BY <1>0, <1>1, HandlerAt DEF Progress, CallsKnown
<1>3. CASE tables[t] # 0
  <2>1. GoOn(c, "key", tables[t])
    BY <1>3 DEF FindTable
  <2>2. pc'[c] = "key" /\ held'[c] = tables[t] /\ UNCHANGED calls
    BY <2>1, GoOnGives
  <2>3. Outcome(c, told, p.at[p.len][n])
    BY <1>0, <1>2, <2>2 DEF Outcome, Progress, Promise
  <2>4. Attached(held'[c]) /\ home[held'[c]] = t
    BY <1>1, <1>2, <1>3, <2>2 DEF Explained, Left, Attached
  <2>5. QED BY <1>0, <1>1, <2>3, <2>4, StillExplained
<1>4. CASE tables[t] = 0
  <2>1. PICK tag \in {"ok", "no table"} :
          /\ tag = IF a = "contains" THEN "ok" ELSE "no table"
          /\ Return(c, tag, 0)
    BY <1>4 DEF FindTable
  <2>r. PICK r : r = Result(tag, 0) /\ r.tag = tag
    BY ResultTag, Zenon
  <2>2. calls'[n].result = r /\ pc'[c] = "idle"
    BY <1>0, <2>1, <2>r, ReturnGives
  <2>t. PICK told2 : Tells(p, told, n, r, told2)
    BY <1>0, <1>2, TellAt, Zenon
  <2>3. MayTell(p, told, n, told2) /\ told2[n] = r
    BY <2>t, Zenon DEF Tells
  <2>5. NextIs(p, told2, n, a) /\ Len(StepsWith(a, told2[n].tag)) = 1
    <3>1. told2[n].tag \in {"ok", "no table"}
      BY <2>r, <2>3
    <3>2. calls[n].action = a
      BY <1>2
    <3>3. QED BY <1>0, <1>2, <3>1, <3>2, LookIsNext, ZenonT(60)
  <2>6. Memory[t].there = FALSE /\ Memory[t].data[Serving(c).key] = 0
    BY <1>2, <1>4, MemoryAt
  <2>7. Consistent(a, n, told2[n], Memory)
    <3>1. CASE a = "contains"
      BY <1>2, <2>1, <2>r, <2>3, <2>6, <3>1 DEF Consistent
    <3>2. CASE a # "contains"
      BY <1>0, <1>2, <2>1, <2>r, <2>3, <2>6, <3>2 DEF Consistent
    <3>3. QED BY <3>1, <3>2
  <2>8. Effect(a, n, Memory) = Memory
    <3>1. \/ a \in {"get", "contains", "check"}
          \/ a \in {"update", "delete"} /\ ~Memory[calls[n].table].there
      BY <1>0, <1>2, <2>6
    <3>2. QED BY <3>1, EffectNone, Zenon
  <2>9. Outcome(c, told2, p.at[p.len][n] + 1)
    <3>1. p.at[p.len][n] + 1 = 1
      BY <1>2, ZeroUp, Zenon
    <3>2. QED BY <2>2, <2>3, <2>5, <3>1, Answered, Zenon
  <2>10. p.store[(p.len + 1) - 1] = Memory
    <3>1. (p.len + 1) - 1 = p.len
      BY <1>2, Back, Zenon
    <3>2. QED BY <1>2, <3>1
  <2>11. pc'[c] # "key"
    BY <2>2
  <2>12. QED
    BY <1>0, <1>1, <2>3, <2>5, <2>7, <2>8, <2>9, <2>10, <2>11, LookExplained
<1>5. QED BY <1>3, <1>4

\* The first look of add_table is its check.
LEMMA AddTableChecksExplained ==
    ASSUME HandlersInv, HandlersInv', NEW c \in Clients, AddTableChecks(c), ExplainedInv
    PROVE  ExplainedInv'
<1> DEFINE n == call[c]
           t == Serving(c).table
           there == tables[t] # 0
           tag == IF there THEN "exists" ELSE "ok"
<1>0. /\ Handle(c) /\ Active(c) /\ pc[c] = "table" /\ UNCHANGED memoryVars
      /\ Serving(c).action = "add_table"
      /\ there => Return(c, "exists", 0)
      /\ ~there => GoOn(c, "create", 0)
  BY DEF AddTableChecks, Handle, Active
<1>1. PICK p, told, home, gone : Explained(p, told, home, gone)
  BY DEF ExplainedInv
<1>2. /\ p.at[p.len][n] = 0
      /\ p.len \in Nat /\ p.store[p.len] = Memory /\ n \in Nat
      /\ t \in Tables /\ Serving(c) = calls[n] /\ DOMAIN calls \subseteq Nat
  BY <1>0, <1>1, HandlerAt DEF Progress, CallsKnown
<1>r. PICK r : r = Result(tag, 0) /\ r.tag = tag
  BY ResultTag, Zenon
<1>t. PICK told2 : Tells(p, told, n, r, told2)
  BY <1>0, <1>2, TellAt, Zenon
<1>3. MayTell(p, told, n, told2) /\ told2[n] = r
  BY <1>t, Zenon DEF Tells
<1>4. told2[n].tag = tag
  BY <1>r, <1>3
<1>5. NextIs(p, told2, n, "check")
  BY <1>0, <1>2, <1>4, CheckIsNext
<1>6. Memory[t].there <=> there
  BY <1>2, MemoryAt
<1>7. Consistent("check", n, told2[n], Memory)
  <2>1. told2[n].tag = (IF Memory[t].there THEN "exists" ELSE "ok")
    BY <1>4, <1>6
  <2>2. QED BY <1>0, <1>2, <2>1 DEF Consistent
<1>8. Effect("check", n, Memory) = Memory
  BY EffectNone
<1>9. Outcome(c, told2, p.at[p.len][n] + 1) /\ pc'[c] # "key"
  <2>1. CASE there
    <3>1. calls'[n].result = r /\ pc'[c] = "idle"
      BY <1>0, <1>r, <2>1, ReturnGives
    <3>2. Len(StepsWith("add_table", "exists")) = p.at[p.len][n] + 1
      BY <1>2, StepsTaken
    <3>3. QED BY <1>0, <1>3, <1>4, <2>1, <3>1, <3>2 DEF Outcome
  <2>2. CASE ~there
    <3>1. pc'[c] = "create" /\ UNCHANGED calls
      BY <1>0, <2>2, GoOnGives
    <3>2. QED BY <1>2, <1>r, <1>3, <2>2, <3>1 DEF Outcome, Progress
  <2>3. QED BY <2>1, <2>2
<1>10. p.store[(p.len + 1) - 1] = Memory
  <2>1. (p.len + 1) - 1 = p.len
    BY <1>2, Back, Zenon
  <2>2. QED BY <1>2, <2>1
<1>11. QED
  BY <1>0, <1>1, <1>3, <1>5, <1>7, <1>8, <1>9, <1>10, LookExplained

\* The look of remove_table is its check, and settles its answer.
LEMMA RemoveTableChecksExplained ==
    ASSUME HandlersInv, HandlersInv', NEW c \in Clients, RemoveTableChecks(c), ExplainedInv
    PROVE  ExplainedInv'
<1> DEFINE n == call[c]
           t == Serving(c).table
           existed == IF tables[t] # 0 THEN 1 ELSE 0
<1>0. /\ Handle(c) /\ Active(c) /\ pc[c] = "table" /\ UNCHANGED memoryVars
      /\ Serving(c).action = "remove_table"
      /\ GoOn(c, "remove", existed)
  BY DEF RemoveTableChecks, Handle, Active
<1>1. PICK p, told, home, gone : Explained(p, told, home, gone)
  BY DEF ExplainedInv
<1>2. /\ p.at[p.len][n] = 0
      /\ p.len \in Nat /\ p.store[p.len] = Memory /\ n \in Nat
      /\ t \in Tables /\ Serving(c) = calls[n] /\ DOMAIN calls \subseteq Nat
  BY <1>0, <1>1, HandlerAt DEF Progress, CallsKnown
<1>r. PICK r : r = Result("ok", existed) /\ r.tag = "ok"
  BY ResultTag, Zenon
<1>t. PICK told2 : Tells(p, told, n, r, told2)
  BY <1>0, <1>2, TellAt, Zenon
<1>3. MayTell(p, told, n, told2) /\ told2[n] = r
  BY <1>t, Zenon DEF Tells
<1>5. NextIs(p, told2, n, "check")
  <2>1. told2[n].tag = "ok"
    BY <1>r, <1>3
  <2>2. QED BY <1>0, <1>2, <2>1, CheckIsNext
<1>6. Memory[t].there <=> tables[t] # 0
  BY <1>2, MemoryAt
<1>7. Consistent("check", n, told2[n], Memory)
  <2>1. told2[n] = Result("ok", IF Memory[t].there THEN 1 ELSE 0)
    BY <1>r, <1>3, <1>6
  <2>2. QED BY <1>0, <1>2, <2>1 DEF Consistent
<1>8. Effect("check", n, Memory) = Memory
  BY EffectNone
<1>9. Outcome(c, told2, p.at[p.len][n] + 1) /\ pc'[c] # "key"
  <2>1. pc'[c] = "remove" /\ held'[c] = existed /\ UNCHANGED calls
    BY <1>0, GoOnGives
  <2>2. QED BY <1>2, <1>r, <1>3, <2>1 DEF Outcome, Progress
<1>10. p.store[(p.len + 1) - 1] = Memory
  <2>1. (p.len + 1) - 1 = p.len
    BY <1>2, Back, Zenon
  <2>2. QED BY <1>2, <2>1
<1>11. QED
  BY <1>0, <1>1, <1>3, <1>5, <1>7, <1>8, <1>9, <1>10, LookExplained

\* Where a handler's read or write belongs: at the end, or where its table was
\* removed; there the reference store shows what it holds.
LEMMA HeldStore ==
    ASSUME HandlersInv, NEW c \in Clients, pc[c] = "key",
           NEW p, NEW told, NEW home, NEW gone, Explained(p, told, home, gone)
    PROVE  \E r \in 1..p.len + 1 :
             /\ \/ r = p.len + 1 /\ tables[Serving(c).table] = held[c]
                \/ ~Attached(held[c]) /\ r = gone[held[c]] /\ r # p.len + 1
             /\ p.store[r - 1] \in Stores
             /\ p.store[r - 1][Serving(c).table] = Shown(held[c])
             /\ home[held[c]] = Serving(c).table
             /\ held[c] \in DOMAIN collections /\ held[c] # 0
<1> DEFINE t == Serving(c).table
           h == held[c]
<1>1. /\ p.len \in Nat /\ p.store[p.len] = Memory /\ t \in Tables
      /\ p.store \in [0..p.len -> Stores]
      /\ Left(p, home, gone) /\ home[h] = t
  BY HandlerAt DEF Active, Explained, Story, StoryTyped, Holders
<1>2. h \in DOMAIN collections /\ h # 0
  <2>1. h \in DOMAIN collections
    BY DEF HandlersInv, ServiceTypeOK
  <2>2. DOMAIN collections = 1..Len(collections)
    BY LenProperties DEF HandlersInv, ServiceTypeOK
  <2>3. QED BY <2>1, <2>2
<1>3. CASE Attached(h)
  <2>1. tables[t] = h
    BY <1>1, <1>2, <1>3 DEF Attached, Left
  <2>2. p.len + 1 \in 1..p.len + 1 /\ (p.len + 1) - 1 = p.len /\ p.len \in 0..p.len
    BY <1>1
  <2>3. p.store[p.len][t] = Shown(h)
    BY <1>1, <1>2, <2>1, MemoryAt
  <2>4. QED BY <1>1, <1>2, <2>1, <2>2, <2>3
<1>4. CASE ~Attached(h)
  <2>1. gone[h] \in 1..p.len /\ p.store[gone[h] - 1][t] = Shown(h)
    BY <1>1, <1>2, <1>4 DEF Left
  <2>2. gone[h] \in 1..p.len + 1 /\ gone[h] # p.len + 1 /\ gone[h] - 1 \in 0..p.len
    BY <1>1, <2>1
  <2>3. QED BY <1>1, <1>2, <1>4, <2>1, <2>2
<1>5. QED BY <1>3, <1>4

\* A read of the collection held is a step at the end, or just before the table's removal.
LEMMA ReadKeyExplained ==
    ASSUME HandlersInv, HandlersInv', NEW c \in Clients, ReadKey(c), ExplainedInv
    PROVE  ExplainedInv'
<1> DEFINE n == call[c]
           t == Serving(c).table
           k == Serving(c).key
           a == Serving(c).action
           h == held[c]
           record == collections[h][k]
           v == IF a = "get" THEN record.value ELSE IF record = NoRecord THEN 0 ELSE 1
<1>0. /\ Handle(c) /\ Active(c) /\ pc[c] = "key" /\ UNCHANGED memoryVars
      /\ a \in {"get", "contains"} /\ Return(c, "ok", v)
  BY DEF ReadKey, Handle, Active
<1>1. PICK p, told, home, gone : Explained(p, told, home, gone)
  BY DEF ExplainedInv
<1>2. /\ p.at[p.len][n] = 0
      /\ p.len \in Nat /\ n \in Nat
      /\ t \in Tables /\ k \in Keys /\ Serving(c) = calls[n] /\ DOMAIN calls \subseteq Nat
  BY <1>0, <1>1, HandlerAt DEF Progress, CallsKnown
<1>r. PICK r : r = Result("ok", v) /\ r.tag = "ok"
  BY ResultTag, Zenon
<1>t. PICK told2 : Tells(p, told, n, r, told2)
  BY <1>0, <1>2, TellAt, Zenon
<1>3. MayTell(p, told, n, told2) /\ told2[n] = r
  BY <1>t, Zenon DEF Tells
<1>5. NextIs(p, told2, n, a) /\ Len(StepsWith(a, told2[n].tag)) = 1
  <2>1. told2[n].tag \in {"ok", "no table"}
    BY <1>r, <1>3
  <2>2. calls[n].action = a /\ calls[n].action \in {"get", "contains", "update", "delete"}
    BY <1>0, <1>2
  <2>3. QED BY <1>2, <2>1, <2>2, LookIsNext, ZenonT(60)
<1>6. PICK i \in 1..p.len + 1 :
        /\ \/ i = p.len + 1 /\ tables[t] = h
           \/ ~Attached(h) /\ i = gone[h] /\ i # p.len + 1
        /\ p.store[i - 1][t] = Shown(h)
        /\ h \in DOMAIN collections
  BY <1>0, <1>1, HeldStore
<1> DEFINE store == p.store[i - 1]
<1>7. store[t].there = TRUE /\ store[t].data[k] = record.value
  BY <1>2, <1>6, MemoryAt
<1>8. record.value = 0 <=> record = NoRecord
  BY <1>2, <1>6 DEF HandlersInv, ValuesInv, NoRecord
<1>9. Consistent(a, n, told2[n], store)
  <2>1. CASE a = "get"
    BY <1>2, <1>r, <1>3, <1>7, <2>1 DEF Consistent
  <2>2. CASE a = "contains"
    <3>1. told2[n] = Result("ok", IF store[t].data[k] # 0 THEN 1 ELSE 0)
      BY <1>r, <1>3, <1>7, <1>8, <2>2
    <3>2. QED BY <1>2, <2>2, <3>1 DEF Consistent
  <2>3. QED BY <1>0, <2>1, <2>2
<1>10. Effect(a, n, store) = store
  BY <1>0, EffectNone
<1>11. calls'[n].result = r /\ pc'[c] = "idle"
  BY <1>0, <1>r, ReturnGives
<1>12. Outcome(c, told2, p.at[p.len][n] + 1) /\ pc'[c] # "key"
  BY <1>2, <1>3, <1>5, <1>11 DEF Outcome
<1> HIDE DEF v, store
<1>13. QED
  BY <1>0, <1>1, <1>3, <1>5, <1>6, <1>9, <1>10, <1>12, LookExplained DEF store

-----------------------------------------------------------------------------
(* A write, into the table or into a collection that left the store.        *)

\* A write is the next step of its call.
LEMMA WriteIsNext ==
    ASSUME HandlersInv, NEW c \in Clients, WriteKey(c),
           NEW p, NEW told, NEW home, NEW gone, Explained(p, told, home, gone)
    PROVE  /\ NextIs(p, told, call[c], Serving(c).action)
           /\ told[call[c]] = Result("ok", 0)
           /\ p.at[p.len][call[c]] + 1 = Progress("publish", Serving(c).action)
<1> DEFINE n == call[c]
           a == Serving(c).action
<1>0. /\ Active(c) /\ pc[c] = "key" /\ a \in {"put", "update", "delete"}
      /\ pc[c] # "remove" /\ pc[c] # "table"
  BY DEF WriteKey, Active, Mutations
<1>1. /\ p.at[p.len][n] = Progress(pc[c], a)
      /\ told[n] = Promise(c) /\ Serving(c) = calls[n]
  BY <1>0, HandlerAt, Zenon
<1>2. told[n] = Result("ok", 0)
  BY <1>0, <1>1 DEF Promise
<1>3. Result("ok", 0).tag = "ok"
  BY DEF Result
<1>4. told[n].tag = "ok" /\ told[n].tag \in {"ok", "no table"}
  BY <1>2, <1>3
<1>5. Progress("publish", a) = Len(Steps(a))
  BY DEF Progress
<1>6. CASE a = "put"
  <2>1. Progress("key", "put") = 1
    BY DEF Progress
  <2>2. p.at[p.len][n] = 1
    BY <1>0, <1>1, <1>6, <2>1
  <2>3. NextIs(p, told, n, a)
    BY <1>1, <1>4, <1>6, <2>2, LastIsNext
  <2>4. p.at[p.len][n] + 1 = 2
    BY <2>2
  <2>5. QED BY <1>2, <1>5, <1>6, <2>3, <2>4, StepsTaken, Zenon
<1>7. CASE a \in {"update", "delete"}
  <2>1. Progress("key", a) = 0
    BY <1>7 DEF Progress
  <2>2. p.at[p.len][n] = 0
    BY <1>0, <1>1, <2>1
  <2>3. NextIs(p, told, n, a)
    <3>1. calls[n].action \in {"get", "contains", "update", "delete"} /\ a = calls[n].action
      BY <1>1, <1>7
    <3>2. QED BY <1>4, <2>2, <3>1, LookIsNext, ZenonT(60)
  <2>4. p.at[p.len][n] + 1 = 1
    BY <2>2, ZeroUp, Zenon
  <2>5. Len(Steps(a)) = 1
    BY <1>7, StepsTaken
  <2>6. QED BY <1>2, <1>5, <2>3, <2>4, <2>5, Zenon
<1>8. QED BY <1>0, <1>6, <1>7

\* Wherever the reference store shows what the handler holds, the effect of its
\* step is what it holds after the write.
LEMMA WriteShows ==
    ASSUME HandlersInv, NEW c \in Clients, Active(c), WriteKey(c), NEW store \in Stores,
           store[Serving(c).table] = Shown(held[c])
    PROVE  /\ Effect(Serving(c).action, call[c], store)[Serving(c).table] = NowShown(held[c])
           /\ Consistent(Serving(c).action, call[c], Result("ok", 0), store)
<1> DEFINE n == call[c]
           t == Serving(c).table
           k == Serving(c).key
           h == held[c]
<1>0. PICK a : a = Serving(c).action
  OBVIOUS
<1>1. /\ a \in {"put", "update", "delete"} /\ Serving(c) = calls[n]
      /\ a # "ensure" /\ a # "remove" /\ a # "get" /\ a # "contains" /\ a # "check"
  BY <1>0 DEF WriteKey, Mutations, Serving
<1>2. store[t].there = TRUE
  BY MemoryAt
<1>3. /\ k \in Keys
      /\ \A j \in Keys : j # k => collections'[h][j] = collections[h][j]
      /\ collections'[h][k].value = IF a = "delete" THEN 0 ELSE n
  BY <1>0, WriteGives
<1>4. t \in Tables /\ n \in Nat
  BY OwnCall DEF CallsKnown, Serving
<1>5. PICK v : v = IF a = "delete" THEN 0 ELSE n
  OBVIOUS
<1>6. Effect(a, n, store) = [store EXCEPT ![t].data[k] = v]
  BY <1>1, <1>2, <1>5 DEF Effect
<1>7. /\ store \in [Tables -> [there : BOOLEAN, data : [Keys -> Nat]]]
      /\ store[t].data \in [Keys -> Nat]
  BY <1>4 DEF Stores
<1>8. Effect(a, n, store)[t] = [there |-> TRUE, data |-> [store[t].data EXCEPT ![k] = v]]
  <2>1. Effect(a, n, store)[t] = [store[t] EXCEPT !.data[k] = v]
    BY <1>4, <1>6, <1>7
  <2>2. store[t] \in [there : BOOLEAN, data : [Keys -> Nat]]
    BY <1>4, <1>7
  <2>3. QED BY <1>2, <2>1, <2>2
<1>9. NowShown(h) = [there |-> TRUE, data |-> [store[t].data EXCEPT ![k] = v]]
  <2>1. \A j \in Keys : store[t].data[j] = collections[h][j].value
    BY MemoryAt
  <2>2. \A j \in Keys :
          collections'[h][j].value = [store[t].data EXCEPT ![k] = v][j]
    BY <1>3, <1>5, <1>7, <2>1
  <2>3. [j \in Keys |-> collections'[h][j].value] = [store[t].data EXCEPT ![k] = v]
    BY <1>7, <2>2
  <2>4. QED BY <2>3 DEF NowShown
<1>10. Consistent(a, n, Result("ok", 0), store)
  BY <1>1, <1>2 DEF Consistent
<1>11. QED BY <1>0, <1>8, <1>9, <1>10

\* A write shows in memory exactly when the collection is still its table's.
LEMMA WriteMemory ==
    ASSUME HandlersInv, NEW c \in Clients, Active(c), WriteKey(c),
           Memory \in Stores
    PROVE  /\ tables' = tables
           /\ \A i \in DOMAIN collections : i # held[c] => NowShown(i) = Shown(i)
           /\ DOMAIN collections' = DOMAIN collections
           /\ ~Attached(held[c]) => NowMemory = Memory
           /\ tables[Serving(c).table] = held[c] =>
                Effect(Serving(c).action, call[c], Memory) = NowMemory
<1> DEFINE h == held[c]
           t == Serving(c).table
           E == Effect(Serving(c).action, call[c], Memory)
<1>1. /\ h \in DOMAIN collections /\ DOMAIN collections' = DOMAIN collections
      /\ \A i \in DOMAIN collections : i # h => collections'[i] = collections[i]
  BY WriteGives
<1>2. tables' = tables
  BY DEF WriteKey
<1>3. \A i \in DOMAIN collections : i # h => NowShown(i) = Shown(i)
  BY <1>1 DEF NowShown, Shown
<1>4. \A u \in Tables : tables[u] # 0 => tables[u] \in DOMAIN collections
  <2>1. tables \in [Tables -> 0..Len(collections)] /\ DOMAIN collections = 1..Len(collections)
    BY LenProperties DEF HandlersInv, ServiceTypeOK
  <2>2. QED BY <2>1
<1>5. ASSUME NEW u \in Tables, tables[u] # h
      PROVE  NowMemory[u] = Memory[u]
  BY <1>2, <1>3, <1>4, <1>5 DEF NowMemory, Memory
<1>6. ASSUME ~Attached(h) PROVE NowMemory = Memory
  <2>1. \A u \in Tables : NowMemory[u] = Memory[u]
    BY <1>5, <1>6 DEF Attached
  <2>2. QED BY <2>1 DEF NowMemory, Memory
<1>7. ASSUME tables[t] = h PROVE E = NowMemory
  <2>1. t \in Tables /\ call[c] \in DOMAIN calls /\ CallsKnown /\ t = calls[call[c]].table
    BY OwnCall DEF CallsKnown, Serving
  <2>2. h # 0
    <3>1. DOMAIN collections = 1..Len(collections)
      BY LenProperties DEF HandlersInv, ServiceTypeOK
    <3>2. QED BY <1>1, <3>1
  <2>3. Memory[t] = Shown(h)
    BY <1>7, <2>1, <2>2, MemoryAt
  <2>4. E[t] = NowShown(h)
    BY <2>3, WriteShows
  <2>5. NowMemory[t] = NowShown(h)
    BY <1>2, <1>7, <2>1, <2>2 DEF NowMemory
  <2>6. \A u \in Tables : u # t => tables[u] # h
    BY <1>7, <2>1, <2>2 DEF HandlersInv, PlacesInv
  <2>7. \A u \in Tables : u # t => E[u] = NowMemory[u]
    BY <1>5, <2>1, <2>6, EffectElsewhere
  <2>8. \A u \in Tables : E[u] = NowMemory[u]
    BY <2>4, <2>5, <2>7
  <2>9. E \in Stores
    BY <2>1, EffectTyped
  <2>10. PICK e : e = E
    OBVIOUS
  <2>11. e \in Stores /\ \A u \in Tables : e[u] = NowMemory[u]
    BY <2>8, <2>9, <2>10
  <2> HIDE DEF E
  <2>12. e = NowMemory
    BY <2>11 DEF Stores, NowMemory
  <2>13. QED BY <2>10, <2>12
<1>8. QED BY <1>1, <1>2, <1>3, <1>6, <1>7

\* A write to the collection held is a step at the end, or just before the table's removal,
\* which forgets it.
LEMMA WriteKeyExplained ==
    ASSUME HandlersInv, HandlersInv', NEW c \in Clients, WriteKey(c), ExplainedInv
    PROVE  ExplainedInv'
<1> DEFINE n == call[c]
           t == Serving(c).table
           a == Serving(c).action
           h == held[c]
<1>0. Handle(c) /\ Active(c) /\ pc[c] = "key" /\ GoOn(c, "publish", held[c])
  BY DEF WriteKey, Handle, Active
<1>1. PICK p, told, home, gone : Explained(p, told, home, gone)
  BY DEF ExplainedInv
<1>2. /\ NextIs(p, told, n, a) /\ told[n] = Result("ok", 0)
      /\ p.at[p.len][n] + 1 = Progress("publish", a)
  BY <1>1, WriteIsNext
<1>3. MayTell(p, told, n, told)
  BY Zenon DEF MayTell
<1>4. /\ p.len \in Nat /\ p.store[p.len] = Memory /\ Memory \in Stores
      /\ Story(p, told) /\ Progressed(p, told) /\ Left(p, home, gone)
  <2>1. p.len \in Nat /\ p.store[p.len] = Memory /\ p.store \in [0..p.len -> Stores]
        /\ Story(p, told) /\ Progressed(p, told) /\ Left(p, home, gone)
    BY <1>1 DEF Explained, Story, StoryTyped
  <2>2. p.len \in 0..p.len
    BY <2>1
  <2>3. QED BY <2>1, <2>2
<1>5. PICK r \in 1..p.len + 1 :
        /\ \/ r = p.len + 1 /\ tables[t] = h
           \/ ~Attached(h) /\ r = gone[h] /\ r # p.len + 1
        /\ p.store[r - 1] \in Stores
        /\ p.store[r - 1][t] = Shown(h)
        /\ home[h] = t
        /\ h \in DOMAIN collections /\ h # 0
  BY <1>0, <1>1, HeldStore
<1>6. /\ Effect(a, n, p.store[r - 1])[t] = NowShown(h)
      /\ Consistent(a, n, told[n], p.store[r - 1])
  BY <1>0, <1>2, <1>5, WriteShows
<1>7. Fits(p, told, r, n, a)
  <2>1. CASE r = p.len + 1
    <3>1. (p.len + 1) - 1 = p.len
      BY <1>4, Back, Zenon
    <3>2. Consistent(a, n, told[n], p.store[p.len])
      BY <1>6, <2>1, <3>1, Zenon
    <3>3. QED BY <1>0, <1>2, <1>3, <1>4, <2>1, <3>2, FitsAtEnd, Zenon
  <2>2. CASE ~Attached(h) /\ r = gone[h]
    BY <1>0, <1>1, <1>2, <1>3, <1>6, <2>2, FitsBefore, Zenon
  <2>3. QED BY <1>5, <2>1, <2>2
<1>8. /\ tables' = tables /\ DOMAIN collections' = DOMAIN collections
      /\ \A i \in DOMAIN collections : i # h => NowShown(i) = Shown(i)
      /\ ~Attached(h) => NowMemory = Memory
      /\ tables[t] = h => Effect(a, n, Memory) = NowMemory
  BY <1>0, <1>4, WriteMemory
<1>9. PICK gone2 : \A i \in DOMAIN collections : gone2[i] = Shifted(gone[i], r)
  <2> DEFINE d == [i \in DOMAIN collections |-> Shifted(gone[i], r)]
  <2>1. \A i \in DOMAIN collections : d[i] = Shifted(gone[i], r)
    OBVIOUS
  <2>2. QED BY <2>1
<1>10. LeftChanges(p, r, n, a, home, gone, home, gone2)
  <2>1. \A u \in Tables : tables'[u] # 0 => home[tables'[u]] = u
    BY <1>4, <1>8 DEF Left
  <2>2. ASSUME NEW i \in DOMAIN collections', ~NowAttached(i)
        PROVE  /\ i \in DOMAIN collections /\ ~Attached(i)
               /\ gone2[i] = Shifted(gone[i], r)
               /\ gone[i] # r => NowShown(i) = Shown(i)
               /\ gone[i] = r => NowShown(i) = Effect(a, n, p.store[r - 1])[home[i]]
    <3>1. i \in DOMAIN collections /\ ~Attached(i)
      BY <1>8, <2>2 DEF Attached, NowAttached
    <3>2. gone[i] \in 1..p.len
      BY <1>4, <3>1 DEF Left
    <3>3. CASE gone[i] = r
      <4>1. r # p.len + 1
        BY <1>4, <3>2, <3>3
      <4>2. i = h
        BY <1>4, <1>5, <3>1, <3>3, <4>1 DEF Left
      <4>3. QED BY <1>5, <1>6, <1>9, <3>1, <3>3, <4>2, Zenon
    <3>4. CASE gone[i] # r
      <4>1. t \in Tables
        BY <1>0, OwnCall DEF CallsKnown, Serving
      <4>2. i # h
        BY <1>5, <3>1, <3>4, <4>1 DEF Attached
      <4>3. QED BY <1>8, <1>9, <3>1, <3>4, <4>2, Zenon
    <3>5. QED BY <3>3, <3>4
  <2>3. QED BY <2>1, <2>2, Zenon DEF LeftChanges
<1>11. pc'[c] = "publish" /\ held'[c] = h /\ UNCHANGED calls
  BY <1>0, GoOnGives
<1>12. Outcome(c, told, p.at[p.len][n] + 1)
  <2>1. pc'[c] # "idle" /\ pc'[c] # "remove" /\ pc'[c] # "key"
    BY <1>11
  <2>2. told[n] = Result("ok", IF pc'[c] = "remove" THEN held'[c] ELSE 0)
    BY <1>2, <2>1
  <2>3. Outcome(c, told, Progress(pc'[c], a))
    BY <1>11, <2>1, <2>2, WentOn, Zenon
  <2>4. QED BY <1>2, <1>11, <2>3, Zenon
<1>13. r = p.len + 1 => Effect(a, n, p.store[p.len]) = NowMemory
  BY <1>4, <1>5, <1>8
<1>14. r # p.len + 1 => p.store[p.len] = NowMemory
  BY <1>4, <1>5, <1>8
<1>15. pc'[c] # "key" /\ DOMAIN collections \subseteq DOMAIN collections'
  BY <1>8, <1>11
<1>16. QED
  BY <1>0, <1>1, <1>3, <1>7, <1>10, <1>12, <1>13, <1>14, <1>15, StepExplained

-----------------------------------------------------------------------------
(* The handlers that publish, create and remove.                            *)

\* Neither publishing nor answering is a step: the call has taken all of its
\* steps before.
LEMMA PublishExplained ==
    ASSUME HandlersInv, HandlersInv', NEW c \in Clients, Publish(c), ExplainedInv
    PROVE  ExplainedInv'
<1> DEFINE n == call[c]
           a == Serving(c).action
<1>0. /\ Handle(c) /\ Active(c) /\ UNCHANGED memoryVars
      /\ pc[c] = "publish" /\ pc[c] # "remove" /\ GoOn(c, "answer", held[c])
  BY DEF Publish, Handle, Active
<1>1. PICK p, told, home, gone : Explained(p, told, home, gone)
  BY DEF ExplainedInv
<1>2. p.at[p.len][n] = Progress(pc[c], a) /\ told[n] = Promise(c)
  BY <1>0, <1>1, HandlerAt, Zenon
<1>3. pc'[c] = "answer" /\ held'[c] = held[c] /\ UNCHANGED calls
  BY <1>0, GoOnGives
<1>4. pc'[c] # "idle" /\ pc'[c] # "remove" /\ pc'[c] # "key"
  BY <1>3
<1>5. told[n] = Result("ok", IF pc'[c] = "remove" THEN held'[c] ELSE 0)
  BY <1>0, <1>2, <1>4 DEF Promise
<1>6. Outcome(c, told, Progress(pc'[c], a))
  BY <1>3, <1>4, <1>5, WentOn, Zenon
<1>7. Progress("answer", a) = Progress("publish", a)
  BY DEF Progress
<1>8. Outcome(c, told, p.at[p.len][n])
  BY <1>0, <1>2, <1>3, <1>6, <1>7, Zenon
<1>9. QED BY <1>0, <1>1, <1>4, <1>8, StillExplained

LEMMA AnswerExplained ==
    ASSUME HandlersInv, HandlersInv', NEW c \in Clients, Answer(c), ExplainedInv
    PROVE  ExplainedInv'
<1> DEFINE n == call[c]
           a == Serving(c).action
<1>0. /\ Handle(c) /\ Active(c) /\ UNCHANGED memoryVars
      /\ pc[c] = "answer" /\ pc[c] # "remove" /\ Return(c, "ok", 0)
  BY DEF Answer, Handle, Active
<1>1. PICK p, told, home, gone : Explained(p, told, home, gone)
  BY DEF ExplainedInv
<1>2. p.at[p.len][n] = Progress(pc[c], a) /\ told[n] = Promise(c)
  BY <1>0, <1>1, HandlerAt, Zenon
<1>3. PICK r : r = Result("ok", 0) /\ r.tag = "ok"
  BY ResultTag, Zenon
<1>4. told[n] = r
  BY <1>0, <1>2, <1>3 DEF Promise
<1>5. calls'[n].result = r
  BY <1>0, <1>3, ReturnGives, Zenon
<1>6. p.at[p.len][n] = Len(StepsWith(a, told[n].tag))
  <2>1. Progress("answer", a) = Len(Steps(a)) /\ StepsWith(a, "ok") = Steps(a)
    BY DEF Progress, StepsWith
  <2>2. QED BY <1>0, <1>2, <1>3, <1>4, <2>1, Zenon
<1>7. Outcome(c, told, p.at[p.len][n]) /\ pc'[c] # "key"
  <2>1. pc'[c] = "idle"
    BY <1>0, ReturnGives, Zenon
  <2>2. QED BY <1>4, <1>5, <1>6, <2>1, Answered, Zenon
<1>8. QED BY <1>0, <1>1, <1>7, StillExplained

\* What making sure of a table does.
LEMMA EnsureMemory ==
    ASSUME HandlersInv, HandlersInv', NEW c \in Clients, Active(c),
           CreateTable(Serving(c).table), Memory \in Stores,
           NEW p, p.len \in Nat, NEW home, NEW gone, Left(p, home, gone)
    PROVE  /\ DOMAIN collections \subseteq DOMAIN collections'
           /\ Effect("ensure", call[c], Memory) = NowMemory
           /\ NowAttached(tables'[Serving(c).table])
           /\ \E home2, gone2 :
                /\ LeftChanges(p, p.len + 1, call[c], "ensure", home, gone, home2, gone2)
                /\ home2[tables'[Serving(c).table]] = Serving(c).table
<1> DEFINE t == Serving(c).table
           n == call[c]
           N == Len(collections)
<1>1. t \in Tables /\ n \in DOMAIN calls /\ CallsKnown /\ t = calls[n].table
  BY OwnCall DEF CallsKnown, Serving
<1>2. /\ \A u \in Tables : u # t => tables'[u] = tables[u]
      /\ \A h \in DOMAIN collections : collections'[h] = collections[h]
      /\ tables[t] # 0 => tables'[t] = tables[t]
      /\ tables[t] = 0 => /\ tables'[t] = N + 1
                          /\ collections'[N + 1] = EmptyCollection
      /\ N \in Nat /\ DOMAIN collections = 1..N
      /\ \A u \in Tables : tables[u] \in 0..N
  BY <1>1, TableCreated DEF HandlersInv
<1>3. PICK gone2 : \A i \in DOMAIN collections : gone2[i] = Shifted(gone[i], p.len + 1)
  <2> DEFINE d == [i \in DOMAIN collections |-> Shifted(gone[i], p.len + 1)]
  <2>1. \A i \in DOMAIN collections : d[i] = Shifted(gone[i], p.len + 1)
    OBVIOUS
  <2>2. QED BY <2>1
<1>4. NowAttached(tables'[t])
  BY <1>1 DEF NowAttached
<1>5. PICK E : E = Effect("ensure", n, Memory)
  OBVIOUS
<1>6. /\ Memory[t] = IF tables[t] = 0 THEN Absent ELSE Shown(tables[t])
      /\ Absent.there = FALSE /\ (tables[t] # 0 => Shown(tables[t]).there = TRUE)
  BY <1>1, MemoryAt
<1>7. CASE tables[t] # 0
  <2>1. UNCHANGED memoryVars
    BY <1>7 DEF CreateTable
  <2>2. E = Memory
    BY <1>1, <1>5, <1>6, <1>7 DEF Effect
  <2>3. NowMemory = Memory
    BY <2>1 DEF NowMemory, Memory, NowShown, Shown, memoryVars
  <2>4. LeftChanges(p, p.len + 1, n, "ensure", home, gone, home, gone2)
    <3>1. p.len + 1 \in 1..p.len =>
            Effect("ensure", n, p.store[(p.len + 1) - 1]) = p.store[(p.len + 1) - 1]
      OBVIOUS
    <3>2. QED BY <1>3, <2>1, <3>1, LeftStays
  <2>5. home[tables'[t]] = t
    BY <1>1, <1>2, <1>7 DEF Left
  <2>6. DOMAIN collections \subseteq DOMAIN collections'
    BY <2>1 DEF memoryVars
  <2>7. QED BY <1>4, <1>5, <2>2, <2>3, <2>4, <2>5, <2>6
<1>8. CASE tables[t] = 0
  <2>1. DOMAIN collections' = 1..N + 1
    <3>1. collections' = Append(collections, EmptyCollection)
          /\ collections \in Seq([Keys -> RecordType])
      BY <1>8 DEF CreateTable, HandlersInv, ServiceTypeOK
    <3>2. EmptyCollection \in [Keys -> RecordType]
      BY DEF EmptyCollection, NoRecord, RecordType
    <3>3. Len(collections') = N + 1 /\ collections' \in Seq([Keys -> RecordType])
      BY <3>1, <3>2, AppendProperties
    <3>4. QED BY <3>3, LenProperties
  <2>2. E = NowMemory
    <3>1. E = [Memory EXCEPT ![t] = Present]
      BY <1>1, <1>5, <1>6, <1>8 DEF Effect
    <3>2. NowMemory[t] = Present
      <4>1. NowMemory[t] = NowShown(N + 1)
        BY <1>1, <1>2, <1>8 DEF NowMemory
      <4>2. \A k \in Keys : collections'[N + 1][k].value = 0
        BY <1>2, <1>8 DEF EmptyCollection, NoRecord
      <4>3. NowShown(N + 1) = Present
        BY <4>2 DEF NowShown, Present
      <4>4. QED BY <4>1, <4>3
    <3>3. ASSUME NEW u \in Tables, u # t PROVE NowMemory[u] = Memory[u]
      <4>1. tables'[u] = tables[u] /\ (tables[u] # 0 => tables[u] \in DOMAIN collections)
        BY <1>2, <3>3
      <4>2. tables[u] # 0 => NowShown(tables[u]) = Shown(tables[u])
        BY <1>2, <4>1 DEF NowShown, Shown
      <4>3. QED BY <4>1, <4>2 DEF NowMemory, Memory
    <3>4. \A u \in Tables : E[u] = NowMemory[u]
      BY <1>1, <3>1, <3>2, <3>3 DEF Memory
    <3>5. E = [u \in Tables |-> E[u]]
      BY <3>1 DEF Memory
    <3>6. QED BY <3>4, <3>5 DEF NowMemory
  <2>3. PICK home2 : /\ \A i \in DOMAIN collections : home2[i] = home[i]
                     /\ home2[N + 1] = t
    <3> DEFINE d == [i \in 1..N + 1 |-> IF i \in DOMAIN collections THEN home[i] ELSE t]
    <3>1. /\ \A i \in DOMAIN collections : i \in 1..N + 1
          /\ N + 1 \in 1..N + 1 /\ N + 1 \notin DOMAIN collections
      BY <1>2
    <3>2. /\ \A i \in DOMAIN collections : d[i] = home[i]
          /\ d[N + 1] = t
      BY <3>1
    <3>3. QED BY <3>2
  <2>4. \A u \in Tables : tables'[u] # 0 => home2[tables'[u]] = u
    <3>1. ASSUME NEW u \in Tables, u # t, tables'[u] # 0 PROVE home2[tables'[u]] = u
      <4>1. tables'[u] = tables[u] /\ tables[u] \in DOMAIN collections
        BY <1>2, <3>1
      <4>2. QED BY <2>3, <3>1, <4>1 DEF Left
    <3>2. QED BY <1>2, <1>8, <2>3, <3>1
  <2>5. ASSUME NEW i \in DOMAIN collections', ~NowAttached(i)
        PROVE  /\ i \in DOMAIN collections /\ ~Attached(i)
               /\ gone2[i] = Shifted(gone[i], p.len + 1)
               /\ gone[i] # p.len + 1
               /\ NowShown(i) = Shown(i)
    <3>1. i # N + 1
      BY <1>1, <1>2, <1>8, <2>5 DEF NowAttached
    <3>2. i \in DOMAIN collections /\ i # 0
      BY <1>2, <2>1, <3>1
    <3>3. ~Attached(i)
      BY <1>2, <1>8, <2>5, <3>2 DEF Attached, NowAttached
    <3>4. gone[i] \in 1..p.len
      BY <3>2, <3>3 DEF Left
    <3>5. NowShown(i) = Shown(i)
      BY <1>2, <3>2 DEF NowShown, Shown
    <3>6. QED BY <1>3, <3>2, <3>3, <3>4, <3>5
  <2>6. LeftChanges(p, p.len + 1, n, "ensure", home, gone, home2, gone2)
    BY <2>3, <2>4, <2>5, Zenon DEF LeftChanges
  <2>7. home2[tables'[t]] = t
    BY <1>2, <1>8, <2>3
  <2>8. DOMAIN collections \subseteq DOMAIN collections'
    BY <1>2, <2>1
  <2>9. QED BY <1>4, <1>5, <2>2, <2>6, <2>7, <2>8
<1>9. QED BY <1>7, <1>8

\* The rule for making sure of a table: a step at the end.
LEMMA EnsureExplained ==
    ASSUME HandlersInv, HandlersInv', NEW c \in Clients, Handle(c), Active(c),
           CreateTable(Serving(c).table),
           NEW p, NEW told, NEW home, NEW gone, Explained(p, told, home, gone),
           NextIs(p, told, call[c], "ensure"),
           Outcome(c, told, p.at[p.len][call[c]] + 1),
           pc'[c] = "key" => held'[c] = tables'[Serving(c).table]
    PROVE  ExplainedInv'
<1> DEFINE n == call[c]
           t == Serving(c).table
<1>1. /\ p.len \in Nat /\ p.store[p.len] = Memory /\ Memory \in Stores
      /\ Story(p, told) /\ Progressed(p, told) /\ Left(p, home, gone)
  <2>1. p.len \in Nat /\ p.store[p.len] = Memory /\ p.store \in [0..p.len -> Stores]
        /\ Story(p, told) /\ Progressed(p, told) /\ Left(p, home, gone)
    BY DEF Explained, Story, StoryTyped
  <2>2. p.len \in 0..p.len
    BY <2>1
  <2>3. QED BY <2>1, <2>2
<1>2. MayTell(p, told, n, told)
  BY Zenon DEF MayTell
<1>3. Consistent("ensure", n, told[n], p.store[p.len])
  BY DEF Consistent
<1>4. Fits(p, told, p.len + 1, n, "ensure")
  BY <1>1, <1>2, <1>3, FitsAtEnd, Zenon
<1>5. /\ DOMAIN collections \subseteq DOMAIN collections'
      /\ Effect("ensure", n, Memory) = NowMemory
      /\ NowAttached(tables'[t])
  BY <1>1, EnsureMemory
<1>6. PICK home2, gone2 :
        /\ LeftChanges(p, p.len + 1, n, "ensure", home, gone, home2, gone2)
        /\ home2[tables'[t]] = t
  BY <1>1, EnsureMemory
<1>7. pc'[c] = "key" => NowAttached(held'[c]) /\ home2[held'[c]] = t
  BY <1>5, <1>6, Zenon
<1>8. Effect("ensure", n, p.store[p.len]) = NowMemory
  BY <1>1, <1>5, Zenon
<1>9. PICK r : r = p.len + 1
  OBVIOUS
<1>10. QED
  BY <1>2, <1>4, <1>5, <1>6, <1>7, <1>8, <1>9, StepExplained

\* put makes sure of its table in a step at the end.
LEMMA PutCreatesTableExplained ==
    ASSUME HandlersInv, HandlersInv', NEW c \in Clients, PutCreatesTable(c), ExplainedInv
    PROVE  ExplainedInv'
<1> DEFINE n == call[c]
           t == Serving(c).table
<1>0. /\ Handle(c) /\ Active(c) /\ pc[c] = "table" /\ pc[c] # "remove"
      /\ Serving(c).action = "put" /\ CreateTable(t) /\ GoOn(c, "key", tables'[t])
  BY DEF PutCreatesTable, Handle, Active
<1>1. PICK p, told, home, gone : Explained(p, told, home, gone)
  BY DEF ExplainedInv
<1>2. /\ p.at[p.len][n] = Progress(pc[c], Serving(c).action) /\ told[n] = Promise(c)
      /\ Serving(c) = calls[n]
  BY <1>0, <1>1, HandlerAt, Zenon
<1>3. PICK r : r = Result("ok", 0) /\ r.tag = "ok"
  BY ResultTag, Zenon
<1>4. told[n] = r
  BY <1>0, <1>2, <1>3 DEF Promise
<1>5. p.at[p.len][n] = 0
  <2>1. Progress("table", "put") = 0
    BY DEF Progress
  <2>2. QED BY <1>0, <1>2, <2>1, Zenon
<1>6. NextIs(p, told, n, "ensure")
  <2>1. told[n].tag = "ok" /\ calls[n].action = "put"
    BY <1>0, <1>2, <1>3, <1>4, Zenon
  <2>2. QED BY <1>5, <2>1, EnsureIsNext, Zenon
<1>7. pc'[c] = "key" /\ held'[c] = tables'[t] /\ UNCHANGED calls
  BY <1>0, GoOnGives
<1>8. Outcome(c, told, p.at[p.len][n] + 1)
  <2>1. pc'[c] # "idle" /\ pc'[c] # "remove"
    BY <1>7
  <2>2. r = Result("ok", IF pc'[c] = "remove" THEN held'[c] ELSE 0)
    BY <1>3, <2>1
  <2>3. Outcome(c, told, Progress(pc'[c], Serving(c).action))
    BY <1>4, <1>7, <2>1, <2>2, WentOn, Zenon
  <2>4. p.at[p.len][n] + 1 = 1
    BY <1>5, ZeroUp, Zenon
  <2>5. Progress("key", "put") = 1
    BY DEF Progress
  <2>6. QED BY <1>0, <1>7, <2>3, <2>4, <2>5, Zenon
<1>9. QED BY <1>0, <1>1, <1>6, <1>7, <1>8, EnsureExplained

\* add_table makes sure of its table in a step at the end.
LEMMA AddTableCreatesExplained ==
    ASSUME HandlersInv, HandlersInv', NEW c \in Clients, AddTableCreates(c), ExplainedInv
    PROVE  ExplainedInv'
<1> DEFINE n == call[c]
           t == Serving(c).table
<1>0. /\ Handle(c) /\ Active(c) /\ pc[c] = "create" /\ pc[c] # "remove"
      /\ Serving(c).action = "add_table" /\ CreateTable(t) /\ Return(c, "ok", 0)
  BY DEF AddTableCreates, Handle, Active, HandlersInv, PlacesInv
<1>1. PICK p, told, home, gone : Explained(p, told, home, gone)
  BY DEF ExplainedInv
<1>2. /\ p.at[p.len][n] = Progress(pc[c], Serving(c).action) /\ told[n] = Promise(c)
      /\ Serving(c) = calls[n]
  BY <1>0, <1>1, HandlerAt, Zenon
<1>3. PICK r : r = Result("ok", 0) /\ r.tag = "ok"
  BY ResultTag, Zenon
<1>4. told[n] = r
  BY <1>0, <1>2, <1>3 DEF Promise
<1>5. p.at[p.len][n] = 1
  <2>1. Progress("create", "add_table") = 1
    BY DEF Progress
  <2>2. QED BY <1>0, <1>2, <2>1, Zenon
<1>6. NextIs(p, told, n, "ensure")
  <2>1. told[n].tag = "ok" /\ calls[n].action = "add_table"
    BY <1>0, <1>2, <1>3, <1>4, Zenon
  <2>2. QED BY <1>5, <2>1, EnsureIsNext, Zenon
<1>7. pc'[c] = "idle" /\ calls'[n].result = r
  BY <1>0, <1>3, ReturnGives, Zenon
<1>8. Outcome(c, told, p.at[p.len][n] + 1) /\ pc'[c] # "key"
  <2>1. p.at[p.len][n] + 1 = Len(StepsWith("add_table", "ok"))
    BY <1>5, OneUp, StepsTaken, Zenon
  <2>2. p.at[p.len][n] + 1 = Len(StepsWith(Serving(c).action, told[n].tag))
    BY <1>0, <1>3, <1>4, <2>1, Zenon
  <2>3. QED BY <1>4, <1>7, <2>2, Answered, Zenon
<1>9. QED BY <1>0, <1>1, <1>6, <1>8, EnsureExplained

\* remove_table takes its second step at the end: from now on it is the step that removed
\* the table's collection.
LEMMA RemoveTableRemovesExplained ==
    ASSUME HandlersInv, HandlersInv', NEW c \in Clients, RemoveTableRemoves(c), ExplainedInv
    PROVE  ExplainedInv'
<1> DEFINE n == call[c]
           t == Serving(c).table
<1>0. /\ Handle(c) /\ Active(c) /\ pc[c] = "remove"
      /\ Serving(c).action = "remove_table"
      /\ tables' = [tables EXCEPT ![t] = 0] /\ collections' = collections
      /\ Return(c, "ok", held[c])
  BY DEF RemoveTableRemoves, Handle, Active, HandlersInv, PlacesInv
<1>1. PICK p, told, home, gone : Explained(p, told, home, gone)
  BY DEF ExplainedInv
<1>2. /\ p.at[p.len][n] = Progress(pc[c], Serving(c).action) /\ told[n] = Promise(c)
      /\ Serving(c) = calls[n]
  BY <1>0, <1>1, HandlerAt, Zenon
<1>3. PICK r : r = Result("ok", held[c]) /\ r.tag = "ok"
  BY ResultTag, Zenon
<1>4. told[n] = r
  BY <1>0, <1>2, <1>3 DEF Promise
<1>5. p.at[p.len][n] = 1
  <2>1. Progress("remove", "remove_table") = 1
    BY DEF Progress
  <2>2. QED BY <1>0, <1>2, <2>1, Zenon
<1>6. NextIs(p, told, n, "remove")
  <2>1. told[n].tag = "ok" /\ calls[n].action = "remove_table"
    BY <1>0, <1>2, <1>3, <1>4, Zenon
  <2>2. QED BY <1>5, <2>1, LastIsNext, Zenon
<1>7. pc'[c] = "idle" /\ calls'[n].result = r
  BY <1>0, <1>3, ReturnGives, Zenon
<1>8. Outcome(c, told, p.at[p.len][n] + 1) /\ pc'[c] # "key"
  <2>1. p.at[p.len][n] + 1 = Len(StepsWith("remove_table", "ok"))
    BY <1>5, OneUp, StepsTaken, Zenon
  <2>2. p.at[p.len][n] + 1 = Len(StepsWith(Serving(c).action, told[n].tag))
    BY <1>0, <1>3, <1>4, <2>1, Zenon
  <2>3. QED BY <1>4, <1>7, <2>2, Answered, Zenon
<1>9. /\ p.len \in Nat /\ p.store[p.len] = Memory
      /\ Story(p, told) /\ Progressed(p, told) /\ Left(p, home, gone)
  BY <1>1 DEF Explained, Story, StoryTyped
<1>10. MayTell(p, told, n, told)
  BY Zenon DEF MayTell
<1>11. Fits(p, told, p.len + 1, n, "remove")
  <2>1. Consistent("remove", n, told[n], p.store[p.len])
    BY DEF Consistent
  <2>2. QED BY <1>0, <1>6, <1>9, <1>10, <2>1, FitsAtEnd, Zenon
<1>12. t \in Tables /\ n \in DOMAIN calls /\ CallsKnown /\ t = calls[n].table
  BY <1>0, OwnCall DEF CallsKnown, Serving
<1>13. tables \in [Tables -> 0..Len(collections)] /\ DOMAIN collections = 1..Len(collections)
  BY LenProperties DEF HandlersInv, ServiceTypeOK
<1>14. /\ tables'[t] = 0 /\ \A u \in Tables : u # t => tables'[u] = tables[u]
       /\ \A i : NowShown(i) = Shown(i)
       /\ DOMAIN collections' = DOMAIN collections
       /\ 0 \notin DOMAIN collections
  BY <1>0, <1>12, <1>13 DEF NowShown, Shown
<1>15. Effect("remove", n, Memory) = NowMemory
  <2>1. Effect("remove", n, Memory) = [Memory EXCEPT ![t] = Absent]
    BY <1>12 DEF Effect
  <2>2. \A u \in Tables : [Memory EXCEPT ![t] = Absent][u] = NowMemory[u]
    BY <1>12, <1>14 DEF Memory, NowMemory
  <2>3. [Memory EXCEPT ![t] = Absent] = NowMemory
    BY <2>2 DEF Memory, NowMemory
  <2>4. QED BY <2>1, <2>3
<1>16. PICK gone2 : \A i \in DOMAIN collections :
         gone2[i] = IF i = tables[t] THEN p.len + 1 ELSE Shifted(gone[i], p.len + 1)
  <2> DEFINE d == [i \in DOMAIN collections |->
                     IF i = tables[t] THEN p.len + 1 ELSE Shifted(gone[i], p.len + 1)]
  <2>1. \A i \in DOMAIN collections :
          d[i] = IF i = tables[t] THEN p.len + 1 ELSE Shifted(gone[i], p.len + 1)
    OBVIOUS
  <2>2. QED BY <2>1
<1>17. LeftChanges(p, p.len + 1, n, "remove", home, gone, home, gone2)
  <2>1. \A u \in Tables : tables'[u] # 0 => home[tables'[u]] = u
    BY <1>9, <1>14 DEF Left
  <2>2. ASSUME NEW i \in DOMAIN collections', ~NowAttached(i), i # tables[t]
        PROVE  /\ i \in DOMAIN collections /\ ~Attached(i)
               /\ gone2[i] = Shifted(gone[i], p.len + 1)
               /\ gone[i] # p.len + 1
               /\ NowShown(i) = Shown(i)
    <3>1. i \in DOMAIN collections /\ ~Attached(i)
      BY <1>14, <2>2 DEF Attached, NowAttached
    <3>2. gone[i] \in 1..p.len
      BY <1>9, <3>1 DEF Left
    <3>3. gone[i] # p.len + 1
      BY <1>9, <3>2
    <3>4. QED BY <1>14, <1>16, <2>2, <3>1, <3>3
  <2>3. ASSUME NEW i \in DOMAIN collections', ~NowAttached(i), i = tables[t]
        PROVE  /\ i \in DOMAIN collections
               /\ gone2[i] = p.len + 1
               /\ tables[calls[n].table] = i /\ home[i] = calls[n].table
               /\ NowShown(i) = p.store[p.len][home[i]]
    <3>1. i \in DOMAIN collections /\ i # 0 /\ i = tables[t]
      BY <1>14, <2>3
    <3>2. home[i] = t
      BY <1>9, <1>12, <3>1 DEF Left
    <3>3. Memory[t] = Shown(i)
      BY <1>12, <3>1, MemoryAt
    <3>4. gone2[i] = p.len + 1
      BY <1>16, <3>1
    <3>5. NowShown(i) = Shown(i)
      BY <1>14
    <3>6. QED BY <1>9, <1>12, <3>1, <3>2, <3>3, <3>4, <3>5, Zenon
  <2>4. \A i \in DOMAIN collections : home[i] = home[i]
    OBVIOUS
  <2>5. QED BY <2>1, <2>2, <2>3, <2>4, Zenon DEF LeftChanges
<1>18. DOMAIN collections \subseteq DOMAIN collections'
  BY <1>14
<1>19. Effect("remove", n, p.store[p.len]) = NowMemory
  BY <1>9, <1>15, Zenon
<1>20. QED
  BY <1>0, <1>1, <1>8, <1>10, <1>11, <1>17, <1>18, <1>19, StepExplained

-----------------------------------------------------------------------------
(* Requests that arrive, and steps of the dispatcher.                       *)

\* A step that leaves the memory and what handlers do with it alone.
LEMMA SameMemory ==
    ASSUME HandlersInv, NEW p, NEW told, NEW home, NEW gone, Explained(p, told, home, gone),
           UNCHANGED <<tables, collections, held>>,
           \A n \in DOMAIN calls : n \in DOMAIN calls' /\ calls'[n] = calls[n],
           \A d \in Clients : pc'[d] = "key" => pc[d] = "key" /\ call'[d] = call[d]
    PROVE  p.store[p.len] = Memory' /\ Left(p, home, gone)' /\ Holders(p, home, gone)'
<1>0. /\ Story(p, told) /\ p.store[p.len] = Memory
      /\ Left(p, home, gone) /\ Holders(p, home, gone)
  BY DEF Explained
<1>1. tables' = tables /\ collections' = collections /\ held' = held
  OBVIOUS
<1>2. p.store[p.len] = Memory'
  BY <1>0, <1>1 DEF Memory, Shown
<1>3. Left(p, home, gone)'
  <2>1. \A m \in 1..p.len : p.who[m] \in DOMAIN calls
    BY <1>0 DEF Story, StoryTyped
  <2>2. \A h \in DOMAIN collections : ~Attached(h) =>
          calls'[p.who[gone[h]]].table = calls[p.who[gone[h]]].table
    BY <1>0, <2>1 DEF Left
  <2>3. QED BY <1>0, <1>1, <2>2 DEF Left, Attached, Shown
<1>4. ASSUME NEW d \in Clients, pc'[d] = "key"
      PROVE  /\ home[held'[d]] = calls'[call'[d]].table
             /\ ~Attached(held'[d]) =>
                  \A m \in calls'[call'[d]].before \cup {call'[d]} :
                    \A i \in gone[held'[d]] - 1..p.len : p.at[i][m] = p.at[p.len][m]
  <2>1. pc[d] = "key" /\ Active(d) /\ call'[d] = call[d]
    BY <1>4 DEF Active
  <2>2. call[d] \in DOMAIN calls
    BY <2>1, OwnCall
  <2>3. calls'[call'[d]] = Serving(d)
    BY <2>1, <2>2 DEF Serving
  <2>4. /\ home[held[d]] = Serving(d).table
        /\ ~Attached(held[d]) => Settled(p, gone[held[d]], call[d])
    BY <1>0, <2>1 DEF Holders
  <2>5. QED BY <1>1, <2>1, <2>3, <2>4 DEF Settled, Serving
<1>5. Holders(p, home, gone)'
  BY <1>1, <1>4 DEF Holders, Settled, Serving, Attached
<1>6. QED BY <1>2, <1>3, <1>5

\* A call that is received has no step yet, or is refused and never has one.
LEMMA ReceiveExplained ==
    ASSUME HandlersInv, NEW c \in Clients, NEW a \in Actions, NEW t \in Tables, NEW k \in Keys,
           Receive(c, a, t, k), ExplainedInv
    PROVE  ExplainedInv'
<1> DEFINE N == Len(calls) + 1
<1>0. ServiceTypeOK /\ HandlerInv /\ CallsKnown
  BY AreKnown DEF HandlersInv
<1>1. /\ UNCHANGED <<tables, collections, held>>
      /\ DOMAIN calls' = DOMAIN calls \cup {N}
      /\ \A n \in DOMAIN calls : calls'[n] = calls[n]
      /\ call'[c] = N /\ N \notin DOMAIN calls /\ ~Active(c)
      /\ \A d \in Clients : d # c => pc'[d] = pc[d] /\ call'[d] = call[d]
  BY <1>0, ReceiveFields
<1>2. PICK r : r = IF Allowed(a, t) THEN Result("ok", 0) ELSE Result("refused", 0)
  OBVIOUS
<1>3. /\ pc'[c] = IF Allowed(a, t) THEN "table" ELSE "idle"
      /\ calls'[N].result = IF Allowed(a, t) THEN Unfinished ELSE Result("refused", 0)
      /\ N \in Nat
  <2> DEFINE R == IF Allowed(a, t) THEN Unfinished ELSE Result("refused", 0)
             m == [action |-> a, table |-> t, key |-> k, before |-> Finished, result |-> R]
  <2>1. calls' = Append(calls, m) /\ pc \in [Clients -> HandlerPcs]
        /\ pc' = [pc EXCEPT ![c] = IF Allowed(a, t) THEN "table" ELSE "idle"]
    BY <1>0 DEF Receive, ServiceTypeOK
  <2>2. calls \in Seq(CallType) /\ m \in CallType /\ Len(calls) \in Nat
    <3>1. Finished \subseteq Nat
      BY <1>0, LenProperties DEF Finished, ServiceTypeOK
    <3>2. QED BY <1>0, <3>1, LenProperties DEF CallType, Unfinished, Result, Tags, ServiceTypeOK
  <2>3. calls'[N] = m
    BY <2>1, <2>2, AppendProperties
  <2> HIDE DEF R
  <2>4. calls'[N].result = R
    BY <2>3
  <2>5. QED BY <2>1, <2>2, <2>4 DEF R
<1>4. PICK p, told, home, gone : Explained(p, told, home, gone)
  BY DEF ExplainedInv
<1>5. Story(p, told) /\ Progressed(p, told)
  BY <1>4 DEF Explained
<1>6. p.at[p.len][N] = 0
  BY <1>1, <1>3, <1>5 DEF Progressed
<1>7. PICK told2 : OnlyTold(told, N, r, told2)
  <2>1. DOMAIN calls \subseteq Nat
    BY <1>0 DEF CallsKnown
  <2>2. QED BY <1>3, <2>1, Tell, Zenon
<1>8. told2[N] = r /\ \A m \in DOMAIN calls : told2[m] = told[m]
  <2>1. \A m \in DOMAIN calls : m # N
    BY <1>1
  <2>2. QED BY <1>7, <2>1, Zenon DEF OnlyTold
<1>9. Story(p, told2)
  <2>1. \A m \in DOMAIN calls : N \notin calls[m].before
    BY <1>0, <1>1 DEF CallsKnown
  <2>2. QED BY <1>0, <1>3, <1>5, <1>6, <1>8, <2>1, Retold
<1>10. Story(p, told2)'
  <2>1. \A n \in DOMAIN calls : /\ n \in DOMAIN calls'
                                /\ calls'[n].action = calls[n].action
                                /\ calls'[n].table = calls[n].table
                                /\ calls'[n].key = calls[n].key
                                /\ calls'[n].before = calls[n].before
    BY <1>1
  <2>2. QED BY <1>0, <1>9, <2>1, StoryStays
<1>11. ASSUME NEW m \in Nat, m \notin DOMAIN calls' PROVE p.at[p.len][m] = 0
  BY <1>1, <1>5, <1>11 DEF Progressed
<1>12. ASSUME NEW m \in DOMAIN calls', calls'[m].result # Unfinished
       PROVE  /\ told2[m] = calls'[m].result
              /\ p.at[p.len][m] = Len(StepsWith(calls'[m].action, calls'[m].result.tag))
  <2>1. CASE m \in DOMAIN calls
    <3>1. calls'[m] = calls[m] /\ m \in Finished /\ told2[m] = told[m]
      BY <1>1, <1>8, <1>12, <2>1 DEF Finished
    <3>2. QED BY <1>5, <3>1 DEF Progressed, StepsOf
  <2>2. CASE m = N
    <3>1. ~Allowed(a, t) /\ calls'[N].result = Result("refused", 0)
      BY <1>3, <1>12, <2>2
    <3>2. told2[m] = calls'[m].result
      BY <1>2, <1>8, <2>2, <3>1
    <3>3. PICK b : b = calls'[m].action
      OBVIOUS
    <3>4. Len(StepsWith(b, "refused")) = 0
      BY DEF StepsWith
    <3>5. Result("refused", 0).tag = "refused"
      BY DEF Result
    <3>6. Len(StepsWith(b, calls'[m].result.tag)) = 0
      BY <2>2, <3>1, <3>4, <3>5, Zenon
    <3>7. QED BY <1>6, <2>2, <3>2, <3>3, <3>6, Zenon
  <2>3. QED BY <1>1, <2>1, <2>2
<1>13. ASSUME NEW d \in Clients, pc'[d] # "idle"
       PROVE  /\ told2[call'[d]] = Result("ok", IF pc'[d] = "remove" THEN held'[d] ELSE 0)
              /\ p.at[p.len][call'[d]] = Progress(pc'[d], calls'[call'[d]].action)
  <2>1. CASE d = c
    <3>1. Allowed(a, t) /\ pc'[d] = "table" /\ call'[d] = N
      BY <1>1, <1>3, <1>13, <2>1
    <3>2. r = Result("ok", IF pc'[d] = "remove" THEN held'[d] ELSE 0)
      BY <1>2, <3>1
    <3>3. Progress(pc'[d], calls'[call'[d]].action) = 0
      BY <3>1 DEF Progress
    <3>4. QED BY <1>6, <1>8, <3>1, <3>2, <3>3, Zenon
  <2>2. CASE d # c
    <3>1. pc'[d] = pc[d] /\ Active(d) /\ held'[d] = held[d] /\ call'[d] = call[d]
      BY <1>1, <1>13, <2>2 DEF Active
    <3>2. call[d] \in DOMAIN calls
      BY <3>1, OwnCall
    <3>3. /\ told[call[d]] = Promise(d) /\ told2[call[d]] = told[call[d]]
          /\ p.at[p.len][call[d]] = Progress(pc[d], calls[call[d]].action)
          /\ calls'[call[d]] = calls[call[d]]
      BY <1>1, <1>5, <1>8, <3>1, <3>2 DEF Progressed, Serving
    <3>4. QED BY <3>1, <3>3, Zenon DEF Promise
  <2>3. QED BY <2>1, <2>2
<1>14. Progressed(p, told2)'
  BY <1>11, <1>12, <1>13 DEF Progressed, Finished, StepsOf, Active, Promise, Serving
<1>15. \A d \in Clients : pc'[d] = "key" => pc[d] = "key" /\ call'[d] = call[d]
  <2>1. pc'[c] # "key"
    BY <1>3
  <2>2. QED BY <1>1, <2>1
<1>16. p.store[p.len] = Memory' /\ Left(p, home, gone)' /\ Holders(p, home, gone)'
  BY <1>1, <1>4, <1>15, SameMemory
<1>17. Explained(p, told2, home, gone)'
  BY <1>10, <1>14, <1>16 DEF Explained
<1>18. QED BY <1>17 DEF ExplainedInv

\* The steps of the log explain nothing anew.
LEMMA IdleExplained ==
    ASSUME HandlersInv, UNCHANGED <<memoryVars, pc, call, held, calls>>, ExplainedInv
    PROVE  ExplainedInv'
<1>0. CallsKnown
  BY AreKnown DEF HandlersInv
<1>1. UNCHANGED <<tables, collections, held>> /\ calls' = calls /\ pc' = pc /\ call' = call
  BY DEF memoryVars
<1>2. PICK p, told, home, gone : Explained(p, told, home, gone)
  BY DEF ExplainedInv
<1>3. Story(p, told) /\ Progressed(p, told)
  BY <1>2 DEF Explained
<1>4. Story(p, told)'
  BY <1>0, <1>1, <1>3, StoryStays
<1>5. Progressed(p, told)'
  BY <1>1, <1>3 DEF Progressed, Finished, StepsOf, Active, Promise, Serving
<1>6. p.store[p.len] = Memory' /\ Left(p, home, gone)' /\ Holders(p, home, gone)'
  BY <1>1, <1>2, SameMemory
<1>7. Explained(p, told, home, gone)'
  BY <1>4, <1>5, <1>6 DEF Explained
<1>8. QED BY <1>7 DEF ExplainedInv

\* There is a story after every step.
LEMMA NextExplained ==
    ASSUME HandlersInv, HandlersInv', ExplainedInv, [ServiceNext]_serviceVars
    PROVE  ExplainedInv'
<1>1. ASSUME NEW c \in Clients, Handle(c) PROVE ExplainedInv'
  BY <1>1, FindTableExplained, PutCreatesTableExplained, ReadKeyExplained, WriteKeyExplained,
     PublishExplained, AnswerExplained, AddTableChecksExplained, AddTableCreatesExplained,
     RemoveTableChecksExplained, RemoveTableRemovesExplained DEF Handle
<1>2. ASSUME NEW c \in Clients, NEW a \in Actions, NEW t \in Tables, NEW k \in Keys,
             Receive(c, a, t, k)
      PROVE  ExplainedInv'
  BY <1>2, ReceiveExplained
<1>3. ASSUME Dispatch \/ UNCHANGED serviceVars PROVE ExplainedInv'
  <2>1. UNCHANGED <<memoryVars, pc, call, held, calls>>
    BY <1>3 DEF Dispatch, TakeEvent, WriteEvent, FlushFails, AppendFails, serviceVars,
       memoryVars
  <2>2. QED BY <2>1, IdleExplained
<1>4. QED BY <1>1, <1>2, <1>3 DEF ServiceNext

-----------------------------------------------------------------------------
(* The first state.                                                         *)

\* Every collection the server starts with has its table.
LEMMA SeededAttached ==
    ServiceInit => \A h \in DOMAIN collections : \E t \in Seeded : tables[t] = h
<1> SUFFICES ASSUME ServiceInit, NEW h \in DOMAIN collections
             PROVE  \E t \in Seeded : tables[t] = h
  OBVIOUS
<1> DEFINE C == Cardinality(Seeded)
           f == [t \in Seeded |-> tables[t]]
<1>1. /\ DOMAIN collections = 1..C
      /\ tables \in [Tables -> 0..C]
      /\ \A t \in Tables : tables[t] # 0 <=> t \in Seeded
      /\ \A t, u \in Seeded : tables[t] = tables[u] => t = u
  BY DEF ServiceInit
<1>2. IsFiniteSet(Seeded) /\ Seeded \subseteq Tables
  BY ServiceAssumption
<1>3. C \in Nat
  BY <1>2, FS_CardinalityType
<1>4. f \in [Seeded -> 1..C]
  BY <1>1, <1>2, <1>3
<1>5. f \in Injection(Seeded, 1..C)
  BY <1>1, <1>4 DEF Injection, IsInjective
<1>6. IsFiniteSet(1..C) /\ Cardinality(1..C) = C
  BY <1>3, FS_Interval
<1>7. f \in Surjection(Seeded, 1..C)
  BY <1>5, <1>6, FS_Injection
<1>8. QED BY <1>1, <1>7 DEF Surjection

\* The reserved table at first.
LEMMA ReservedFirst ==
    /\ [Present EXCEPT !.data[IdentityKey] = Identity]
         = [there |-> TRUE, data |-> [k \in Keys |-> IF k = IdentityKey THEN Identity ELSE 0]]
    /\ [Present EXCEPT !.data[IdentityKey] = Identity]
         \in [there : BOOLEAN, data : [Keys -> Nat]]
<1>1. PICK p \in [there : BOOLEAN, data : [Keys -> Nat]] :
        p = Present /\ p.there = TRUE /\ p.data = [k \in Keys |-> 0]
  <2>1. Present \in [there : BOOLEAN, data : [Keys -> Nat]]
    BY DEF Present
  <2>2. Present.there = TRUE /\ Present.data = [k \in Keys |-> 0]
    BY DEF Present
  <2>3. QED BY <2>1, <2>2, Zenon
<1>2. IdentityKey \in Keys /\ Identity \in Nat
  BY ServiceAssumption DEF Identity
<1>3. [p.data EXCEPT ![IdentityKey] = Identity]
        = [k \in Keys |-> IF k = IdentityKey THEN Identity ELSE 0]
  BY <1>1
<1>4. /\ [p EXCEPT !.data[IdentityKey] = Identity]
           = [there |-> p.there, data |-> [p.data EXCEPT ![IdentityKey] = Identity]]
      /\ [p EXCEPT !.data[IdentityKey] = Identity]
           \in [there : BOOLEAN, data : [Keys -> Nat]]
  BY <1>2
<1>5. QED BY <1>1, <1>3, <1>4, Zenon

\* The empty story explains the initial states.
LEMMA InitExplained == ServiceInit => ExplainedInv
<1> SUFFICES ASSUME ServiceInit PROVE ExplainedInv
  OBVIOUS
<1>1. /\ \A c \in Clients : pc[c] = "idle"
      /\ DOMAIN calls = {}
      /\ tables \in [Tables -> 0..Cardinality(Seeded)]
      /\ \A t \in Tables : tables[t] # 0 <=> t \in Seeded
      /\ \A t, u \in Seeded : tables[t] = tables[u] => t = u
      /\ collections = [i \in 1..Cardinality(Seeded) |->
                          IF i = 1 THEN IdentityCollection ELSE EmptyCollection]
      /\ tables[Reserved] = 1 /\ Reserved \in Seeded /\ Seeded \subseteq Tables
      /\ Cardinality(Seeded) \in Nat /\ IdentityKey \in Keys
  BY FS_CardinalityType, ServiceAssumption DEF ServiceInit
<1>2. PICK p : p = [len |-> 0,
                    who |-> [i \in 1..0 |-> 0],
                    step |-> [i \in 1..0 |-> "none"],
                    at |-> [i \in 0..0 |-> [m \in Nat |-> 0]],
                    store |-> [i \in 0..0 |-> Start.store]]
  OBVIOUS
<1>3. /\ p.len = 0 /\ p.who = [i \in 1..0 |-> 0]
      /\ p.at = [i \in 0..0 |-> [m \in Nat |-> 0]]
      /\ p.store = [i \in 0..0 |-> Start.store]
  BY <1>2
<1>4. Start.store \in Stores
  <2>1. Present \in [there : BOOLEAN, data : [Keys -> Nat]]
        /\ Absent \in [there : BOOLEAN, data : [Keys -> Nat]]
    BY DEF Present, Absent
  <2>2. [Present EXCEPT !.data[IdentityKey] = Identity]
           \in [there : BOOLEAN, data : [Keys -> Nat]]
    BY ReservedFirst
  <2>3. Start.store = FirstStore
    BY DEF Start
  <2>4. QED BY <2>1, <2>2, <2>3 DEF Stores, FirstStore
<1>5. /\ p.at[0] = [m \in Nat |-> 0] /\ p.store[0] = Start.store
      /\ p.len \in Nat
      /\ p.who \in [1..p.len -> DOMAIN calls]
      /\ p.at \in [0..p.len -> [Nat -> 0..2]]
      /\ p.store \in [0..p.len -> Stores]
  <2>1. 0 \in 0..0 /\ 1..0 = {} /\ 0..0 = {0}
    OBVIOUS
  <2>2. [m \in Nat |-> 0] \in [Nat -> 0..2]
    OBVIOUS
  <2>3. p.at[0] = [m \in Nat |-> 0] /\ p.store[0] = Start.store
    BY <1>3, <2>1
  <2>4. p.at \in [0..0 -> [Nat -> 0..2]]
    BY <1>3, <2>2
  <2>5. p.store \in [0..0 -> Stores]
    BY <1>3, <1>4
  <2>6. p.who \in [1..0 -> DOMAIN calls]
    BY <1>3, <2>1
  <2>7. QED BY <1>3, <2>3, <2>4, <2>5, <2>6
<1>6. Story(p, p)
  <2>1. StoryTyped(p)
    BY <1>5 DEF StoryTyped
  <2>2. \A i \in 1..p.len : FALSE
    BY <1>3
  <2>3. \A m \in Nat : p.at[0][m] = 0
    BY <1>5
  <2>4. QED BY <1>5, <2>1, <2>2, <2>3 DEF Story
<1>7. Progressed(p, p)
  <2>1. \A m \in Nat : p.at[p.len][m] = 0
    BY <1>3, <1>5
  <2>2. QED BY <1>1, <2>1 DEF Progressed, Finished, Active
<1>8. p.store[p.len] = Memory
  <2>1. ASSUME NEW t \in Seeded, t # Reserved PROVE Memory[t] = Present
    <3>1. tables[t] \in 1..Cardinality(Seeded) /\ tables[t] # 0 /\ tables[t] # 1
      BY <1>1, <2>1
    <3>2. collections[tables[t]] = EmptyCollection
      BY <1>1, <3>1
    <3>3. \A k \in Keys : collections[tables[t]][k].value = 0
      BY <3>2 DEF EmptyCollection, NoRecord
    <3>4. Shown(tables[t]) = Present
      BY <3>3 DEF Shown, Present
    <3>5. QED BY <1>1, <3>1, <3>4 DEF Memory
  <2>2. Memory[Reserved] = [Present EXCEPT !.data[IdentityKey] = Identity]
    <3>1. 1 \in 1..Cardinality(Seeded)
      BY <1>1
    <3>2. collections[1] = IdentityCollection
      BY <1>1, <3>1
    <3>3. \A k \in Keys : collections[1][k].value = IF k = IdentityKey THEN Identity ELSE 0
      BY <1>1, <3>2 DEF IdentityCollection, EmptyCollection, NoRecord
    <3>4. Shown(1) = [Present EXCEPT !.data[IdentityKey] = Identity]
      <4>1. Shown(1) = [there |-> TRUE,
                        data |-> [k \in Keys |-> IF k = IdentityKey THEN Identity ELSE 0]]
        BY <3>3 DEF Shown
      <4>2. QED BY <4>1, ReservedFirst, Zenon
    <3>5. QED BY <1>1, <3>4 DEF Memory
  <2>3. ASSUME NEW t \in Tables, t \notin Seeded PROVE Memory[t] = Absent
    BY <1>1, <2>3 DEF Memory
  <2>4. FirstStore = Memory
    BY <1>1, <2>1, <2>2, <2>3 DEF FirstStore, Memory
  <2>5. Start.store = Memory
    BY <2>4 DEF Start
  <2>6. QED BY <1>3, <1>5, <2>5
<1>9. PICK home : \A t \in Tables : tables[t] # 0 => home[tables[t]] = t
  <2> DEFINE d == [h \in 1..Cardinality(Seeded) |-> CHOOSE t \in Tables : tables[t] = h]
  <2>1. ASSUME NEW t \in Tables, tables[t] # 0 PROVE d[tables[t]] = t
    <3>1. PICK h \in 1..Cardinality(Seeded) : h = tables[t]
      BY <1>1, <2>1
    <3>2. d[h] \in Tables /\ tables[d[h]] = h
      BY <3>1
    <3>3. d[h] = t
      BY <1>1, <2>1, <3>1, <3>2
    <3>4. QED BY <3>1, <3>3
  <2>2. QED BY <2>1
<1>10. Left(p, home, p)
  <2>1. \A h \in DOMAIN collections : Attached(h)
    BY SeededAttached, ServiceAssumption DEF Attached
  <2>2. QED BY <1>9, <2>1 DEF Left
<1>11. Holders(p, home, p)
  BY <1>1 DEF Holders
<1>12. Explained(p, p, home, p)
  BY <1>6, <1>7, <1>8, <1>10, <1>11 DEF Explained
<1>13. QED BY <1>12 DEF ExplainedInv

\* The invariant holds in the initial states.
LEMMA InitHandlers == ServiceInit => HandlersInv /\ ExplainedInv
<1> SUFFICES ASSUME ServiceInit PROVE HandlersInv
  BY InitExplained
<1>1. ServiceTypeOK /\ HandlerInv /\ BeforeInv /\ PlacesInv
  BY InitTyped, InitLog, InitPlaces
<1>2. ServedInv
  BY DEF ServiceInit, ServedInv
<1>3. ValuesInv
  <2>1. collections = [i \in 1..Cardinality(Seeded) |->
                         IF i = 1 THEN IdentityCollection ELSE EmptyCollection]
    BY DEF ServiceInit
  <2>2. \A k \in Keys : /\ EmptyCollection[k] = NoRecord
                        /\ IdentityCollection[k].value = 0 => IdentityCollection[k] = NoRecord
    BY ServiceAssumption DEF EmptyCollection, IdentityCollection, Identity
  <2>3. QED BY <2>1, <2>2 DEF ValuesInv
<1>4. QED BY <1>1, <1>2, <1>3 DEF HandlersInv

\* There is a story in every reachable state.
LEMMA StoriesHold == ServiceSpec => [](HandlersInv /\ ExplainedInv)
<1>1. ASSUME HandlersInv, LogInv, [ServiceNext]_serviceVars
      PROVE  HandlersInv' /\ LogInv'
  <2>1. ServiceTypeOK /\ HandlerInv /\ BeforeInv
    BY <1>1 DEF HandlersInv
  <2>2. BeforeInv' /\ LogInv'
    BY <1>1, <2>1, NextLog
  <2>3. QED BY <1>1, <2>2, NextHandlers
<1>2. ServiceInit => LogInv
  BY InitLog
<1>3. HandlersInv /\ LogInv /\ ExplainedInv /\ [ServiceNext]_serviceVars
        => (HandlersInv /\ LogInv /\ ExplainedInv)'
  BY <1>1, NextExplained
<1>4. QED BY <1>2, <1>3, InitHandlers, PTL DEF ServiceSpec

-----------------------------------------------------------------------------
(* Explains is a function with the values its definition says: the function *)
(* that tells whether a finite way leads to a situation where all is over   *)
(* satisfies it.                                                            *)

AllOver(x) == \A n \in DOMAIN calls : Over(n, x)
Leads(x, y) == \E n \in DOMAIN calls : MayStep(n, x) /\ y = After(n, x)

Way(k, q) == /\ q \in [0..k -> Situations]
             /\ \A i \in 1..k : Leads(q[i - 1], q[i])
             /\ AllOver(q[k])

Reaches(x) == \E k \in Nat : \E q : Way(k, q) /\ q[0] = x

\* A step that may be taken leads to a situation.
LEMMA AfterTyped ==
    ASSUME CallsKnown, NEW x \in Situations, NEW n \in DOMAIN calls, MayStep(n, x)
    PROVE  After(n, x) \in Situations
<1>1. x.store \in Stores /\ x.at \in [DOMAIN calls -> 0..2]
  BY DEF Situations
<1>2. PICK steps : steps = StepsOf(n)
  OBVIOUS
<1>3. Len(steps) \in 0..2
  BY <1>2, FewSteps DEF StepsOf
<1>4. x.at[n] \in 0..2 /\ x.at[n] < Len(steps)
  BY <1>1, <1>2 DEF MayStep
<1>5. \A i, j \in 0..2 : i < j => i + 1 \in 0..2
  OBVIOUS
<1>6. x.at[n] + 1 \in 0..2
  BY <1>3, <1>4, <1>5
<1>7. [x.at EXCEPT ![n] = @ + 1] \in [DOMAIN calls -> 0..2]
  BY <1>1, <1>6
<1>8. Effect(NextStep(n, x), n, x.store) \in Stores
  BY <1>1, EffectTyped
<1>9. QED BY <1>7, <1>8, Zenon DEF After, Situations

\* An end is reached from a situation that is one, or from one that a step leads to.
LEMMA ReachesOn ==
    ASSUME CallsKnown, NEW x \in Situations
    PROVE  Reaches(x) <=> \/ AllOver(x)
                          \/ \E n \in DOMAIN calls : MayStep(n, x) /\ Reaches(After(n, x))
<1>1. ASSUME AllOver(x) PROVE Reaches(x)
  <2> DEFINE q == [i \in 0..0 |-> x]
  <2>1. q \in [0..0 -> Situations] /\ q[0] = x /\ \A i \in 1..0 : FALSE
    OBVIOUS
  <2> HIDE DEF q
  <2>2. Way(0, q)
    BY <1>1, <2>1 DEF Way
  <2>3. QED BY <2>1, <2>2 DEF Reaches
<1>2. ASSUME NEW n \in DOMAIN calls, MayStep(n, x), Reaches(After(n, x)) PROVE Reaches(x)
  <2>1. PICK k \in Nat : \E q : Way(k, q) /\ q[0] = After(n, x)
    BY <1>2 DEF Reaches
  <2>2. PICK q : Way(k, q) /\ q[0] = After(n, x)
    BY <2>1
  <2> DEFINE g == [i \in 0..k + 1 |-> IF i = 0 THEN x ELSE q[i - 1]]
  <2>3. q \in [0..k -> Situations] /\ AllOver(q[k])
        /\ \A i \in 1..k : Leads(q[i - 1], q[i])
    BY <2>2 DEF Way
  <2>4. /\ \A i \in 0..k + 1 : i # 0 => i - 1 \in 0..k
        /\ 0 \in 0..k + 1 /\ k + 1 \in 0..k + 1 /\ k + 1 # 0 /\ (k + 1) - 1 = k
        /\ \A i \in 1..k + 1 : i \in 0..k + 1 /\ i # 0 /\ i - 1 \in 0..k + 1
        /\ \A i \in 1..k + 1 : i = 1 \/ (i - 1 \in 1..k /\ i - 1 # 0)
        /\ 1 - 1 = 0
    OBVIOUS
  <2>5. g \in [0..k + 1 -> Situations] /\ g[0] = x /\ g[k + 1] = q[k]
        /\ \A i \in 1..k + 1 : g[i] = q[i - 1]
    BY <2>3, <2>4
  <2> HIDE DEF g
  <2>6. Leads(x, q[0])
    BY <1>2, <2>2 DEF Leads
  <2>7. ASSUME NEW i \in 1..k + 1 PROVE Leads(g[i - 1], g[i])
    <3>1. CASE i = 1
      BY <2>4, <2>5, <2>6, <3>1
    <3>2. CASE i - 1 \in 1..k /\ i - 1 # 0
      <4>1. g[i] = q[i - 1] /\ g[i - 1] = q[(i - 1) - 1]
        BY <2>4, <2>5, <3>2
      <4>2. Leads(q[(i - 1) - 1], q[i - 1])
        BY <2>3, <3>2
      <4>3. QED BY <4>1, <4>2
    <3>3. QED BY <2>4, <3>1, <3>2
  <2>8. Way(k + 1, g)
    BY <2>3, <2>5, <2>7 DEF Way
  <2>9. k + 1 \in Nat
    OBVIOUS
  <2>10. QED BY <2>5, <2>8, <2>9 DEF Reaches
<1>3. ASSUME Reaches(x), ~AllOver(x)
      PROVE  \E n \in DOMAIN calls : MayStep(n, x) /\ Reaches(After(n, x))
  <2>1. PICK k \in Nat : \E q : Way(k, q) /\ q[0] = x
    BY <1>3 DEF Reaches
  <2>2. PICK q : Way(k, q) /\ q[0] = x
    BY <2>1
  <2>3. q \in [0..k -> Situations] /\ AllOver(q[k])
        /\ \A i \in 1..k : Leads(q[i - 1], q[i])
    BY <2>2 DEF Way
  <2>4. k # 0
    BY <1>3, <2>2, <2>3
  <2> DEFINE g == [i \in 0..k - 1 |-> q[i + 1]]
  <2>5. /\ k - 1 \in Nat /\ k - 1 \in 0..k - 1 /\ (k - 1) + 1 = k /\ 0 \in 0..k - 1
        /\ \A i \in 0..k - 1 : i + 1 \in 0..k
        /\ \A i \in 1..k - 1 : /\ i \in 0..k - 1 /\ i - 1 \in 0..k - 1 /\ i + 1 \in 1..k
                               /\ (i - 1) + 1 = i /\ (i + 1) - 1 = i
        /\ 1 \in 1..k /\ 0 + 1 = 1 /\ 1 - 1 = 0
    BY <2>4
  <2>6. g \in [0..k - 1 -> Situations] /\ g[0] = q[1] /\ g[k - 1] = q[k]
        /\ \A i \in 0..k - 1 : g[i] = q[i + 1]
    BY <2>3, <2>5
  <2> HIDE DEF g
  <2>7. \A i \in 1..k - 1 : Leads(g[i - 1], g[i])
    BY <2>3, <2>5, <2>6
  <2>8. Way(k - 1, g)
    BY <2>3, <2>6, <2>7 DEF Way
  <2>9. Leads(x, q[1])
    BY <2>2, <2>3, <2>5
  <2>10. PICK n \in DOMAIN calls : MayStep(n, x) /\ q[1] = After(n, x)
    BY <2>9 DEF Leads
  <2>11. Reaches(After(n, x))
    BY <2>5, <2>6, <2>8, <2>10 DEF Reaches
  <2>12. QED BY <2>10, <2>11
<1>4. QED BY <1>1, <1>2, <1>3

\* The recursive function Explains exists: Reaches satisfies its equation.
LEMMA ExplainsUnfolds ==
    ASSUME CallsKnown
    PROVE  \A x \in Situations :
             Explains[x] <=> \/ AllOver(x)
                             \/ \E n \in DOMAIN calls : MayStep(n, x) /\ Explains[After(n, x)]
<1> DEFINE f == [x \in Situations |-> Reaches(x)]
           Body(g, x) == \/ \A n \in DOMAIN calls : Over(n, x)
                         \/ \E n \in DOMAIN calls : MayStep(n, x) /\ g[After(n, x)]
<1>1. ASSUME NEW x \in Situations PROVE Reaches(x) <=> Body(f, x)
  <2>1. \A n \in DOMAIN calls : MayStep(n, x) => f[After(n, x)] = Reaches(After(n, x))
    BY AfterTyped
  <2> HIDE DEF f
  <2>2. Reaches(x) <=> \/ AllOver(x)
                       \/ \E n \in DOMAIN calls : MayStep(n, x) /\ Reaches(After(n, x))
    BY ReachesOn
  <2>3. QED BY <2>1, <2>2, Zenon DEF AllOver
<1>2. ASSUME NEW x \in Situations PROVE Reaches(x) = Body(f, x)
  <2>1. Reaches(x) \in BOOLEAN /\ Body(f, x) \in BOOLEAN
    BY Zenon DEF Reaches
  <2>2. QED BY <1>1, <2>1, Zenon
<1>3. f = [x \in Situations |-> Body(f, x)]
  <2>1. PICK g : g = f
    OBVIOUS
  <2>2. \A x \in Situations : Reaches(x) = Body(g, x)
    BY <1>2, <2>1, Zenon
  <2>3. [x \in Situations |-> Reaches(x)] = [x \in Situations |-> Body(g, x)]
    BY <2>2, Zenon
  <2>4. QED BY <2>1, <2>3, Zenon
<1>4. Explains = [x \in Situations |-> Body(Explains, x)]
  <2>1. PICK g : g = [x \in Situations |-> Body(g, x)]
    BY <1>3, Zenon
  <2>2. QED BY <2>1, Zenon DEF Explains
<1>5. QED BY <1>4, Zenon DEF AllOver

-----------------------------------------------------------------------------
(* A story in which every call is over is an explanation.                   *)

\* Every nonempty set of numbers has a least one.
LEMMA LeastNumber ==
    ASSUME NEW T \in SUBSET Nat, T # {}
    PROVE  \E x \in T : \A y \in T : ~(y < x)
<1> DEFINE R == {ss \in Nat \X Nat : ss[1] < ss[2]}
<1>1. IsWellFoundedOn(R, Nat)
  BY NatLessThanWellFounded DEF OpToRel
<1>2. PICK x \in T : \A y \in T : <<y, x>> \notin R
  BY <1>1, WFMin
<1>3. QED BY <1>2

\* A set that has 0 and, up to k, the successors of its members has k.
LEMMA UpTo ==
    ASSUME NEW k \in Nat, NEW S, 0 \in S, \A i \in 0..k - 1 : i \in S => i + 1 \in S
    PROVE  k \in S
<1> SUFFICES ASSUME k \notin S PROVE FALSE
  OBVIOUS
<1>1. (0..k) \ S \in SUBSET Nat /\ (0..k) \ S # {}
  OBVIOUS
<1>2. PICK x \in (0..k) \ S : \A y \in (0..k) \ S : ~(y < x)
  BY <1>1, LeastNumber, Zenon
<1>3. x \in 0..k /\ x \notin S /\ x # 0
  BY <1>2
<1>4. x - 1 \in 0..k - 1 /\ x - 1 \in 0..k /\ (x - 1) + 1 = x /\ x - 1 < x
  BY <1>3
<1>5. x - 1 \in S
  BY <1>2, <1>4
<1>6. QED BY <1>3, <1>4, <1>5

\* A story of all the steps of all calls leads Explains from the start to an end.
LEMMA StoryExplains ==
    ASSUME CallsKnown, NEW p, NEW told, Story(p, told),
           \A n \in DOMAIN calls : /\ told[n] = calls[n].result
                                   /\ p.at[p.len][n] = Len(StepsOf(n))
    PROVE  Explains[Start]
<1>1. /\ p.len \in Nat
      /\ p.who \in [1..p.len -> DOMAIN calls]
      /\ p.at \in [0..p.len -> [Nat -> 0..2]]
      /\ p.store \in [0..p.len -> Stores]
      /\ p.store[0] = Start.store
      /\ \A m \in Nat : p.at[0][m] = 0
      /\ DOMAIN calls \subseteq Nat
  BY DEF Story, StoryTyped, CallsKnown
<1>2. PICK at : at = [i \in 0..p.len |-> [n \in DOMAIN calls |-> p.at[i][n]]]
  OBVIOUS
<1>3. \A i \in 0..p.len : /\ at[i] \in [DOMAIN calls -> 0..2]
                          /\ \A n \in DOMAIN calls : at[i][n] = p.at[i][n]
  <2>1. ASSUME NEW i \in 0..p.len
        PROVE  /\ at[i] \in [DOMAIN calls -> 0..2]
               /\ \A n \in DOMAIN calls : at[i][n] = p.at[i][n]
    <3>1. p.at[i] \in [Nat -> 0..2]
      BY <1>1
    <3>2. at[i] = [n \in DOMAIN calls |-> p.at[i][n]]
      BY <1>2
    <3>3. QED BY <1>1, <3>1, <3>2
  <2>2. QED BY <2>1
<1> DEFINE C(i) == [store |-> p.store[i], at |-> at[i]]
<1>4. \A i \in 0..p.len : C(i) \in Situations
  BY <1>1, <1>3 DEF Situations
<1>5. C(0) = Start
  <2>1. 0 \in 0..p.len
    BY <1>1
  <2>2. \A n \in DOMAIN calls : at[0][n] = 0
    BY <1>1, <1>3, <2>1
  <2>3. at[0] = [n \in DOMAIN calls |-> 0]
    BY <1>3, <2>1, <2>2
  <2>4. QED BY <1>1, <2>3 DEF Start
<1>6. AllOver(C(p.len))
  <2>1. p.len \in 0..p.len
    BY <1>1
  <2>2. ASSUME NEW n \in DOMAIN calls PROVE at[p.len][n] = Len(StepsOf(n))
    BY <1>3, <2>1, <2>2
  <2>3. QED BY <2>2 DEF AllOver, Over
<1>7. ASSUME NEW i \in 1..p.len
      PROVE  /\ p.who[i] \in DOMAIN calls
             /\ MayStep(p.who[i], C(i - 1))
             /\ C(i) = After(p.who[i], C(i - 1))
  <2>0. PICK n : n = p.who[i]
    OBVIOUS
  <2>1. i \in 0..p.len /\ i - 1 \in 0..p.len /\ n \in DOMAIN calls /\ n \in Nat
    BY <1>1, <1>7, <2>0
  <2>2. Takes(p, told, i)
    BY <1>7 DEF Story
  <2>3. /\ p.at[i - 1][n] < Len(StepsOf(n))
        /\ p.step[i] = StepsOf(n)[p.at[i - 1][n] + 1]
        /\ \A m \in calls[n].before :
             p.at[i - 1][m] = Len(StepsWith(calls[m].action, told[m].tag))
        /\ Consistent(p.step[i], n, calls[n].result, p.store[i - 1])
        /\ p.store[i] = Effect(p.step[i], n, p.store[i - 1])
        /\ \A m \in Nat : p.at[i][m] = IF m = n THEN p.at[i - 1][m] + 1 ELSE p.at[i - 1][m]
    <3>1. told[n] = calls[n].result
      BY <2>1
    <3>2. StepsOf(n) = StepsWith(calls[n].action, told[n].tag)
      BY <3>1 DEF StepsOf
    <3>3. QED BY <2>0, <2>2, <3>1, <3>2, Zenon DEF Takes
  <2>4. \A m \in calls[n].before : m \in DOMAIN calls /\ at[i - 1][m] = Len(StepsOf(m))
    <3>1. \A m \in calls[n].before : m \in DOMAIN calls
      BY <2>1 DEF CallsKnown
    <3>2. \A m \in DOMAIN calls : told[m] = calls[m].result
      OBVIOUS
    <3>3. \A m \in calls[n].before : at[i - 1][m] = p.at[i - 1][m]
      BY <1>3, <2>1, <3>1
    <3>4. QED BY <2>3, <3>1, <3>2, <3>3, Zenon DEF StepsOf
  <2>5. at[i - 1][n] = p.at[i - 1][n]
    BY <1>3, <2>1
  <2>6. PICK x : x = C(i - 1)
    OBVIOUS
  <2>7. x.store = p.store[i - 1] /\ x.at = at[i - 1]
    BY <2>6
  <2>8. NextStep(n, x) = p.step[i]
    BY <2>3, <2>5, <2>7, Zenon DEF NextStep
  <2>9. MayStep(n, x)
    <3>1. x.at[n] < Len(StepsOf(n))
      BY <2>3, <2>5, <2>7, Zenon
    <3>2. \A m \in calls[n].before : Over(m, x)
      BY <2>4, <2>7, Zenon DEF Over
    <3>3. Consistent(NextStep(n, x), n, calls[n].result, x.store)
      BY <2>3, <2>7, <2>8, Zenon
    <3>4. QED BY <3>1, <3>2, <3>3, Zenon DEF MayStep
  <2>10. at[i] = [x.at EXCEPT ![n] = @ + 1]
    <3>1. at[i] \in [DOMAIN calls -> 0..2] /\ at[i - 1] \in [DOMAIN calls -> 0..2]
      BY <1>3, <2>1
    <3>2. \A m \in DOMAIN calls :
            at[i][m] = IF m = n THEN at[i - 1][m] + 1 ELSE at[i - 1][m]
      BY <1>1, <1>3, <2>1, <2>3
    <3>3. at[i] = [at[i - 1] EXCEPT ![n] = at[i - 1][n] + 1]
      BY <2>1, <3>1, <3>2
    <3>4. QED BY <2>7, <3>3, Zenon
  <2>11. C(i) = After(n, x)
    BY <2>3, <2>7, <2>8, <2>10, Zenon DEF After
  <2>12. QED BY <2>0, <2>1, <2>6, <2>9, <2>11, Zenon
<1> DEFINE S == {j \in 0..p.len : Explains[C(p.len - j)]}
<1>8. 0 \in S
  <2>1. p.len - 0 = p.len /\ 0 \in 0..p.len /\ p.len \in 0..p.len
    BY <1>1
  <2>2. Explains[C(p.len)]
    BY <1>4, <1>6, <2>1, ExplainsUnfolds
  <2>3. QED BY <2>1, <2>2
<1>9. ASSUME NEW j \in 0..p.len - 1, j \in S PROVE j + 1 \in S
  <2> DEFINE i == p.len - j
  <2>1. /\ i \in 1..p.len /\ i - 1 \in 0..p.len /\ i - 1 = p.len - (j + 1)
        /\ j + 1 \in 0..p.len
    BY <1>1
  <2>2. Explains[C(i)]
    BY <1>9
  <2> HIDE DEF i
  <2>3. /\ p.who[i] \in DOMAIN calls /\ MayStep(p.who[i], C(i - 1))
        /\ C(i) = After(p.who[i], C(i - 1)) /\ C(i - 1) \in Situations
    BY <1>4, <1>7, <2>1
  <2> HIDE DEF C
  <2>4. Explains[C(i - 1)]
    BY <2>2, <2>3, ExplainsUnfolds, Zenon
  <2>5. QED BY <2>1, <2>4
<1>10. p.len \in S
  <2> HIDE DEF S
  <2>1. QED BY <1>1, <1>8, <1>9, UpTo
<1>11. Explains[C(p.len - p.len)]
  BY <1>10
<1>12. p.len - p.len = 0
  BY <1>1
<1>13. QED BY <1>5, <1>11, <1>12, Zenon

\* When no handler is running, the results of all calls are those of atomic
\* steps of the reference store in an order that respects real time.
THEOREM ResultsExplainedHolds == ServiceSpec => []ResultsExplained
<1>1. ASSUME HandlersInv, ExplainedInv, Quiet PROVE Explains[Start]
  <2>1. PICK p, told, home, gone : Explained(p, told, home, gone)
    BY <1>1 DEF ExplainedInv
  <2>2. Story(p, told) /\ Progressed(p, told)
    BY <2>1 DEF Explained
  <2>3. CallsKnown
    BY <1>1, AreKnown DEF HandlersInv
  <2>4. \A n \in DOMAIN calls : n \in Finished
    BY <1>1 DEF HandlersInv, ServedInv, Quiet, Active
  <2>5. \A n \in DOMAIN calls : /\ told[n] = calls[n].result
                                /\ p.at[p.len][n] = Len(StepsOf(n))
    BY <2>2, <2>4 DEF Progressed
  <2>6. QED BY <2>2, <2>3, <2>5, StoryExplains
<1>2. HandlersInv /\ ExplainedInv => ResultsExplained
  BY <1>1 DEF ResultsExplained
<1>3. QED BY <1>2, StoriesHold, PTL
=============================================================================
