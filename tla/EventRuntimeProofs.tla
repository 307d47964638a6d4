------------------------- MODULE EventRuntimeProofs -------------------------
(***************************************************************************)
(* Theorems about EventRuntime, for any number of publishers and thread    *)
(* identities, any capacity, any faults and any bounds.                    *)
(***************************************************************************)
EXTENDS EventRuntime, FiniteSetTheorems, SequenceTheorems, TLAPS

LEMMA InitTyped == Init => Typed
  BY RuntimeAssumption
     DEF Init, Typed, States, RunnerPcs, InRun, InLoop, PublisherPcs, StopPcs

LEMMA NextTyped == Typed /\ [Next]_vars => Typed'
<1> SUFFICES ASSUME Typed, [Next]_vars PROVE Typed'
  OBVIOUS
<1> USE RuntimeAssumption
        DEF Typed, States, RunnerPcs, InRun, InLoop, PublisherPcs, StopPcs,
            queueVars, runnerVars, callerVars, stopVars
<1>1. ASSUME NEW p \in Publishers, Publish(p) PROVE Typed'
  BY <1>1 DEF Publish
<1>2. ASSUME NEW p \in Publishers, PushCheck(p) PROVE Typed'
  BY <1>2 DEF PushCheck, EnsureRunner, SpawnRunner
<1>3. ASSUME NEW p \in Publishers, PushRefuse(p) PROVE Typed'
  BY <1>3 DEF PushRefuse
<1>10. ASSUME NEW p \in Publishers, PushEnqueue(p) PROVE Typed'
  <2>1. Len(queue) \in Nat /\ Larger(stats.max, Len(queue) + 1) \in Nat
    BY DEF Larger
  <2>2. queue' \in Seq(Nat) /\ accepted' \in Seq(Nat)
    <3>1. id[p] \in Nat
      OBVIOUS
    <3>2. queue' = Append(queue, id[p]) /\ accepted' = Append(accepted, id[p])
      BY <1>10 DEF PushEnqueue
    <3> QED
      BY <3>1, <3>2
  <2>3. stats' \in [pushed : Nat, popped : Nat, max : Nat]
    BY <1>10, <2>1 DEF PushEnqueue
  <2>4. pc' \in [Publishers -> PublisherPcs]
    BY <1>10 DEF PushEnqueue
  <2>5. UNCHANGED <<runnerVars, id, nextId, stopVars, lifecycle, handle>>
    BY <1>10 DEF PushEnqueue
  <2> QED
    BY <2>2, <2>3, <2>4, <2>5
<1>4. ASSUME NEW p \in Publishers, PushRecheck(p) PROVE Typed'
  BY <1>4 DEF PushRecheck, EnsureRunner, SpawnRunner
<1>5. ASSUME NEW r \in Threads, RunnerStep(r) PROVE Typed'
  <2>1. CASE RunnerStart(r)
    BY <2>1 DEF RunnerStart, Goto
  <2>2. CASE RunnerContinue(r)
    BY <2>2 DEF RunnerContinue, Goto
  <2>3. CASE RunnerReceive(r)
    <3>1. Head(queue) \in Nat /\ Tail(queue) \in Seq(Nat)
      BY <2>3, HeadTailProperties DEF RunnerReceive
    <3>2. rpc' = [rpc EXCEPT ![r] = "dispatch"]
      BY <2>3 DEF RunnerReceive, Goto
    <3>3. task' = [task EXCEPT ![r] = Head(queue)] /\ queue' = Tail(queue)
      BY <2>3 DEF RunnerReceive, OldestTask
    <3>4. stats' \in [pushed : Nat, popped : Nat, max : Nat]
      BY <2>3 DEF RunnerReceive
    <3>5. UNCHANGED <<accepted, active_runners, ended, panics, callerVars, stopVars,
                      lifecycle, handle>>
      BY <2>3 DEF RunnerReceive
    <3>6. QED BY <3>1, <3>2, <3>3, <3>4, <3>5
  <2>4. CASE RunnerWait(r) \/ RunnerTimeout(r)
    BY <2>4 DEF RunnerWait, RunnerTimeout, Goto
  <2>5. CASE RunnerDispatch(r)
    BY <2>5 DEF RunnerDispatch, Goto
  <2>6. CASE RunnerCheck(r)
    BY <2>6 DEF RunnerCheck, Goto
  <2>7. CASE RunnerShutdown(r)
    BY <2>7 DEF RunnerShutdown, Goto
  <2>8. CASE RunnerLeave(r)
    BY <2>8 DEF RunnerLeave, Goto
  <2>9. QED BY <1>5, <2>1, <2>2, <2>3, <2>4, <2>5, <2>6, <2>7, <2>8 DEF RunnerStep
<1>6. ASSUME NEW r \in Threads, RunnerPanic(r) PROVE Typed'
  BY <1>6 DEF RunnerPanic, Goto
<1>7. CASE RequestStop
  BY <1>7 DEF RequestStop
<1>8. CASE StopStep
  BY <1>8 DEF StopStep, StopTake, StopJoin, Unregister
<1>9. CASE UNCHANGED vars
  BY <1>9 DEF vars
<1>11. QED
  BY <1>1, <1>2, <1>3, <1>10, <1>4, <1>5, <1>6, <1>7, <1>8, <1>9
     DEF Next, PushStep, Terminated

\* In every reachable state the variables have their types.
THEOREM TypesHold == Spec => []Typed
  BY InitTyped, NextTyped, PTL DEF Spec

-----------------------------------------------------------------------------
(* One runner at a time.  A live runner is the one in the handle mutex or   *)
(* the one request_stop took out of it and is joining; both are settled     *)
(* only by whoever holds the mutex, and a joining thread keeps it.          *)

Holds(p) == pc[p] \in {"enqueue", "recheck"}

LockInv ==
    /\ \A p, q \in Publishers : Holds(p) /\ Holds(q) => p = q
    /\ stop = "joining" => /\ \A p \in Publishers : ~Holds(p)
                           /\ joinee \in Threads
                           /\ handle = None

LiveInv ==
    \A r \in Threads : Alive(r) => r = handle \/ (stop = "joining" /\ r = joinee)

LEMMA InitLock == Init => LockInv /\ LiveInv
  BY RuntimeAssumption DEF Init, LockInv, LiveInv, Holds, Alive

LEMMA NextLock ==
    Typed /\ LockInv /\ LiveInv /\ [Next]_vars => LockInv' /\ LiveInv'
<1> SUFFICES ASSUME Typed, LockInv, LiveInv, [Next]_vars
             PROVE  LockInv' /\ LiveInv'
  OBVIOUS
<1> USE RuntimeAssumption
        DEF Typed, LockInv, LiveInv, Holds, Alive,
            queueVars, runnerVars, callerVars, stopVars
<1>1. ASSUME NEW p \in Publishers, Publish(p) PROVE LockInv' /\ LiveInv'
  BY <1>1 DEF Publish
<1>2. ASSUME NEW p \in Publishers, PushCheck(p) PROVE LockInv' /\ LiveInv'
  BY <1>2 DEF PushCheck, HandleFree, EnsureRunner, SpawnRunner, RunnerIsDead
<1>3. ASSUME NEW p \in Publishers, PushRefuse(p) \/ PushEnqueue(p)
      PROVE  LockInv' /\ LiveInv'
  BY <1>3 DEF PushRefuse, PushEnqueue
<1>4. ASSUME NEW p \in Publishers, PushRecheck(p) PROVE LockInv' /\ LiveInv'
  BY <1>4 DEF PushRecheck, EnsureRunner, SpawnRunner, RunnerIsDead
<1>5. ASSUME NEW r \in Threads, RunnerStep(r) \/ RunnerPanic(r)
      PROVE  LockInv' /\ LiveInv'
  <2>1. /\ UNCHANGED <<pc, stop, joinee, handle>>
        /\ \A t \in Threads : Alive(t)' => Alive(t)
    BY <1>5 DEF RunnerStep, RunnerPanic, Goto, RunnerStart, RunnerContinue,
         RunnerReceive, RunnerWait, RunnerTimeout, RunnerDispatch, RunnerCheck,
         RunnerShutdown, RunnerLeave
  <2>2. QED BY <2>1
<1>6. CASE RequestStop
  BY <1>6 DEF RequestStop
<1>7. CASE StopStep
  BY <1>7 DEF StopStep, StopTake, StopJoin, Unregister, HandleFree
<1>8. CASE UNCHANGED vars
  BY <1>8 DEF vars
<1>9. QED
  BY <1>1, <1>2, <1>3, <1>4, <1>5, <1>6, <1>7, <1>8
     DEF Next, PushStep, Terminated

LEMMA LockHolds == Spec => [](Typed /\ LockInv /\ LiveInv)
  BY InitTyped, NextTyped, InitLock, NextLock, PTL DEF Spec

LEMMA LiveIsSingle == LockInv /\ LiveInv => SingleRunner
  BY RuntimeAssumption DEF LockInv, LiveInv, SingleRunner, Alive

\* Two runner threads never live at once, whatever pushes, panics, failed
\* spawns and the stop do, and however they interleave.
THEOREM SingleRunnerHolds == Spec => []SingleRunner
  BY LockHolds, LiveIsSingle, PTL
-----------------------------------------------------------------------------
(* The order of dispatch.  Seen from the queue, a step of the runtime       *)
(* accepts a task, takes the oldest one, ends the one being dispatched, or  *)
(* leaves all three alone.                                                  *)

TakeOldest ==
    /\ Current = << >>
    /\ queue # << >>
    /\ Current' = <<Head(queue)>>
    /\ queue' = Tail(queue)
    /\ UNCHANGED <<accepted, ended>>

EndCurrent ==
    /\ Current # << >>
    /\ Current' = << >>
    /\ ended' = Append(ended, Current[1])
    /\ UNCHANGED <<accepted, queue>>

Elsewhere == UNCHANGED <<queue, Current, ended, accepted>>

LEMMA CurrentOfBusy ==
    ASSUME Typed, SingleRunner, NEW r \in Threads, rpc[r] = "dispatch"
    PROVE  Busy = {r} /\ Current = <<task[r]>>
<1>1. Busy = {r}
  BY DEF Busy, SingleRunner, Alive
<1>2. QED BY <1>1 DEF Current

LEMMA StepEffect ==
    Typed /\ LockInv /\ LiveInv /\ [Next]_vars =>
        \/ Elsewhere
        \/ TakeOldest
        \/ EndCurrent
        \/ \E p \in Publishers : PushEnqueue(p) /\ UNCHANGED <<Current, ended>>
<1> SUFFICES ASSUME Typed, LockInv, LiveInv, [Next]_vars,
                    ~Elsewhere, ~TakeOldest, ~EndCurrent
             PROVE  \E p \in Publishers :
                        PushEnqueue(p) /\ UNCHANGED <<Current, ended>>
  OBVIOUS
<1>0. SingleRunner
  BY LiveIsSingle
<1>1. ASSUME UNCHANGED <<Busy, task>> PROVE UNCHANGED Current
  BY <1>1 DEF Current
<1>2. ASSUME NEW p \in Publishers, Publish(p) PROVE FALSE
  BY <1>1, <1>2 DEF Publish, Elsewhere, Busy, queueVars, runnerVars
<1>3. ASSUME NEW p \in Publishers, PushCheck(p) \/ PushRecheck(p) PROVE FALSE
  <2>1. UNCHANGED Busy
    BY <1>3 DEF PushCheck, PushRecheck, EnsureRunner, SpawnRunner, Busy, Alive,
                Typed
  <2>2. UNCHANGED <<queueVars, task, ended>>
    BY <1>3 DEF PushCheck, PushRecheck
  <2>3. QED BY <2>1, <2>2, <1>1 DEF Elsewhere, queueVars
<1>4. ASSUME NEW p \in Publishers, PushRefuse(p) PROVE FALSE
  BY <1>1, <1>4 DEF PushRefuse, Elsewhere, Busy, queueVars, runnerVars
<1>5. ASSUME NEW p \in Publishers, PushEnqueue(p)
      PROVE  UNCHANGED <<Current, ended>>
  BY <1>1, <1>5 DEF PushEnqueue, Busy, runnerVars
<1>6. ASSUME NEW r \in Threads, RunnerReceive(r) PROVE FALSE
  <2>1. /\ rpc[r] \in {"recv", "wait"}
        /\ rpc' = [rpc EXCEPT ![r] = "dispatch"]
        /\ task' = [task EXCEPT ![r] = Head(queue)]
        /\ queue # << >> /\ queue' = Tail(queue)
        /\ UNCHANGED <<accepted, ended>>
    BY <1>6 DEF RunnerReceive, Goto, OldestTask
  <2>2. Busy = {} /\ Busy' = {r}
    BY <1>0, <2>1 DEF Busy, SingleRunner, Alive, Typed
  <2>3. Current = << >>
    BY <2>2 DEF Current
  <2>4. Current' = <<Head(queue)>>
    BY <2>1, <2>2 DEF Current, Typed
  <2>5. QED BY <2>1, <2>3, <2>4 DEF TakeOldest
<1>7. ASSUME NEW r \in Threads, RunnerDispatch(r) \/ RunnerPanic(r) PROVE FALSE
  <2>1. /\ rpc[r] = "dispatch"
        /\ rpc' \in {[rpc EXCEPT ![r] = "check"], [rpc EXCEPT ![r] = "dead"]}
        /\ ended' = Append(ended, task[r])
        /\ UNCHANGED <<accepted, queue>>
    BY <1>7 DEF RunnerDispatch, RunnerPanic, Goto, queueVars
  <2>2. Current = <<task[r]>> /\ Busy = {r}
    BY <1>0, <2>1, CurrentOfBusy
  <2>3. Busy' = {}
    BY <1>0, <2>1 DEF Busy, SingleRunner, Alive, Typed
  <2>4. Current' = << >>
    BY <2>3 DEF Current
  <2>5. QED BY <2>1, <2>2, <2>4 DEF EndCurrent
<1>8. ASSUME NEW r \in Threads,
             \/ RunnerStart(r) \/ RunnerContinue(r) \/ RunnerWait(r)
             \/ RunnerTimeout(r) \/ RunnerCheck(r) \/ RunnerShutdown(r)
             \/ RunnerLeave(r)
      PROVE  FALSE
  <2>1. UNCHANGED <<queueVars, task, ended>>
    BY <1>8 DEF RunnerStart, RunnerContinue, RunnerWait, RunnerTimeout, RunnerCheck,
         RunnerShutdown, RunnerLeave
  <2>2. UNCHANGED Busy
    BY <1>8 DEF RunnerStart, RunnerContinue, RunnerWait, RunnerTimeout, RunnerCheck,
         RunnerShutdown, RunnerLeave, Goto, Busy, Typed
  <2>3. QED BY <2>1, <2>2, <1>1 DEF Elsewhere, queueVars
<1>9. CASE RequestStop \/ StopStep \/ UNCHANGED vars
  BY <1>1, <1>9 DEF RequestStop, StopStep, StopTake, StopJoin, Unregister, vars,
       Elsewhere, Busy, queueVars, runnerVars
<1>10. QED
  BY <1>2, <1>3, <1>4, <1>5, <1>6, <1>7, <1>8, <1>9
     DEF Next, PushStep, RunnerStep, Terminated
-----------------------------------------------------------------------------
(* Each task once, in order.  Ids come from one counter, so a publisher on  *)
(* its way to the queue carries an id that nobody else has and that was     *)
(* never accepted.                                                          *)

Carries(p) == pc[p] \in {"push", "enqueue"}

IdInv ==
    /\ nextId >= 1 /\ nextId <= MaxTasks + 1
    /\ \A i \in DOMAIN accepted : accepted[i] \in 1..nextId-1
    /\ \A p \in Publishers : Carries(p) =>
         /\ id[p] \in 1..nextId-1
         /\ \A i \in DOMAIN accepted : accepted[i] # id[p]
    /\ \A p, q \in Publishers : Carries(p) /\ Carries(q) /\ p # q => id[p] # id[q]
    /\ \A i, j \in DOMAIN accepted : accepted[i] = accepted[j] => i = j

LEMMA InitIds == Init => IdInv
  BY RuntimeAssumption DEF Init, IdInv, Carries

LEMMA NextIds == Typed /\ IdInv /\ [Next]_vars => IdInv'
<1> SUFFICES ASSUME Typed, IdInv, [Next]_vars PROVE IdInv'
  OBVIOUS
<1> USE RuntimeAssumption DEF IdInv, Carries
<1>1. ASSUME NEW p \in Publishers, Publish(p) PROVE IdInv'
  <2>1. /\ UNCHANGED accepted
        /\ nextId \in 1..MaxTasks /\ nextId' = nextId + 1 /\ id'[p] = nextId
        /\ \A q \in Publishers : q # p => UNCHANGED <<id[q], pc[q]>>
    BY <1>1 DEF Publish, queueVars, Typed
  <2>2. \A i \in DOMAIN accepted : accepted[i] \in 1..nextId'-1 /\ accepted[i] # nextId
    BY <2>1
  <2>3. \A q \in Publishers : q # p /\ Carries(q)'
                              => id'[q] \in 1..nextId-1 /\ id'[q] # nextId
    BY <2>1
  <2>4. QED BY <2>1, <2>2, <2>3
<1>2. ASSUME NEW p \in Publishers, PushCheck(p) \/ PushRecheck(p) PROVE IdInv'
  <2>1. UNCHANGED <<accepted, id, nextId>>
    BY <1>2 DEF PushCheck, PushRecheck, queueVars
  <2>2. \A q \in Publishers : Carries(q)' => Carries(q)
    BY <1>2 DEF PushCheck, PushRecheck, EnsureRunner, Typed
  <2>3. QED BY <2>1, <2>2
<1>3. ASSUME NEW p \in Publishers, PushRefuse(p) PROVE IdInv'
  BY <1>3 DEF PushRefuse, queueVars, Typed
<1>4. ASSUME NEW p \in Publishers, PushEnqueue(p) PROVE IdInv'
  <2>1. /\ Carries(p)
        /\ accepted' = Append(accepted, id[p])
        /\ UNCHANGED <<id, nextId>>
        /\ pc' = [pc EXCEPT ![p] = "recheck"]
    BY <1>4 DEF PushEnqueue
  <2>2. /\ Len(accepted) \in Nat
        /\ DOMAIN accepted = 1..Len(accepted)
        /\ DOMAIN accepted' = 1..Len(accepted)+1
        /\ \A i \in DOMAIN accepted : accepted'[i] = accepted[i]
        /\ accepted'[Len(accepted) + 1] = id[p]
    <3>1. accepted \in Seq(Nat) /\ id[p] \in Nat
      BY DEF Typed
    <3>2. QED BY <2>1, <3>1, AppendProperties, LenProperties
  <2>3. ~Carries(p)' /\ \A q \in Publishers : Carries(q)' => Carries(q) /\ q # p
    BY <2>1 DEF Typed
  <2>4. \A i \in DOMAIN accepted' : i \in DOMAIN accepted \/ accepted'[i] = id[p]
    BY <2>2
  <2>5. \A i \in DOMAIN accepted' : accepted'[i] \in 1..nextId-1
    <3>1. id[p] \in 1..nextId-1
      BY <2>1
    <3>2. QED BY <2>2, <2>4, <3>1
  <2>6. \A i, j \in DOMAIN accepted' : accepted'[i] = accepted'[j] => i = j
    BY <2>1, <2>2, LenProperties DEF Typed
  <2>7. \A q \in Publishers : Carries(q)' =>
           \A i \in DOMAIN accepted' : accepted'[i] # id[q]
    BY <2>1, <2>2, <2>3, <2>4
  <2>8. QED BY <2>1, <2>3, <2>5, <2>6, <2>7
<1>5. ASSUME NEW r \in Threads, RunnerStep(r) \/ RunnerPanic(r) PROVE IdInv'
  <2>1. UNCHANGED <<accepted, pc, id, nextId>>
    BY <1>5 DEF RunnerStep, RunnerPanic, RunnerStart, RunnerContinue, RunnerReceive,
         RunnerWait, RunnerTimeout, RunnerDispatch, RunnerCheck, RunnerShutdown,
         RunnerLeave, queueVars, callerVars
  <2>2. QED BY <2>1
<1>6. CASE RequestStop \/ StopStep \/ UNCHANGED vars
  <2>1. UNCHANGED <<accepted, pc, id, nextId>>
    BY <1>6 DEF RequestStop, StopStep, StopTake, StopJoin, Unregister, vars,
         queueVars, callerVars
  <2>2. QED BY <2>1
<1>7. QED
  BY <1>1, <1>2, <1>3, <1>4, <1>5, <1>6 DEF Next, PushStep, Terminated

InOrder == accepted = (ended \o Current) \o queue

LEMMA HeadFirst ==
    ASSUME NEW S, NEW s \in Seq(S), s # << >>
    PROVE  s = <<Head(s)>> \o Tail(s)
<1> DEFINE t == <<Head(s)>> \o Tail(s)
<1>1. /\ Head(s) \in S /\ Tail(s) \in Seq(S)
      /\ Len(Tail(s)) = Len(s) - 1
      /\ \A i \in 1..Len(Tail(s)) : Tail(s)[i] = s[i+1]
      /\ Head(s) = s[1] /\ Len(s) \in Nat \ {0}
  BY HeadTailProperties, EmptySeq
<1>2. <<Head(s)>> \in Seq(S) /\ Len(<<Head(s)>>) = 1 /\ <<Head(s)>>[1] = s[1]
  BY <1>1
<1>3. /\ t \in Seq(S) /\ Len(t) = Len(s)
      /\ \A i \in 1..Len(s) :
            t[i] = IF i <= 1 THEN <<Head(s)>>[i] ELSE Tail(s)[i - 1]
  BY <1>1, <1>2, ConcatProperties
<1>4. \A i \in 1..Len(s) : t[i] = s[i]
  BY <1>1, <1>2, <1>3
<1>5. QED BY <1>3, <1>4, SeqEqual

LEMMA Regroup ==
    ASSUME NEW a \in Seq(Nat), NEW b \in Seq(Nat), NEW c \in Seq(Nat)
    PROVE  (a \o b) \o c = a \o (b \o c)
  BY ConcatAssociative

LEMMA TwoRanges ==
    ASSUME NEW a \in Seq(Nat), NEW b \in Seq(Nat)
    PROVE  Range(a \o b) = Range(a) \cup Range(b)
  BY RangeConcatenation

LEMMA ThreeRanges ==
    ASSUME NEW a \in Seq(Nat), NEW b \in Seq(Nat), NEW c \in Seq(Nat)
    PROVE  Range((a \o b) \o c) = (Range(a) \cup Range(b)) \cup Range(c)
<1>1. a \o b \in Seq(Nat)
  BY ConcatProperties
<1>2. Range(a \o b) = Range(a) \cup Range(b)
  BY TwoRanges
<1>3. Range((a \o b) \o c) = Range(a \o b) \cup Range(c)
  BY <1>1, TwoRanges
<1>4. QED BY <1>2, <1>3

LEMMA CurrentTyped == Typed => Current \in Seq(Nat)
  BY DEF Typed, Current, Busy

LEMMA NextInOrder ==
    Typed /\ Typed' /\ LockInv /\ LiveInv /\ InOrder /\ [Next]_vars => InOrder'
<1> SUFFICES ASSUME Typed, Typed', LockInv, LiveInv, InOrder, [Next]_vars
             PROVE  InOrder'
  OBVIOUS
<1>0. /\ queue \in Seq(Nat) /\ ended \in Seq(Nat) /\ accepted \in Seq(Nat)
      /\ Current \in Seq(Nat) /\ ended \o Current \in Seq(Nat)
  BY CurrentTyped, ConcatProperties DEF Typed
<1>1. CASE Elsewhere
  BY <1>1 DEF Elsewhere, InOrder
<1>2. CASE TakeOldest
  <2>1. Head(queue) \in Nat /\ Tail(queue) \in Seq(Nat) /\ <<Head(queue)>> \in Seq(Nat)
    BY <1>0, <1>2, HeadTailProperties DEF TakeOldest
  <2>2. queue = <<Head(queue)>> \o Tail(queue)
    BY <1>0, <1>2, HeadFirst DEF TakeOldest
  <2>3. ended \o Current = ended
    BY <1>0, <1>2, ConcatEmptySeq DEF TakeOldest
  <2>4. (ended \o <<Head(queue)>>) \o Tail(queue)
            = ended \o (<<Head(queue)>> \o Tail(queue))
    <3>1. ended \in Seq(Nat)
      BY <1>0
    <3>2. QED BY <2>1, <3>1, Regroup
  <2>5. accepted = ended \o queue
    BY <1>0, <2>3, ConcatEmptySeq DEF InOrder
  <2>6. QED BY <1>2, <2>2, <2>4, <2>5 DEF TakeOldest, InOrder
<1>3. CASE EndCurrent
  <2>1. Len(Current) = 1 /\ Current = <<Current[1]>> /\ Current[1] \in Nat
    <3>1. Busy # {}
      BY <1>3 DEF EndCurrent, Current
    <3>2. PICK r \in Threads : rpc[r] = "dispatch"
      BY <3>1 DEF Busy
    <3>3. Current = <<task[r]>> /\ task[r] \in Nat
      BY <3>2, CurrentOfBusy, LiveIsSingle DEF Typed
    <3>4. QED BY <3>3
  <2>2. ended' = ended \o Current
    BY <1>0, <1>3, <2>1, AppendIsConcat DEF EndCurrent
  <2>3. ended' \o << >> = ended'
    BY ConcatEmptySeq DEF Typed
  <2>4. QED BY <1>3, <2>2, <2>3 DEF EndCurrent, InOrder
<1>4. ASSUME NEW p \in Publishers, PushEnqueue(p), UNCHANGED <<Current, ended>>
      PROVE  InOrder'
  <2>1. id[p] \in Nat /\ <<id[p]>> \in Seq(Nat)
    BY DEF Typed
  <2>2. /\ queue' = queue \o <<id[p]>>
        /\ accepted' = accepted \o <<id[p]>>
    BY <1>0, <1>4, <2>1, AppendIsConcat DEF PushEnqueue
  <2>3. ((ended \o Current) \o queue) \o <<id[p]>>
            = (ended \o Current) \o (queue \o <<id[p]>>)
    BY <1>0, <2>1, Regroup
  <2>4. QED BY <1>4, <2>2, <2>3 DEF InOrder
<1>5. QED BY <1>1, <1>2, <1>3, <1>4, StepEffect

LEMMA InitInOrder == Init => InOrder
<1> SUFFICES ASSUME Init PROVE InOrder
  OBVIOUS
<1>1. Busy = {}
  BY DEF Init, Busy
<1>2. Current = << >>
  BY <1>1 DEF Current
<1>3. QED BY <1>2, ConcatEmptySeq, EmptySeq DEF Init, InOrder

LEMMA OrderHolds == Spec => [](Typed /\ LockInv /\ LiveInv /\ IdInv /\ InOrder)
  BY InitTyped, NextTyped, InitLock, NextLock, InitIds, NextIds, InitInOrder,
     NextInOrder, PTL DEF Spec

\* Every accepted task is ended, being dispatched or still queued, exactly one
\* of them, and tasks are dispatched once and in the order of acceptance.
THEOREM ExactlyOnceHolds == Spec => []ExactlyOnceInOrder
<1>1. IdInv /\ InOrder => ExactlyOnceInOrder
  BY DEF IdInv, InOrder, ExactlyOnceInOrder
<1>2. QED BY <1>1, OrderHolds, PTL
-----------------------------------------------------------------------------
(* The refinement.                                                          *)

LEMMA InitRefines == Init => Abstract!AbstractInit
<1>1. Init => Busy = {}
  BY DEF Init, Busy
<1>2. QED BY <1>1 DEF Init, Abstract!AbstractInit, Current

LEMMA NextRefines ==
    Typed /\ LockInv /\ LiveInv /\ IdInv /\ InOrder /\ [Next]_vars
        => [Abstract!AbstractNext]_Abstract!abstractVars
<1> SUFFICES ASSUME Typed, LockInv, LiveInv, IdInv, InOrder, [Next]_vars
             PROVE  [Abstract!AbstractNext]_Abstract!abstractVars
  OBVIOUS
<1>0. Current \in Seq(Nat)
  BY CurrentTyped
<1>1. CASE Elsewhere
  BY <1>1 DEF Elsewhere, Abstract!abstractVars
<1>2. CASE TakeOldest
  BY <1>2 DEF TakeOldest, Abstract!AbstractNext, Abstract!Begin
<1>3. CASE EndCurrent
  <2>1. PICK r \in Threads : rpc[r] = "dispatch"
    BY <1>3 DEF EndCurrent, Current, Busy
  <2>2. Current = <<task[r]>> /\ task[r] \in Nat
    BY <2>1, CurrentOfBusy, LiveIsSingle DEF Typed
  <2>3. ended' = ended \o Current
    BY <1>3, <2>2, AppendIsConcat DEF EndCurrent, Typed
  <2>4. QED BY <1>3, <2>3 DEF EndCurrent, Abstract!AbstractNext, Abstract!End
<1>4. ASSUME NEW p \in Publishers, PushEnqueue(p), UNCHANGED <<Current, ended>>
      PROVE  Abstract!AbstractNext
  <2>1. /\ id[p] \in 1..MaxTasks
        /\ \A i \in DOMAIN accepted : accepted[i] # id[p]
    BY <1>4, RuntimeAssumption DEF PushEnqueue, IdInv, Carries, Typed
  <2>2. Capacity = 0 \/ Len(queue) < Capacity
    BY <1>4, RuntimeAssumption DEF PushEnqueue, Full, Typed
  <2>3. Range(accepted) = (Range(ended) \cup Range(Current)) \cup Range(queue)
    <3>1. ended \in Seq(Nat) /\ queue \in Seq(Nat)
      BY DEF Typed
    <3>2. Range((ended \o Current) \o queue)
              = (Range(ended) \cup Range(Current)) \cup Range(queue)
      BY <1>0, <3>1, ThreeRanges
    <3>3. QED BY <3>2 DEF InOrder
  <2>4. id[p] \notin Range(accepted)
    <3>1. \A i \in DOMAIN accepted : accepted[i] # id[p]
      BY <2>1
    <3>2. QED BY <3>1 DEF Range
  <2>5. id[p] \notin Abstract!Elements(queue) \cup Abstract!Elements(Current)
                       \cup Abstract!Elements(ended)
    BY <2>3, <2>4 DEF Range, Abstract!Elements
  <2>6. Abstract!Submit(id[p])
    BY <1>4, <2>2, <2>5 DEF PushEnqueue, Abstract!Submit
  <2>7. QED BY <2>1, <2>6 DEF Abstract!AbstractNext
<1>5. QED BY <1>1, <1>2, <1>3, <1>4, StepEffect

\* The runtime implements the serial executor: seen through its queue, the task
\* being dispatched and the tasks ended, every step accepts a fresh task within
\* the capacity, begins the oldest or ends the current one.
THEOREM RuntimeRefinesExecutor == Spec => ImplementsSerialExecutor
  BY OrderHolds, InitRefines, NextRefines, PTL
     DEF Spec, ImplementsSerialExecutor, Abstract!AbstractSpec

-----------------------------------------------------------------------------
(* The bookkeeping of the queue.                                            *)

LEMMA InitAccounting == Init => QueueAccounting
  BY RuntimeAssumption DEF Init, QueueAccounting

LEMMA NextAccounting == Typed /\ QueueAccounting /\ [Next]_vars => QueueAccounting'
<1> SUFFICES ASSUME Typed, QueueAccounting, [Next]_vars PROVE QueueAccounting'
  OBVIOUS
<1>0. Len(queue) \in Nat /\ Capacity \in Nat
  BY RuntimeAssumption DEF Typed
<1>1. ASSUME NEW p \in Publishers, PushEnqueue(p) PROVE QueueAccounting'
  <2>1. Len(queue') = Len(queue) + 1
    BY <1>1, AppendProperties DEF PushEnqueue, Typed
  <2>2. /\ stats'.pushed = stats.pushed + 1 /\ stats'.popped = stats.popped
        /\ stats'.max = Larger(stats.max, Len(queue) + 1)
        /\ ~Full
    BY <1>1 DEF PushEnqueue
  <2>3. stats.pushed \in Nat /\ stats.popped \in Nat /\ stats.max \in Nat
    BY DEF Typed
  <2>4. QED BY <1>0, <2>1, <2>2, <2>3 DEF QueueAccounting, Full, Larger
<1>2. ASSUME NEW r \in Threads, RunnerReceive(r) PROVE QueueAccounting'
  <2>1. Len(queue') = Len(queue) - 1
    BY <1>2, HeadTailProperties DEF RunnerReceive, Typed
  <2>2. /\ stats'.pushed = stats.pushed /\ stats'.popped = stats.popped + 1
        /\ stats'.max = stats.max
    BY <1>2 DEF RunnerReceive
  <2>3. stats.pushed \in Nat /\ stats.popped \in Nat /\ stats.max \in Nat
    BY DEF Typed
  <2>4. QED BY <1>0, <2>1, <2>2, <2>3 DEF QueueAccounting
<1>3. CASE UNCHANGED <<queue, stats>>
  BY <1>3 DEF QueueAccounting
<1>4. QED
  BY <1>1, <1>2, <1>3
     DEF Next, PushStep, RunnerStep, Terminated, Publish, PushCheck, PushRefuse,
         PushRecheck, RunnerPanic, RunnerStart, RunnerContinue, RunnerWait,
         RunnerTimeout, RunnerDispatch, RunnerCheck, RunnerShutdown, RunnerLeave,
         RequestStop, StopStep, StopTake, StopJoin, Unregister, queueVars, vars

\* The queue stays within its capacity and QueueStats agrees with its contents.
THEOREM QueueAccountingHolds == Spec => []QueueAccounting
  BY InitTyped, NextTyped, InitAccounting, NextAccounting, PTL DEF Spec

-----------------------------------------------------------------------------
(* The counter of runners, and with it the whole type invariant.            *)

Counted == IF \E r \in Threads : rpc[r] \in InRun THEN 1 ELSE 0

CountInv == active_runners = panics + Counted

LEMMA InitCount == Init => CountInv
  BY DEF Init, CountInv, Counted, InRun, InLoop

LEMMA NextCount ==
    Typed /\ LockInv /\ LiveInv /\ CountInv /\ [Next]_vars => CountInv'
<1> SUFFICES ASSUME Typed, LockInv, LiveInv, CountInv, [Next]_vars
             PROVE  CountInv'
  OBVIOUS
<1> DEFINE In(r) == rpc[r] \in InRun
<1>0. \A r, s \in Threads : In(r) /\ In(s) => r = s
  BY LiveIsSingle DEF SingleRunner, Alive, InRun, InLoop
<1>1. ASSUME UNCHANGED <<active_runners, panics>>,
             \A t \in Threads : In(t)' <=> In(t)
      PROVE  CountInv'
  BY <1>1 DEF CountInv, Counted
<1>2. ASSUME NEW p \in Publishers, PushCheck(p) \/ PushRecheck(p) PROVE CountInv'
  <2>1. UNCHANGED <<active_runners, panics>>
    BY <1>2 DEF PushCheck, PushRecheck
  <2>2. \A t \in Threads : In(t)' <=> In(t)
    BY <1>2 DEF PushCheck, PushRecheck, EnsureRunner, SpawnRunner, Alive, InRun,
                InLoop, Typed
  <2>3. QED BY <1>1, <2>1, <2>2
<1>3. ASSUME NEW r \in Threads, RunnerStart(r) PROVE CountInv'
  <2>1. /\ rpc[r] = "start" /\ rpc' = [rpc EXCEPT ![r] = "loop"]
        /\ active_runners' = active_runners + 1 /\ panics' = panics
    BY <1>3 DEF RunnerStart, Goto
  <2>2. \A t \in Threads : ~In(t)
    BY <2>1, LiveIsSingle DEF SingleRunner, Alive, InRun, InLoop
  <2>3. In(r)'
    BY <2>1 DEF InRun, InLoop, Typed
  <2>4. QED BY <2>1, <2>2, <2>3 DEF CountInv, Counted, Typed
<1>4. ASSUME NEW r \in Threads, RunnerLeave(r) PROVE CountInv'
  <2>1. /\ rpc[r] = "leave" /\ rpc' = [rpc EXCEPT ![r] = "dead"]
        /\ active_runners' = active_runners - 1 /\ panics' = panics
    BY <1>4 DEF RunnerLeave, Goto
  <2>2. In(r) /\ \A t \in Threads : ~In(t)'
    BY <1>0, <2>1 DEF InRun, InLoop, Typed
  <2>3. QED BY <2>1, <2>2 DEF CountInv, Counted, Typed
<1>5. ASSUME NEW r \in Threads, RunnerPanic(r) PROVE CountInv'
  <2>1. /\ rpc[r] = "dispatch" /\ rpc' = [rpc EXCEPT ![r] = "dead"]
        /\ active_runners' = active_runners /\ panics' = panics + 1
    BY <1>5 DEF RunnerPanic, Goto
  <2>2. In(r) /\ \A t \in Threads : ~In(t)'
    BY <1>0, <2>1 DEF InRun, InLoop, Typed
  <2>3. QED BY <2>1, <2>2 DEF CountInv, Counted, Typed
<1>6. ASSUME NEW r \in Threads,
             \/ RunnerContinue(r) \/ RunnerReceive(r) \/ RunnerWait(r)
             \/ RunnerTimeout(r) \/ RunnerDispatch(r) \/ RunnerCheck(r)
             \/ RunnerShutdown(r)
      PROVE  CountInv'
  <2>1. UNCHANGED <<active_runners, panics>>
    BY <1>6 DEF RunnerContinue, RunnerReceive, RunnerWait, RunnerTimeout,
         RunnerDispatch, RunnerCheck, RunnerShutdown
  <2>2. In(r) /\ \E b \in InRun : rpc' = [rpc EXCEPT ![r] = b]
    BY <1>6 DEF RunnerContinue, RunnerReceive, RunnerWait, RunnerTimeout,
         RunnerDispatch, RunnerCheck, RunnerShutdown, Goto, InRun, InLoop
  <2>3. QED BY <1>1, <2>1, <2>2 DEF Typed
<1>7. CASE UNCHANGED <<rpc, active_runners, panics>>
  BY <1>1, <1>7
<1>8. QED
  BY <1>2, <1>3, <1>4, <1>5, <1>6, <1>7
     DEF Next, PushStep, RunnerStep, Terminated, Publish, PushRefuse, PushEnqueue,
         RequestStop, StopStep, StopTake, StopJoin, Unregister, runnerVars, vars

LEMMA CountHolds == Spec => [](Typed /\ LockInv /\ LiveInv /\ CountInv)
  BY InitTyped, NextTyped, InitLock, NextLock, InitCount, NextCount, PTL DEF Spec

\* active_runners counts the runner inside run plus one for every panic.
THEOREM RunnerCountHolds == Spec => []RunnerCount
<1>1. Typed /\ LockInv /\ LiveInv /\ CountInv => RunnerCount
  <2> SUFFICES ASSUME Typed, LockInv, LiveInv, CountInv PROVE RunnerCount
    OBVIOUS
  <2> DEFINE Inside == {r \in Threads : rpc[r] \in InRun}
  <2>1. CASE Inside = {}
    <3>1. ~ \E r \in Threads : rpc[r] \in InRun
      BY <2>1
    <3>2. active_runners = panics
      BY <3>1 DEF CountInv, Counted, Typed
    <3>3. Cardinality(Inside) = 0
      BY <2>1, FS_EmptySet
    <3>4. QED BY <3>2, <3>3 DEF RunnerCount, Typed
  <2>2. ASSUME NEW r \in Inside PROVE RunnerCount
    <3>1. Inside = {r}
      BY <2>2, LiveIsSingle DEF SingleRunner, Alive, InRun, InLoop
    <3>2. Cardinality(Inside) = 1
      BY <3>1, FS_Singleton
    <3>3. active_runners = panics + 1
      BY <2>2 DEF CountInv, Counted
    <3>4. QED BY <3>2, <3>3 DEF RunnerCount, Typed
  <2>3. QED BY <2>1, <2>2
<1>2. QED BY <1>1, CountHolds, PTL

\* The variables have their types, and active_runners never wraps below zero.
THEOREM TypeOKHolds == Spec => []TypeOK
<1>1. Typed /\ CountInv => TypeOK
  BY DEF TypeOK, CountInv, Counted, Typed
<1>2. QED BY <1>1, CountHolds, PTL
-----------------------------------------------------------------------------
(* Stopped is final: whoever set it was the only runner alive and past its   *)
(* loop, and a respawned runner reads the lifecycle before it receives.      *)

InBody(r) == rpc[r] \in {"recv", "wait", "dispatch", "check"}

StoppedInv == lifecycle = "Stopped" => \A r \in Threads : ~InBody(r)

LEMMA InitStopped == Init => StoppedInv
  BY DEF Init, StoppedInv

LEMMA NextStopped ==
    Typed /\ LockInv /\ LiveInv /\ StoppedInv /\ [Next]_vars => StoppedInv'
<1> SUFFICES ASSUME Typed, LockInv, LiveInv, StoppedInv, [Next]_vars,
                    lifecycle' = "Stopped"
             PROVE  \A r \in Threads : ~InBody(r)'
  BY DEF StoppedInv
<1>1. ASSUME NEW p \in Publishers, Publish(p) \/ PushStep(p)
      PROVE  \A r \in Threads : ~InBody(r)'
  BY <1>1 DEF PushStep, Publish, PushCheck, PushRefuse, PushEnqueue, PushRecheck,
       EnsureRunner, SpawnRunner, StoppedInv, InBody, runnerVars, Typed
<1>2. ASSUME NEW r \in Threads, RunnerShutdown(r)
      PROVE  \A t \in Threads : ~InBody(t)'
  <2>1. rpc[r] = "shutdown" /\ rpc' = [rpc EXCEPT ![r] = "leave"]
    BY <1>2 DEF RunnerShutdown, Goto
  <2>2. \A t \in Threads : t # r => rpc[t] = "dead"
    BY <2>1, LiveIsSingle DEF SingleRunner, Alive
  <2>3. QED BY <2>1, <2>2 DEF InBody, Typed
<1>3. ASSUME NEW r \in Threads, RunnerStep(r) \/ RunnerPanic(r), ~RunnerShutdown(r)
      PROVE  \A t \in Threads : ~InBody(t)'
  <2>1. lifecycle = "Stopped"
    BY <1>3 DEF RunnerStep, RunnerPanic, RunnerStart, RunnerContinue, RunnerReceive,
         RunnerWait, RunnerTimeout, RunnerDispatch, RunnerCheck, RunnerLeave
  <2>2. QED
    BY <1>3, <2>1 DEF RunnerStep, RunnerPanic, RunnerStart, RunnerContinue,
         RunnerReceive, RunnerWait, RunnerTimeout, RunnerDispatch, RunnerCheck,
         RunnerLeave, Goto, ShouldContinue, StoppedInv, InBody, Typed
<1>4. CASE RequestStop \/ StopStep \/ UNCHANGED vars
  BY <1>4 DEF RequestStop, StopStep, StopTake, StopJoin, Unregister, StoppedInv,
       InBody, runnerVars, vars
<1>5. QED
  BY <1>1, <1>2, <1>3, <1>4 DEF Next, Terminated, RunnerStep

LEMMA StoppedHolds == Spec => [](Typed /\ LockInv /\ LiveInv /\ StoppedInv)
  BY InitTyped, NextTyped, InitLock, NextLock, InitStopped, NextStopped, PTL DEF Spec

\* Once the lifecycle is Stopped it stays so and nothing is taken or dispatched
\* any more, by the last runner or by one that a later push spawns.
THEOREM StoppedIsFinalHolds == Spec => StoppedIsFinal
<1> DEFINE Final ==
      lifecycle = "Stopped" =>
         /\ lifecycle' = "Stopped"
         /\ UNCHANGED <<ended, task>>
         /\ stats'.popped = stats.popped
<1>1. Typed /\ StoppedInv /\ [Next]_vars => [Final]_vars
  <2> SUFFICES ASSUME Typed, StoppedInv, [Next]_vars, lifecycle = "Stopped"
               PROVE  Final
    OBVIOUS
  <2>1. ASSUME NEW p \in Publishers, Publish(p) \/ PushStep(p) PROVE Final
    BY <2>1 DEF PushStep, Publish, PushCheck, PushRefuse, PushEnqueue, PushRecheck,
         queueVars, runnerVars
  <2>2. ASSUME NEW r \in Threads, RunnerStep(r) \/ RunnerPanic(r) PROVE Final
    <3>1. ~InBody(r)
      BY DEF StoppedInv
    <3>2. QED
      BY <2>2, <3>1 DEF InBody, RunnerStep, RunnerPanic, RunnerStart, RunnerContinue,
           RunnerReceive, RunnerWait, RunnerTimeout, RunnerDispatch, RunnerCheck,
           RunnerShutdown, RunnerLeave, Goto, queueVars
  <2>3. CASE RequestStop \/ StopStep \/ UNCHANGED vars
    BY <2>3 DEF RequestStop, StopStep, StopTake, StopJoin, Unregister, queueVars,
         runnerVars, vars
  <2>4. QED BY <2>1, <2>2, <2>3 DEF Next, Terminated
<1>2. QED BY <1>1, StoppedHolds, PTL DEF Spec, StoppedIsFinal

-----------------------------------------------------------------------------
(* The graceful stop.  Without panics a runner leaves its loop only after it *)
(* saw the queue empty while stopping, and the joining thread waits for it.  *)

Kept == stop # "idle" /\ Len(ended) >= promised

StopInv ==
    /\ stop = "idle" <=> lifecycle \in {"Created", "Running"}
    /\ \A r \in Threads : rpc[r] \in InRun => lifecycle # "Created"
    /\ \A r \in Threads : rpc[r] \in {"shutdown", "leave"} => stop # "idle"
    /\ promised <= Len(accepted)
    /\ \A p \in Publishers : Holds(p) => handle \in Threads

DrainInv ==
    panics = 0 =>
        /\ \A r \in Threads : rpc[r] \in {"shutdown", "leave"} => Kept
        /\ lifecycle = "Stopped" => Kept
        /\ handle \in Threads /\ rpc[handle] = "dead" => Kept
        /\ stop = "joining" /\ rpc[joinee] = "dead" => Kept
        /\ handle = None /\ stop \in {"idle", "take"} => accepted = << >>
        /\ stop \in {"unregister", "done"} => Kept

LEMMA InitStop == Init => StopInv /\ DrainInv
  BY RuntimeAssumption, EmptySeq
     DEF Init, StopInv, DrainInv, InRun, InLoop, Holds

LEMMA NextStop ==
    Typed /\ LockInv /\ LiveInv /\ StopInv /\ [Next]_vars => StopInv'
<1> SUFFICES ASSUME Typed, LockInv, LiveInv, StopInv, [Next]_vars PROVE StopInv'
  OBVIOUS
<1>0. Len(accepted) \in Nat
  BY DEF Typed
<1> USE DEF StopInv, InRun, InLoop, Holds
<1>1. ASSUME NEW p \in Publishers, Publish(p) \/ PushRefuse(p) PROVE StopInv'
  BY <1>1 DEF Publish, PushRefuse, queueVars, runnerVars, stopVars, Typed
<1>2. ASSUME NEW p \in Publishers, PushCheck(p) \/ PushRecheck(p) PROVE StopInv'
  BY <1>2, RuntimeAssumption
     DEF PushCheck, PushRecheck, EnsureRunner, SpawnRunner, RunnerIsDead, HandleFree,
         queueVars, stopVars, Typed
<1>3. ASSUME NEW p \in Publishers, PushEnqueue(p) PROVE StopInv'
  <2>1. Len(accepted') = Len(accepted) + 1
    BY <1>3, AppendProperties DEF PushEnqueue, Typed
  <2>2. QED BY <1>0, <1>3, <2>1 DEF PushEnqueue, runnerVars, stopVars, Typed
<1>4. ASSUME NEW r \in Threads, RunnerStep(r) \/ RunnerPanic(r) PROVE StopInv'
  <2>1. UNCHANGED <<accepted, stop, promised, pc, handle>>
    BY <1>4 DEF RunnerStep, RunnerPanic, RunnerStart, RunnerContinue, RunnerReceive,
         RunnerWait, RunnerTimeout, RunnerDispatch, RunnerCheck, RunnerShutdown,
         RunnerLeave, queueVars, callerVars, stopVars
  <2>2. stop = "idle" <=> lifecycle' \in {"Created", "Running"}
    BY <1>4 DEF RunnerStep, RunnerPanic, RunnerStart, RunnerContinue, RunnerReceive,
         RunnerWait, RunnerTimeout, RunnerDispatch, RunnerCheck, RunnerShutdown,
         RunnerLeave, Goto
  <2>3. lifecycle' = "Created" => lifecycle = "Created" /\ ~RunnerStart(r)
    BY <1>4 DEF RunnerStep, RunnerPanic, RunnerStart, RunnerContinue, RunnerReceive,
         RunnerWait, RunnerTimeout, RunnerDispatch, RunnerCheck, RunnerShutdown,
         RunnerLeave, Goto
  <2>4. \A t \in Threads : rpc'[t] \in InRun => lifecycle' # "Created"
    BY <1>4, <2>3 DEF RunnerStep, RunnerPanic, RunnerContinue, RunnerReceive,
         RunnerWait, RunnerTimeout, RunnerDispatch, RunnerCheck, RunnerShutdown,
         RunnerLeave, Goto, Typed
  <2>5. \A t \in Threads : rpc'[t] \in {"shutdown", "leave"} => stop # "idle"
    BY <1>4 DEF RunnerStep, RunnerPanic, RunnerStart, RunnerContinue, RunnerReceive,
         RunnerWait, RunnerTimeout, RunnerDispatch, RunnerCheck, RunnerShutdown,
         RunnerLeave, Goto, ShouldContinue, Drained, Typed, States
  <2>6. QED BY <2>1, <2>2, <2>4, <2>5
<1>5. CASE RequestStop
  BY <1>0, <1>5 DEF RequestStop, queueVars, runnerVars, callerVars, Typed, States
<1>6. CASE StopStep
  BY <1>6 DEF StopStep, StopTake, StopJoin, Unregister, HandleFree, queueVars,
       runnerVars, callerVars, Typed
<1>7. CASE UNCHANGED vars
  BY <1>7 DEF vars, queueVars, runnerVars, callerVars, stopVars
<1>8. QED
  BY <1>1, <1>2, <1>3, <1>4, <1>5, <1>6, <1>7 DEF Next, PushStep, Terminated

\* What was kept stays kept: nothing leaves `ended`, and `promised` is written
\* once, when the stop is requested.
LEMMA KeptStays == Typed /\ Kept /\ [Next]_vars => Kept'
<1> SUFFICES ASSUME Typed, Kept, [Next]_vars PROVE Kept'
  OBVIOUS
<1> USE DEF Kept
<1>1. ASSUME NEW p \in Publishers, Publish(p) \/ PushStep(p) PROVE Kept'
  BY <1>1 DEF PushStep, Publish, PushCheck, PushRefuse, PushEnqueue, PushRecheck,
       runnerVars, stopVars
<1>2. ASSUME NEW r \in Threads, RunnerStep(r) \/ RunnerPanic(r) PROVE Kept'
  <2>1. UNCHANGED <<stop, promised>>
    BY <1>2 DEF RunnerStep, RunnerPanic, RunnerStart, RunnerContinue, RunnerReceive,
         RunnerWait, RunnerTimeout, RunnerDispatch, RunnerCheck, RunnerShutdown,
         RunnerLeave, stopVars
  <2>2. ended' = ended \/ ended' = Append(ended, task[r])
    BY <1>2 DEF RunnerStep, RunnerPanic, RunnerStart, RunnerContinue, RunnerReceive,
         RunnerWait, RunnerTimeout, RunnerDispatch, RunnerCheck, RunnerShutdown,
         RunnerLeave
  <2>3. Len(ended') >= Len(ended) /\ Len(ended) \in Nat /\ Len(ended') \in Nat
    BY <1>2, <2>2, AppendProperties DEF Typed
  <2>4. QED BY <2>1, <2>3 DEF Typed
<1>3. CASE StopStep \/ RequestStop \/ UNCHANGED vars
  BY <1>3 DEF StopStep, StopTake, StopJoin, Unregister, RequestStop, runnerVars,
       stopVars, vars
<1>4. QED BY <1>1, <1>2, <1>3 DEF Next, Terminated

LEMMA NextDrain ==
    /\ Typed /\ Typed' /\ LockInv /\ LiveInv /\ InOrder /\ StopInv
    /\ DrainInv /\ [Next]_vars
    => DrainInv'
<1> SUFFICES ASSUME Typed, Typed', LockInv, LiveInv, InOrder, StopInv, DrainInv,
                    [Next]_vars, panics' = 0
             PROVE  DrainInv'
  BY DEF DrainInv
<1>0. panics = 0 /\ (Kept => Kept')
  <2>1. panics = 0 \/ panics' = panics + 1
    BY DEF Next, PushStep, RunnerStep, StopStep, Publish, PushCheck, PushRefuse,
       PushEnqueue, PushRecheck, RunnerStart, RunnerContinue, RunnerReceive,
       RunnerWait, RunnerTimeout, RunnerDispatch, RunnerPanic, RunnerCheck,
       RunnerShutdown, RunnerLeave, RequestStop, StopTake, StopJoin, Unregister,
       Terminated, vars, runnerVars
  <2>2. QED BY <2>1, KeptStays DEF Typed
<1> USE <1>0 DEF DrainInv
<1>1. ASSUME NEW p \in Publishers, Publish(p) \/ PushRefuse(p) PROVE DrainInv'
  BY <1>1 DEF Publish, PushRefuse, queueVars, runnerVars, stopVars
<1>2. ASSUME NEW p \in Publishers, PushCheck(p) \/ PushRecheck(p) PROVE DrainInv'
  BY <1>2, RuntimeAssumption
     DEF PushCheck, PushRecheck, EnsureRunner, SpawnRunner, RunnerIsDead, HandleFree,
         queueVars, stopVars, Typed, LockInv, Holds
<1>3. ASSUME NEW p \in Publishers, PushEnqueue(p) PROVE DrainInv'
  <2>1. handle # None
    BY <1>3, RuntimeAssumption DEF PushEnqueue, StopInv, Holds
  <2>2. QED BY <1>3, <2>1 DEF PushEnqueue, runnerVars, stopVars
<1>4. ASSUME NEW r \in Threads, RunnerStep(r) \/ RunnerPanic(r) PROVE DrainInv'
  <2>1. UNCHANGED <<accepted, stop, joinee, handle>>
    BY <1>4 DEF RunnerStep, RunnerPanic, RunnerStart, RunnerContinue, RunnerReceive,
         RunnerWait, RunnerTimeout, RunnerDispatch, RunnerCheck, RunnerShutdown,
         RunnerLeave, queueVars, stopVars
  <2>2. ASSUME RunnerCheck(r), Drained PROVE Kept
    <3>1. Busy = {}
      BY <2>2, LiveIsSingle DEF RunnerCheck, Goto, Busy, SingleRunner, Alive
    <3>2. accepted = ended
      BY <2>2, <3>1, ConcatEmptySeq DEF InOrder, Current, Drained, Typed
    <3>3. stop # "idle"
      BY <2>2 DEF StopInv, Drained
    <3>4. QED BY <3>2, <3>3 DEF Kept, StopInv
  <2>3. ASSUME RunnerContinue(r), ~ShouldContinue PROVE Kept
    BY <2>3 DEF RunnerContinue, Goto, ShouldContinue, StopInv, InRun, InLoop, Typed,
                States
  <2>4. \E to \in RunnerPcs :
           rpc' = [rpc EXCEPT ![r] = to] /\ (to \notin InLoop => Kept)
    <3> USE DEF RunnerPcs, InRun, InLoop
    <3>1. CASE RunnerStart(r) \/ RunnerReceive(r) \/ RunnerWait(r)
               \/ RunnerTimeout(r) \/ RunnerDispatch(r)
      BY <3>1 DEF RunnerStart, RunnerReceive, RunnerWait, RunnerTimeout,
           RunnerDispatch, Goto
    <3>2. CASE RunnerContinue(r)
      BY <2>3, <3>2 DEF RunnerContinue, Goto
    <3>3. CASE RunnerCheck(r)
      BY <2>2, <3>3 DEF RunnerCheck, Goto
    <3>4. CASE RunnerShutdown(r) \/ RunnerLeave(r)
      BY <3>4 DEF RunnerShutdown, RunnerLeave, Goto
    <3>5. CASE RunnerPanic(r)
      BY <3>5 DEF RunnerPanic
    <3>6. QED BY <1>4, <3>1, <3>2, <3>3, <3>4, <3>5 DEF RunnerStep
  <2>5. lifecycle' = "Stopped" => Kept
    BY <1>4 DEF RunnerStep, RunnerPanic, RunnerStart, RunnerContinue, RunnerReceive,
         RunnerWait, RunnerTimeout, RunnerDispatch, RunnerCheck, RunnerShutdown,
         RunnerLeave, Goto
  <2>6. \A t \in Threads : rpc'[t] \in {"shutdown", "leave", "dead"}
                              => rpc'[t] = rpc[t] \/ Kept
    BY <2>4 DEF InLoop, Typed
  <2>7. \A t \in Threads : rpc'[t] \in {"shutdown", "leave"} => Kept'
    BY <1>0, <2>6
  <2>8. handle \in Threads /\ rpc'[handle] = "dead" => Kept'
    BY <1>0, <2>6
  <2>9. stop = "joining" /\ rpc'[joinee] = "dead" => Kept'
    BY <1>0, <2>6, RuntimeAssumption DEF LockInv, Typed
  <2>10. QED BY <1>0, <2>1, <2>5, <2>7, <2>8, <2>9
<1>5. CASE RequestStop
  BY <1>5 DEF RequestStop, queueVars, runnerVars, Kept
<1>6. CASE StopTake
  <2>1. handle = None => Kept
    <3>1. ASSUME handle = None PROVE accepted = << >>
      BY <3>1, <1>6 DEF StopTake
    <3>2. ASSUME handle = None PROVE promised <= Len(ended)
      BY <3>1, <3>2, EmptySeq DEF StopInv, Typed
    <3>3. QED BY <1>6, <3>2 DEF StopTake, Kept, Typed
  <2>2. QED BY <1>6, <2>1, RuntimeAssumption DEF StopTake, queueVars, runnerVars, Typed
<1>7. CASE StopJoin
  BY <1>7 DEF StopJoin, queueVars, runnerVars, Alive
<1>8. CASE Unregister
  BY <1>8 DEF Unregister, queueVars, runnerVars
<1>9. CASE UNCHANGED vars
  BY <1>9 DEF vars, queueVars, runnerVars, stopVars
<1>10. QED
  BY <1>1, <1>2, <1>3, <1>4, <1>5, <1>6, <1>7, <1>8, <1>9
     DEF Next, PushStep, StopStep, Terminated

\* A graceful stop drains: when request_stop has returned and no dispatch has
\* panicked, all that was accepted before it has been dispatched.
THEOREM GracefulStopDrainsHolds == Spec => []GracefulStopDrains
<1>1. DrainInv => GracefulStopDrains
  BY DEF DrainInv, GracefulStopDrains, Kept
<1>2. QED
  BY <1>1, InitTyped, NextTyped, InitLock, NextLock, InitInOrder, NextInOrder,
     InitStop, NextStop, NextDrain, PTL DEF Spec
=============================================================================
