---------------------------- MODULE EventRuntime ----------------------------
(***************************************************************************)
(* The storage event runtime of the engine (engine/src/events): a bounded  *)
(* FIFO queue filled by publisher threads, and a supervisor that owns one  *)
(* runner thread draining it.  publish_storage_event takes a task id and   *)
(* calls EventLoopSupervisor::push, which holds the `handle` mutex from    *)
(* its first liveness check to its last; request_stop asks the lifecycle   *)
(* for a graceful stop and then joins the runner while it holds the same   *)
(* mutex.  The steps of every thread interleave freely; a step here is a   *)
(* critical section of the code or a run of instructions no other thread   *)
(* can observe.                                                            *)
(*                                                                         *)
(* Faults the environment may inject: "panic" (a dispatch unwinds, e.g.    *)
(* println! on a closed stdout) and "spawn" (thread creation fails).       *)
(***************************************************************************)
EXTENDS Integers, Sequences, FiniteSets

CONSTANTS Publishers,  \* threads that call publish_storage_event
          Threads,     \* identities a runner thread may take; a dead one is reused
          None,        \* no runner: the Option in the handle mutex is None
          Capacity,    \* SharedQueue::with_capacity; 0 means unbounded
          Faults,      \* the faults the environment may inject
          MaxTasks,    \* bound on the task ids handed out
          MaxPanics    \* bound on the panics injected

ASSUME RuntimeAssumption ==
    /\ Capacity \in Nat
    /\ MaxTasks \in Nat
    /\ MaxPanics \in Nat
    /\ None \notin Threads
    /\ Threads # {}
    /\ IsFiniteSet(Threads)

VARIABLES
    queue,          \* the VecDeque of task ids
    stats,          \* QueueStats
    lifecycle,      \* the State shared by supervisor and runners
    active_runners, \* the counter kept in the queue
    handle,         \* the JoinHandle in the handle mutex, or None
    rpc,            \* where each runner thread is; "dead" when finished or unused
    task,           \* the task each runner thread is dispatching, 0 if none
    pc,             \* where each publisher is
    id,             \* the id each publisher is pushing
    nextId,         \* NEXT_TASK_ID
    stop,           \* where the thread dropping the store is
    joinee,         \* the runner it is joining, or None
    registered,     \* the supervisor is in the storage event registry
    accepted,       \* history: the ids queued, in order
    ended,          \* history: the ids whose dispatch returned or panicked
    promised,       \* history: Len(accepted) when the stop was requested
    panics          \* history: the panics injected so far

queueVars == <<queue, stats, accepted>>
runnerVars == <<rpc, task, active_runners, ended, panics>>
callerVars == <<pc, id, nextId>>
stopVars == <<stop, joinee, registered, promised>>
vars == <<queueVars, runnerVars, callerVars, stopVars, lifecycle, handle>>

States == {"Created", "Running", "Stopping", "Stopped"}
InLoop == {"loop", "recv", "wait", "dispatch", "check"}
InRun == InLoop \cup {"shutdown", "leave"}
RunnerPcs == InRun \cup {"dead", "start"}
PublisherPcs == {"idle", "push", "enqueue", "recheck"}
StopPcs == {"idle", "take", "joining", "unregister", "done"}

-----------------------------------------------------------------------------
(* The supervisor is built and started before it is registered, so the     *)
(* first state any publisher can see has a runner spawned by start(), or   *)
(* none when that spawn failed: the error is only printed.                 *)
Init ==
    /\ queue = << >>
    /\ stats = [pushed |-> 0, popped |-> 0, max |-> 0]
    /\ lifecycle = "Created"
    /\ active_runners = 0
    /\ \/ \E r \in Threads :
            /\ handle = r
            /\ rpc = [t \in Threads |-> IF t = r THEN "start" ELSE "dead"]
       \/ /\ "spawn" \in Faults
          /\ handle = None
          /\ rpc = [t \in Threads |-> "dead"]
    /\ task = [t \in Threads |-> 0]
    /\ pc = [p \in Publishers |-> "idle"]
    /\ id = [p \in Publishers |-> 0]
    /\ nextId = 1
    /\ stop = "idle"
    /\ joinee = None
    /\ registered = TRUE
    /\ accepted = << >>
    /\ ended = << >>
    /\ promised = 0
    /\ panics = 0

-----------------------------------------------------------------------------
(* The supervisor's mutex and its view of the runner.                      *)

\* Mutant: request_stop lets go of the mutex before it joins.
HandleFreeWhileJoining == \A p \in Publishers : pc[p] \notin {"enqueue", "recheck"}

\* Nobody holds the handle mutex: push holds it until it returns and
\* request_stop until the join is over.
HandleFree ==
    /\ stop # "joining"
    /\ \A p \in Publishers : pc[p] \notin {"enqueue", "recheck"}

Alive(r) == rpc[r] # "dead"

\* An empty handle counts as dead.
RunnerIsDead == handle \notin {r \in Threads : Alive(r)}

\* A new runner thread replaces whatever handle was there.
SpawnRunner ==
    \E r \in Threads :
        /\ ~Alive(r)
        /\ handle' = r
        /\ rpc' = [rpc EXCEPT ![r] = "start"]

\* One liveness check of push: the publisher goes on to `next`, unless a dead
\* runner cannot be replaced, when push returns Err(Spawn).
EnsureRunner(p, next) ==
    \/ /\ ~RunnerIsDead
       /\ pc' = [pc EXCEPT ![p] = next]
       /\ UNCHANGED <<handle, rpc>>
    \/ /\ RunnerIsDead
       /\ SpawnRunner
       /\ pc' = [pc EXCEPT ![p] = next]
    \/ /\ RunnerIsDead
       /\ "spawn" \in Faults
       /\ pc' = [pc EXCEPT ![p] = "idle"]
       /\ UNCHANGED <<handle, rpc>>

-----------------------------------------------------------------------------
(* Publishers: publish_storage_event, then EventLoopSupervisor::push.      *)

Publish(p) ==
    /\ pc[p] = "idle"
    /\ registered
    /\ nextId <= MaxTasks
    /\ id' = [id EXCEPT ![p] = nextId]
    /\ nextId' = nextId + 1
    /\ pc' = [pc EXCEPT ![p] = "push"]
    /\ UNCHANGED <<queueVars, runnerVars, stopVars, lifecycle, handle>>

PushCheck(p) ==
    /\ pc[p] = "push"
    /\ HandleFree
    /\ EnsureRunner(p, "enqueue")
    /\ UNCHANGED <<queueVars, task, active_runners, ended, panics, id, nextId,
                   stopVars, lifecycle>>

\* Mutant: off by one.
FullLate == Capacity > 0 /\ Len(queue) > Capacity

Full == Capacity > 0 /\ Len(queue) >= Capacity

Larger(a, b) == IF a > b THEN a ELSE b

\* ProducerHandle::push refuses the task: push returns Err(Full).
PushRefuse(p) ==
    /\ pc[p] = "enqueue"
    /\ Full
    /\ pc' = [pc EXCEPT ![p] = "idle"]
    /\ UNCHANGED <<queueVars, runnerVars, id, nextId, stopVars, lifecycle, handle>>

\* ProducerHandle::push accepts it.
PushEnqueue(p) ==
    /\ pc[p] = "enqueue"
    /\ ~Full
    /\ queue' = Append(queue, id[p])
    /\ stats' = [pushed |-> stats.pushed + 1,
                 popped |-> stats.popped,
                 max |-> Larger(stats.max, Len(queue) + 1)]
    /\ accepted' = Append(accepted, id[p])
    /\ pc' = [pc EXCEPT ![p] = "recheck"]
    /\ UNCHANGED <<runnerVars, id, nextId, stopVars, lifecycle, handle>>

PushRecheck(p) ==
    /\ pc[p] = "recheck"
    /\ EnsureRunner(p, "idle")
    /\ UNCHANGED <<queueVars, task, active_runners, ended, panics, id, nextId,
                   stopVars, lifecycle>>

-----------------------------------------------------------------------------
(* The runner thread: EventLoop::start and EventLoop::run.                 *)

Goto(r, from, to) == rpc[r] = from /\ rpc' = [rpc EXCEPT ![r] = to]

\* Mutant: the runner does not count itself in.
RunnerStartUncounted(r) ==
    /\ Goto(r, "start", "loop")
    /\ lifecycle' = IF lifecycle = "Created" THEN "Running" ELSE lifecycle
    /\ UNCHANGED <<queueVars, task, active_runners, ended, panics, callerVars,
                   stopVars, handle>>

RunnerStart(r) ==
    /\ Goto(r, "start", "loop")
    /\ lifecycle' = IF lifecycle = "Created" THEN "Running" ELSE lifecycle
    /\ active_runners' = active_runners + 1
    /\ UNCHANGED <<queueVars, task, ended, panics, callerVars, stopVars, handle>>

\* Mutants: the loop ignores Stopped; the loop leaves as soon as it is asked to.
ShouldContinueAlways == lifecycle # "Created"
ShouldContinueRunning == lifecycle = "Running"

ShouldContinue == lifecycle \in {"Running", "Stopping"}

RunnerContinue(r) ==
    /\ Goto(r, "loop", IF ShouldContinue THEN "recv" ELSE "shutdown")
    /\ UNCHANGED <<queueVars, task, active_runners, ended, panics, callerVars,
                   stopVars, lifecycle, handle>>

\* Mutant: pop_back.
NewestTask == queue[Len(queue)]

OldestTask == Head(queue)

\* recv_timeout finds a task, at once or after it was woken.
RunnerReceive(r) ==
    /\ \/ Goto(r, "recv", "dispatch")
       \/ Goto(r, "wait", "dispatch")
    /\ queue # << >>
    /\ task' = [task EXCEPT ![r] = OldestTask]
    /\ queue' = Tail(queue)
    /\ stats' = [pushed |-> stats.pushed, popped |-> stats.popped + 1,
                 max |-> stats.max]
    /\ UNCHANGED <<accepted, active_runners, ended, panics, callerVars, stopVars,
                   lifecycle, handle>>

RunnerWait(r) ==
    /\ Goto(r, "recv", "wait")
    /\ queue = << >>
    /\ UNCHANGED <<queueVars, task, active_runners, ended, panics, callerVars,
                   stopVars, lifecycle, handle>>

\* The wait timed out: Timeout is returned even if a task arrived meanwhile.
RunnerTimeout(r) ==
    /\ Goto(r, "wait", "check")
    /\ UNCHANGED <<queueVars, task, active_runners, ended, panics, callerVars,
                   stopVars, lifecycle, handle>>

RunnerDispatch(r) ==
    /\ Goto(r, "dispatch", "check")
    /\ ended' = Append(ended, task[r])
    /\ task' = [task EXCEPT ![r] = 0]
    /\ UNCHANGED <<queueVars, active_runners, panics, callerVars, stopVars,
                   lifecycle, handle>>

\* A panic unwinds out of run: neither complete_shutdown nor the decrement of
\* active_runners is reached, and the popped task is gone.
RunnerPanic(r) ==
    /\ "panic" \in Faults
    /\ panics < MaxPanics
    /\ Goto(r, "dispatch", "dead")
    /\ ended' = Append(ended, task[r])
    /\ task' = [task EXCEPT ![r] = 0]
    /\ panics' = panics + 1
    /\ UNCHANGED <<queueVars, active_runners, callerVars, stopVars, lifecycle,
                   handle>>

\* Mutants: the queue is not looked at; the loop never breaks.
DrainedUnread == lifecycle = "Stopping"
DrainedNever == FALSE

Drained == lifecycle = "Stopping" /\ queue = << >>

RunnerCheck(r) ==
    /\ Goto(r, "check", IF Drained THEN "shutdown" ELSE "loop")
    /\ UNCHANGED <<queueVars, task, active_runners, ended, panics, callerVars,
                   stopVars, lifecycle, handle>>

RunnerShutdown(r) ==
    /\ Goto(r, "shutdown", "leave")
    /\ lifecycle' = IF lifecycle \in {"Stopping", "Running"} THEN "Stopped"
                                                             ELSE lifecycle
    /\ UNCHANGED <<queueVars, task, active_runners, ended, panics, callerVars,
                   stopVars, handle>>

RunnerLeave(r) ==
    /\ Goto(r, "leave", "dead")
    /\ active_runners' = active_runners - 1
    /\ UNCHANGED <<queueVars, task, ended, panics, callerVars, stopVars, lifecycle,
                   handle>>

\* A scheduled step of a runner thread, the panics left out.
RunnerStep(r) ==
    \/ RunnerStart(r) \/ RunnerContinue(r) \/ RunnerReceive(r) \/ RunnerWait(r)
    \/ RunnerTimeout(r) \/ RunnerDispatch(r) \/ RunnerCheck(r)
    \/ RunnerShutdown(r) \/ RunnerLeave(r)

-----------------------------------------------------------------------------
(* The drop of the store: EventLoopSupervisor::request_stop, then the      *)
(* supervisor leaves the registry.                                         *)

RequestStop ==
    /\ stop = "idle"
    /\ stop' = "take"
    /\ lifecycle' = IF lifecycle \in {"Created", "Running"} THEN "Stopping"
                                                            ELSE lifecycle
    /\ promised' = Len(accepted)
    /\ UNCHANGED <<queueVars, runnerVars, callerVars, joinee, registered, handle>>

StopTake ==
    /\ stop = "take"
    /\ HandleFree
    /\ handle' = None
    /\ joinee' = handle
    /\ stop' = IF handle = None THEN "unregister" ELSE "joining"
    /\ UNCHANGED <<queueVars, runnerVars, callerVars, registered, promised,
                   lifecycle>>

StopJoin ==
    /\ stop = "joining"
    /\ ~Alive(joinee)
    /\ joinee' = None
    /\ stop' = "unregister"
    /\ UNCHANGED <<queueVars, runnerVars, callerVars, registered, promised,
                   lifecycle, handle>>

Unregister ==
    /\ stop = "unregister"
    /\ registered' = FALSE
    /\ stop' = "done"
    /\ UNCHANGED <<queueVars, runnerVars, callerVars, joinee, promised, lifecycle,
                   handle>>

\* The one state in which nothing is left to do: the store is gone, every
\* call has returned and every runner has finished.
Terminated ==
    /\ stop = "done"
    /\ \A p \in Publishers : pc[p] = "idle"
    /\ \A r \in Threads : ~Alive(r)
    /\ UNCHANGED vars

-----------------------------------------------------------------------------
PushStep(p) ==
    PushCheck(p) \/ PushRefuse(p) \/ PushEnqueue(p) \/ PushRecheck(p)

StopStep == StopTake \/ StopJoin \/ Unregister

Next ==
    \/ \E p \in Publishers : Publish(p) \/ PushStep(p)
    \/ \E r \in Threads : RunnerStep(r) \/ RunnerPanic(r)
    \/ RequestStop
    \/ StopStep
    \/ Terminated

Spec == Init /\ [][Next]_vars

\* The scheduler runs every thread that can run: a runner, a publisher inside
\* push, the thread inside drop.  Nothing makes anyone publish, drop or panic.
Fairness ==
    /\ \A r \in Threads : WF_vars(RunnerStep(r))
    /\ \A p \in Publishers : WF_vars(PushStep(p))
    /\ WF_vars(StopStep)

FairSpec == Spec /\ Fairness

-----------------------------------------------------------------------------
(* Properties.                                                             *)

Typed ==
    /\ queue \in Seq(Nat)
    /\ stats \in [pushed : Nat, popped : Nat, max : Nat]
    /\ lifecycle \in States
    /\ active_runners \in Int
    /\ handle \in Threads \cup {None}
    /\ rpc \in [Threads -> RunnerPcs]
    /\ task \in [Threads -> Nat]
    /\ pc \in [Publishers -> PublisherPcs]
    /\ id \in [Publishers -> Nat]
    /\ nextId \in Nat
    /\ stop \in StopPcs
    /\ joinee \in Threads \cup {None}
    /\ registered \in BOOLEAN
    /\ accepted \in Seq(Nat)
    /\ ended \in Seq(Nat)
    /\ promised \in Nat
    /\ panics \in Nat

\* Every variable has the type its declaration says; active_runners, a usize
\* that is decremented by every runner leaving run, never wraps below zero.
TypeOK == Typed /\ active_runners >= 0

\* Tasks are executed by a single runner thread: however pushes, panics,
\* respawns and the stop interleave, two runners never live at once.
SingleRunner == \A r, s \in Threads : Alive(r) /\ Alive(s) => r = s

Busy == {r \in Threads : rpc[r] = "dispatch"}

\* The task being dispatched, as a sequence of length 0 or 1.
Current == IF Busy = {} THEN << >> ELSE <<task[CHOOSE r \in Busy : TRUE]>>

\* Every accepted task is in exactly one place, and is dispatched at most once
\* in the order of acceptance, across respawns and concurrent publishers.
ExactlyOnceInOrder ==
    /\ accepted = ended \o Current \o queue
    /\ \A i, j \in DOMAIN accepted : accepted[i] = accepted[j] => i = j

\* The queue never outgrows its capacity although the check and the push back
\* are behind two handles, and QueueStats agrees with what the queue holds.
QueueAccounting ==
    /\ Capacity > 0 => Len(queue) <= Capacity
    /\ stats.pushed - stats.popped = Len(queue)
    /\ Len(queue) <= stats.max
    /\ Capacity > 0 => stats.max <= Capacity

\* active_runners counts the runners inside run plus one for every panic: it
\* is never decremented by a runner that unwound.
RunnerCount ==
    active_runners = Cardinality({r \in Threads : rpc[r] \in InRun}) + panics

\* When request_stop has joined the runner, every task accepted before the
\* stop was requested has been dispatched, unless some dispatch panicked: the
\* runner leaves its loop only with an empty queue (loops.rs).  The code keeps
\* more than storage-integration.md, lines 16 and 113, asks for, which accepts
\* that a drop of the store loses what is in the queue.
GracefulStopDrains ==
    stop \in {"unregister", "done"} /\ panics = 0 => Len(ended) >= promised

\* Stopped is final: from then on no runner, respawned ones included, takes or
\* dispatches a task and the lifecycle does not move.
StoppedIsFinal ==
    [][lifecycle = "Stopped" =>
         /\ lifecycle' = "Stopped"
         /\ UNCHANGED <<ended, task>>
         /\ stats'.popped = stats.popped]_vars

\* Whatever is accepted before a stop is requested is dispatched eventually, also
\* when the store is dropped meanwhile and also what a panic left in the queue:
\* once a push has found or revived a runner, all of the queue runs, unless
\* another dispatch panics.  The same lines of storage-integration.md would let
\* the drop lose them; request_stop joins a runner that has drained the queue.
AcceptedTasksRun ==
    \A n \in 1..MaxTasks, k \in 0..MaxPanics :
        (Len(accepted) >= n /\ stop = "idle" /\ panics = k /\ ~RunnerIsDead)
        ~> (Len(ended) >= n \/ panics > k)

\* push and request_stop return although both hold the handle mutex over long
\* sections and request_stop joins the runner while it holds it.
CallsReturn ==
    /\ stop = "take" ~> stop = "done"
    /\ \A p \in Publishers : pc[p] # "idle" ~> pc[p] = "idle"

\* The runtime implements the serial executor its publishers rely on.
Abstract ==
    INSTANCE SerialExecutor
        WITH Tasks <- 1..MaxTasks, pending <- queue, current <- Current

ImplementsSerialExecutor == Abstract!AbstractSpec

=============================================================================
