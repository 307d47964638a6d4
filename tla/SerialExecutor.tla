--------------------------- MODULE SerialExecutor ---------------------------
(***************************************************************************)
(* What the event runtime promises to the code that publishes storage      *)
(* events: a bounded waiting line that is served in order, one task at a   *)
(* time, each accepted task at most once.  It says nothing of threads,     *)
(* locks, timeouts or respawning: EventRuntime implements it.              *)
(***************************************************************************)
EXTENDS Naturals, Sequences

CONSTANTS Tasks,     \* the tasks that may be submitted
          Capacity   \* bound on the waiting line, 0 for none

VARIABLES pending,   \* accepted and not begun, oldest first
          current,   \* the task being executed: a sequence of length 0 or 1
          ended      \* the tasks whose execution is over, in order

abstractVars == <<pending, current, ended>>

Elements(s) == {s[i] : i \in DOMAIN s}

AbstractInit ==
    /\ pending = << >>
    /\ current = << >>
    /\ ended = << >>

Submit(t) ==
    /\ Capacity = 0 \/ Len(pending) < Capacity
    /\ t \notin Elements(pending) \cup Elements(current) \cup Elements(ended)
    /\ pending' = Append(pending, t)
    /\ UNCHANGED <<current, ended>>

Begin ==
    /\ current = << >>
    /\ pending # << >>
    /\ current' = <<Head(pending)>>
    /\ pending' = Tail(pending)
    /\ UNCHANGED ended

End ==
    /\ current # << >>
    /\ ended' = ended \o current
    /\ current' = << >>
    /\ UNCHANGED pending

AbstractNext == Begin \/ End \/ \E t \in Tasks : Submit(t)

AbstractSpec == AbstractInit /\ [][AbstractNext]_abstractVars
=============================================================================
