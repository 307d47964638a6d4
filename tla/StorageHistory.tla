--------------------------- MODULE StorageHistory ---------------------------
(***************************************************************************)
(* What the clients of a storage node can observe: is there an order of    *)
(* atomic steps that explains the results of all calls?  A handler is      *)
(* allowed one atomic step per decision it announces: put makes sure of    *)
(* the table and then inserts; add_table and remove_table look and then    *)
(* act.  What is NOT allowed to show is that finding a table's collection  *)
(* and using it are two steps, between which the table may be removed or   *)
(* be another one.                                                         *)
(***************************************************************************)
EXTENDS StorageService

Steps(action) ==
    CASE action = "put" -> <<"ensure", "put">>
      [] action = "add_table" -> <<"check", "ensure">>
      [] action = "remove_table" -> <<"check", "remove">>
      [] OTHER -> <<action>>

\* The steps of a call that returned `tag`: one that was refused or found the
\* table to exist stops at its check.
StepsWith(action, tag) ==
    CASE tag = "refused" -> << >>
      [] tag = "exists" -> <<"check">>
      [] OTHER -> Steps(action)

StepsOf(n) == StepsWith(calls[n].action, calls[n].result.tag)

\* A reference store: each table is absent or maps its keys to values.
Stores == [Tables -> [there : BOOLEAN, data : [Keys -> Nat]]]
Absent == [there |-> FALSE, data |-> [k \in Keys |-> 0]]
Present == [there |-> TRUE, data |-> [k \in Keys |-> 0]]

\* The effect of a step of call n on the reference store.
Effect(step, n, store) ==
    LET t == calls[n].table
        k == calls[n].key
    IN  CASE step = "ensure" /\ ~store[t].there -> [store EXCEPT ![t] = Present]
          [] step = "remove" -> [store EXCEPT ![t] = Absent]
          [] step \in {"put", "update"} /\ store[t].there ->
               [store EXCEPT ![t].data[k] = n]
          [] step = "delete" /\ store[t].there -> [store EXCEPT ![t].data[k] = 0]
          [] OTHER -> store

\* The step of call n is consistent with the result r.
Consistent(step, n, r, store) ==
    LET t == calls[n].table
        value == store[t].data[calls[n].key]
    IN  CASE step = "get" ->
               r = (IF store[t].there THEN Result("ok", value) ELSE Result("no table", 0))
          [] step = "contains" -> r = Result("ok", IF value # 0 THEN 1 ELSE 0)
          [] step = "put" -> store[t].there
          [] step \in {"update", "delete"} ->
               r = (IF store[t].there THEN Result("ok", 0) ELSE Result("no table", 0))
          [] step = "check" /\ calls[n].action = "add_table" ->
               r.tag = (IF store[t].there THEN "exists" ELSE "ok")
          [] step = "check" /\ calls[n].action = "remove_table" ->
               r = Result("ok", IF store[t].there THEN 1 ELSE 0)
          [] OTHER -> TRUE

-----------------------------------------------------------------------------
(* A situation in an explanation: the reference store, and how many steps  *)
(* each call has taken.                                                    *)

Situations == [store : Stores, at : [DOMAIN calls -> 0..2]]

FirstStore ==
    [t \in Tables |->
       IF t = Reserved THEN [Present EXCEPT !.data[IdentityKey] = Identity]
       ELSE IF t \in Seeded THEN Present
       ELSE Absent]

Start == [store |-> FirstStore, at |-> [n \in DOMAIN calls |-> 0]]

Over(n, x) == x.at[n] = Len(StepsOf(n))
NextStep(n, x) == StepsOf(n)[x.at[n] + 1]

MayStep(n, x) ==
    /\ x.at[n] < Len(StepsOf(n))
    /\ \A m \in calls[n].before : Over(m, x)
    /\ Consistent(NextStep(n, x), n, calls[n].result, x.store)

After(n, x) == [store |-> Effect(NextStep(n, x), n, x.store),
                at |-> [x.at EXCEPT ![n] = @ + 1]]

\* The rest of the history can be explained from x on.
Explains[x \in Situations] ==
    \/ \A n \in DOMAIN calls : Over(n, x)
    \/ \E n \in DOMAIN calls : MayStep(n, x) /\ Explains[After(n, x)]

\* Using a collection after it was found is as good as using the table: the
\* results of all calls are those of atomic steps in an order that respects
\* real time, also when tables are removed and created again meanwhile.
ResultsExplained == Quiet => Explains[Start]
=============================================================================
