----------------------------- MODULE TaskQueue -----------------------------
(***************************************************************************)
(* What the code that queues and runs background tasks relies on: a queue  *)
(* that delivers every task at least once.  A task that was sent is        *)
(* waiting in the queue, or locked by one worker, or set aside after too   *)
(* many deliveries; it goes away only when the worker that holds its lock  *)
(* has run it to its end.  A worker that lost the lock of its task runs on *)
(* without knowing it.                                                     *)
(*                                                                         *)
(* Broker is shown to implement this specification; Exports and Indices    *)
(* take their queue steps from it.                                         *)
(***************************************************************************)
CONSTANTS
    Worker,     \* what runs tasks, one at a time
    NoTask      \* the task of a worker that is free

VARIABLES
    queue,      \* the tasks that wait
    task,       \* the task each worker runs
    locked,     \* whether the worker holds the lock of its task
    dead        \* the tasks set aside

vars == <<queue, task, locked, dead>>

Init ==
    /\ queue = {}
    /\ task = [w \in Worker |-> NoTask]
    /\ locked = [w \in Worker |-> FALSE]
    /\ dead = {}

\* The tasks that workers W hold the locks of.
Held(W) == {task[w] : w \in {v \in W : locked[v]}}

\* Workers W are free.
Free(W) ==
    /\ task' = [w \in Worker |-> IF w \in W THEN NoTask ELSE task[w]]
    /\ locked' = [w \in Worker |-> IF w \in W THEN FALSE ELSE locked[w]]

\* Tasks are sent.
Send ==
    /\ queue \subseteq queue'
    /\ UNCHANGED <<task, locked, dead>>

\* A free worker takes a waiting task and its lock.
Take(w, m) ==
    /\ task[w] = NoTask
    /\ m \in queue
    /\ queue' = queue \ {m}
    /\ task' = [task EXCEPT ![w] = m]
    /\ locked' = [locked EXCEPT ![w] = TRUE]
    /\ UNCHANGED dead

\* The lock of a task expires while it runs: the task waits again.
LoseLock(w) ==
    /\ locked[w]
    /\ locked' = [locked EXCEPT ![w] = FALSE]
    /\ \/ queue' = queue \cup {task[w]} /\ UNCHANGED dead
       \/ dead' = dead \cup {task[w]} /\ UNCHANGED queue
    /\ UNCHANGED task

\* A task runs to its end; it may have sent others.  Without the lock it
\* waits still.
Finish(w) ==
    /\ task[w] # NoTask
    /\ queue \subseteq queue'
    /\ Free({w})
    /\ UNCHANGED dead

\* Workers W stop: what they had locked waits again.
Stop(W) ==
    /\ queue' = queue \cup Held(W)
    /\ Free(W)
    /\ UNCHANGED dead

\* A waiting task is set aside.
SetAside(m) ==
    /\ m \in queue
    /\ queue' = queue \ {m}
    /\ dead' = dead \cup {m}
    /\ UNCHANGED <<task, locked>>

Next ==
    \/ Send
    \/ \E w \in Worker :
          \/ \E m \in queue : Take(w, m)
          \/ LoseLock(w)
          \/ Finish(w)
    \/ \E W \in SUBSET Worker : Stop(W)
    \/ \E m \in queue : SetAside(m)

Spec == Init /\ [][Next]_vars

=============================================================================
