---------------------------- MODULE ExportProofs ----------------------------
(***************************************************************************)
(* Export jobs keep their types; an export is run by one worker at a time, *)
(* is not forgotten while it is PENDING or RUNNING, and stays COMPLETED or *)
(* FAILED unless the broker raised an error for a task it had queued.      *)
(*                                                                         *)
(* The claim makes this inductive: while the row is PENDING nobody runs    *)
(* the export, and while somebody runs it the row is RUNNING or was failed *)
(* by the route.                                                           *)
(***************************************************************************)
EXTENDS Exports, FiniteSetTheorems, SequenceTheorems, TLAPS

-----------------------------------------------------------------------------
(* The inductive invariant *)

\* A worker is idle when it has no task; only a task can be locked.
Busy ==
    \A w \in Worker : /\ stage[w] = "idle" <=> task[w] = NoExport
                      /\ locked[w] => task[w] # NoExport

\* Rows follow their request and their claim.
Claimed ==
    /\ \A e \in Export :
          /\ api[e] = "new" => row[e].status = "ABSENT"
          /\ api[e] \in {"failing", "unavailable"} => faults["send"] > 0
    /\ \A w \in Worker, e \in Export : Running(w, e) =>
          /\ row[e].status \notin {"ABSENT", "PENDING"}
          /\ faults["send"] = 0 => row[e].status = "RUNNING"

\* A PENDING row has its request, its message or a worker that will claim it;
\* a RUNNING row has the worker that claimed it.
Carried ==
    \A e \in Export : e \notin abandoned =>
        /\ row[e].status = "PENDING" =>
              \/ api[e] \in {"requested", "failing"}
              \/ e \in queue
              \/ \E w \in Worker : task[w] = e /\ locked[w] /\ stage[w] = "taken"
        /\ row[e].status = "RUNNING" => \E w \in Worker : Running(w, e)

ExportInv == TypeOK /\ Busy /\ Claimed /\ OneRunner /\ Carried

-----------------------------------------------------------------------------
(* Every step keeps every part *)

\* A worker that is done is idle; the others go on.
LEMMA OthersGoOn ==
    ASSUME TypeOK, NEW w \in Worker, Reset(w), Tasks!Free({w})
    PROVE  /\ task' \in [Worker -> Export \cup {NoExport}]
           /\ stage' \in [Worker -> {"idle", "taken", "claimed", "streaming",
                                    "uploaded", "failing", "ended"}]
           /\ locked' \in [Worker -> BOOLEAN]
           /\ \A v \in Worker \ {w} : /\ task'[v] = task[v]
                                      /\ stage'[v] = stage[v]
                                      /\ locked'[v] = locked[v]
  <1>1. /\ stage' = [stage EXCEPT ![w] = "idle"]
        /\ task' = [v \in Worker |-> IF v = w THEN NoExport ELSE task[v]]
    BY DEF Reset, Tasks!Free
  <1>2. /\ locked' \in [Worker -> BOOLEAN]
        /\ \A v \in Worker \ {w} : locked'[v] = locked[v]
    BY Zenon DEF Tasks!Free, TypeOK
  <1> QED BY <1>1, <1>2 DEF TypeOK

\* Every step keeps the types.
LEMMA TypeStep ==
    ASSUME TypeOK, Busy, [Next]_vars
    PROVE  TypeOK'
  <1> USE ExportsAssumption DEF TypeOK, Busy, Terminal, FaultKind, NoRow
  <1>1. ASSUME NEW r \in Ref, AddReference(r)
        PROVE  TypeOK'
    BY <1>1 DEF AddReference, jobVars
  <1>2. ASSUME NEW e \in Export, Request(e)
        PROVE  TypeOK'
    BY <1>2 DEF Request, jobVars
  <1>3. ASSUME NEW e \in Export, Enqueue(e)
        PROVE  TypeOK'
    BY <1>3 DEF Enqueue, Tasks!Send, jobVars
  <1>4. ASSUME NEW e \in Export, MarkUnqueued(e)
        PROVE  TypeOK'
    BY <1>4 DEF MarkUnqueued, Failed, jobVars
  <1>5. ASSUME NEW w \in Worker, NEW e \in queue, StartTask(w, e)
        PROVE  TypeOK'
    BY <1>5 DEF StartTask, Tasks!Take, jobVars
  <1>6. ASSUME NEW w \in Worker, Claim(w)
        PROVE  TypeOK'
    BY <1>6 DEF Claim, jobVars
  <1>7. ASSUME NEW w \in Worker, Resolve(w)
        PROVE  TypeOK'
    BY <1>7 DEF Resolve, jobVars
  <1>8. ASSUME NEW w \in Worker, StreamChunk(w)
        PROVE  TypeOK'
    BY <1>8 DEF StreamChunk, jobVars
  <1>9. ASSUME NEW w \in Worker, FinishUpload(w)
        PROVE  TypeOK'
    BY <1>9 DEF FinishUpload, jobVars
  <1>10. ASSUME NEW w \in Worker, Complete(w)
        PROVE  TypeOK'
    BY <1>10 DEF Complete, jobVars
  <1>11. ASSUME NEW w \in Worker, MarkFailed(w)
        PROVE  TypeOK'
    BY <1>11 DEF MarkFailed, Failed, jobVars
  <1>12. ASSUME NEW w \in Worker, EndTask(w)
        PROVE  TypeOK'
    BY <1>12 DEF EndTask, Reset, Tasks!Finish, Tasks!Free, jobVars
  <1>13. ASSUME NEW e \in Export, EnqueueFails(e)
        PROVE  TypeOK'
    BY <1>13 DEF EnqueueFails, Tasks!Send, Fault, jobVars
  <1>14. ASSUME NEW e \in Export, RequestLost(e)
        PROVE  TypeOK'
    BY <1>14 DEF RequestLost, Fault, jobVars
  <1>15. ASSUME NEW w \in Worker, RunFails(w)
        PROVE  TypeOK'
    BY <1>15 DEF RunFails, Fault, jobVars
  <1>16. ASSUME NEW w \in Worker, Raise(w)
        PROVE  TypeOK'
    <2>1. task[w] \in Export
      BY <1>16 DEF Raise
    <2>2. Reset(w) /\ Tasks!Free({w}) /\ queue' = queue
      BY <1>16 DEF Raise, Tasks!Finish
    <2> QED
      BY <1>16, <2>1, <2>2, OthersGoOn DEF Raise, Fault
  <1>17. ASSUME NEW w \in Worker, LoseLock(w)
        PROVE  TypeOK'
    BY <1>17 DEF LoseLock, Fault, Tasks!LoseLock, jobVars
  <1>18. ASSUME NEW w \in Worker, Crash(w)
        PROVE  TypeOK'
    <2>1. task[w] \in Export
      BY <1>18 DEF Crash
    <2>2. Reset(w) /\ Tasks!Free({w}) /\ queue' \subseteq queue \cup {task[w]}
      BY <1>18 DEF Crash, Tasks!Stop, Tasks!Held
    <2> QED
      BY <1>18, <2>1, <2>2, OthersGoOn DEF Crash, Fault
  <1>19. CASE UNCHANGED vars
    BY <1>19 DEF vars
  <1> HIDE DEF TypeOK, Busy, Terminal, FaultKind, NoRow
  <1> QED
    BY <1>1, <1>2, <1>3, <1>4, <1>5, <1>6, <1>7, <1>8, <1>9,
       <1>10, <1>11, <1>12, <1>13, <1>14, <1>15, <1>16, <1>17, <1>18, <1>19, Zenon
    DEF Next, RouteStep, RunStep, FaultStep

\* Every step keeps a worker idle exactly while it has no task.
LEMMA BusyStep ==
    ASSUME TypeOK, Busy, [Next]_vars
    PROVE  Busy'
  <1> USE ExportsAssumption DEF TypeOK, Busy
  <1>1. ASSUME NEW r \in Ref, AddReference(r)
        PROVE  Busy'
    BY <1>1 DEF AddReference, jobVars
  <1>2. ASSUME NEW e \in Export, Request(e)
        PROVE  Busy'
    BY <1>2 DEF Request, jobVars
  <1>3. ASSUME NEW e \in Export, Enqueue(e)
        PROVE  Busy'
    BY <1>3 DEF Enqueue, Tasks!Send, jobVars
  <1>4. ASSUME NEW e \in Export, MarkUnqueued(e)
        PROVE  Busy'
    BY <1>4 DEF MarkUnqueued, Failed, jobVars
  <1>5. ASSUME NEW w \in Worker, NEW e \in queue, StartTask(w, e)
        PROVE  Busy'
    BY <1>5 DEF StartTask, Tasks!Take, jobVars
  <1>6. ASSUME NEW w \in Worker, Claim(w)
        PROVE  Busy'
    BY <1>6 DEF Claim, jobVars
  <1>7. ASSUME NEW w \in Worker, Resolve(w)
        PROVE  Busy'
    BY <1>7 DEF Resolve, jobVars
  <1>8. ASSUME NEW w \in Worker, StreamChunk(w)
        PROVE  Busy'
    BY <1>8 DEF StreamChunk, jobVars
  <1>9. ASSUME NEW w \in Worker, FinishUpload(w)
        PROVE  Busy'
    BY <1>9 DEF FinishUpload, jobVars
  <1>10. ASSUME NEW w \in Worker, Complete(w)
        PROVE  Busy'
    BY <1>10 DEF Complete, jobVars
  <1>11. ASSUME NEW w \in Worker, MarkFailed(w)
        PROVE  Busy'
    BY <1>11 DEF MarkFailed, Failed, jobVars
  <1>12. ASSUME NEW w \in Worker, EndTask(w)
        PROVE  Busy'
    BY <1>12 DEF EndTask, Reset, Tasks!Finish, Tasks!Free, jobVars
  <1>13. ASSUME NEW e \in Export, EnqueueFails(e)
        PROVE  Busy'
    BY <1>13 DEF EnqueueFails, Tasks!Send, Fault, jobVars
  <1>14. ASSUME NEW e \in Export, RequestLost(e)
        PROVE  Busy'
    BY <1>14 DEF RequestLost, Fault, jobVars
  <1>15. ASSUME NEW w \in Worker, RunFails(w)
        PROVE  Busy'
    BY <1>15 DEF RunFails, Fault, jobVars
  <1>16. ASSUME NEW w \in Worker, Raise(w)
        PROVE  Busy'
    BY <1>16 DEF Raise, Reset, Fault, Tasks!Finish, Tasks!Free, jobVars
  <1>17. ASSUME NEW w \in Worker, LoseLock(w)
        PROVE  Busy'
    BY <1>17 DEF LoseLock, Fault, Tasks!LoseLock, jobVars
  <1>18. ASSUME NEW w \in Worker, Crash(w)
        PROVE  Busy'
    BY <1>18 DEF Crash, Fault, Reset, Tasks!Stop, Tasks!Free, Tasks!Held, jobVars
  <1>19. CASE UNCHANGED vars
    BY <1>19 DEF vars
  <1> HIDE DEF TypeOK, Busy
  <1> QED
    BY <1>1, <1>2, <1>3, <1>4, <1>5, <1>6, <1>7, <1>8, <1>9,
       <1>10, <1>11, <1>12, <1>13, <1>14, <1>15, <1>16, <1>17, <1>18, <1>19, Zenon
    DEF Next, RouteStep, RunStep, FaultStep

\* Every step keeps rows in line with their request and their claim.
LEMMA ClaimedStep ==
    ASSUME TypeOK, Busy, Claimed, OneRunner, [Next]_vars
    PROVE  Claimed'
  <1> USE ExportsAssumption DEF TypeOK, Busy, Claimed, OneRunner, Running, FaultKind, NoRow
  <1>1. ASSUME NEW r \in Ref, AddReference(r)
        PROVE  Claimed'
    BY <1>1 DEF AddReference, jobVars
  <1>2. ASSUME NEW e \in Export, Request(e)
        PROVE  Claimed'
    BY <1>2 DEF Request, jobVars
  <1>3. ASSUME NEW e \in Export, Enqueue(e)
        PROVE  Claimed'
    BY <1>3 DEF Enqueue, Tasks!Send, jobVars
  <1>4. ASSUME NEW e \in Export, MarkUnqueued(e)
        PROVE  Claimed'
    BY <1>4 DEF MarkUnqueued, Failed, jobVars
  <1>5. ASSUME NEW w \in Worker, NEW e \in queue, StartTask(w, e)
        PROVE  Claimed'
    BY <1>5 DEF StartTask, Tasks!Take, jobVars
  <1>6. ASSUME NEW w \in Worker, Claim(w)
        PROVE  Claimed'
    BY <1>6 DEF Claim, jobVars
  <1>7. ASSUME NEW w \in Worker, Resolve(w)
        PROVE  Claimed'
    BY <1>7 DEF Resolve, jobVars
  <1>8. ASSUME NEW w \in Worker, StreamChunk(w)
        PROVE  Claimed'
    BY <1>8 DEF StreamChunk, jobVars
  <1>9. ASSUME NEW w \in Worker, FinishUpload(w)
        PROVE  Claimed'
    BY <1>9 DEF FinishUpload, jobVars
  <1>10. ASSUME NEW w \in Worker, Complete(w)
        PROVE  Claimed'
    BY <1>10 DEF Complete, jobVars
  <1>11. ASSUME NEW w \in Worker, MarkFailed(w)
        PROVE  Claimed'
    BY <1>11 DEF MarkFailed, Failed, jobVars
  <1>12. ASSUME NEW w \in Worker, EndTask(w)
        PROVE  Claimed'
    BY <1>12 DEF EndTask, Reset, Tasks!Finish, Tasks!Free, jobVars
  <1>13. ASSUME NEW e \in Export, EnqueueFails(e)
        PROVE  Claimed'
    BY <1>13 DEF EnqueueFails, Tasks!Send, Fault, jobVars
  <1>14. ASSUME NEW e \in Export, RequestLost(e)
        PROVE  Claimed'
    BY <1>14 DEF RequestLost, Fault, jobVars
  <1>15. ASSUME NEW w \in Worker, RunFails(w)
        PROVE  Claimed'
    BY <1>15 DEF RunFails, Fault, jobVars
  <1>16. ASSUME NEW w \in Worker, Raise(w)
        PROVE  Claimed'
    BY <1>16 DEF Raise, Reset, Fault, Tasks!Finish, Tasks!Free, jobVars
  <1>17. ASSUME NEW w \in Worker, LoseLock(w)
        PROVE  Claimed'
    BY <1>17 DEF LoseLock, Fault, Tasks!LoseLock, jobVars
  <1>18. ASSUME NEW w \in Worker, Crash(w)
        PROVE  Claimed'
    BY <1>18 DEF Crash, Fault, Reset, Tasks!Stop, Tasks!Free, Tasks!Held, jobVars
  <1>19. CASE UNCHANGED vars
    BY <1>19 DEF vars
  <1> HIDE DEF TypeOK, Busy, Claimed, OneRunner, Running, FaultKind, NoRow
  <1> QED
    BY <1>1, <1>2, <1>3, <1>4, <1>5, <1>6, <1>7, <1>8, <1>9,
       <1>10, <1>11, <1>12, <1>13, <1>14, <1>15, <1>16, <1>17, <1>18, <1>19, Zenon
    DEF Next, RouteStep, RunStep, FaultStep

\* Every step keeps exports with one runner.
LEMMA OneRunnerStep ==
    ASSUME TypeOK, Busy, Claimed, OneRunner, [Next]_vars
    PROVE  OneRunner'
  <1> USE ExportsAssumption DEF TypeOK, Busy, Claimed, OneRunner, Running
  <1>1. ASSUME NEW r \in Ref, AddReference(r)
        PROVE  OneRunner'
    BY <1>1 DEF AddReference, jobVars
  <1>2. ASSUME NEW e \in Export, Request(e)
        PROVE  OneRunner'
    BY <1>2 DEF Request, jobVars
  <1>3. ASSUME NEW e \in Export, Enqueue(e)
        PROVE  OneRunner'
    BY <1>3 DEF Enqueue, Tasks!Send, jobVars
  <1>4. ASSUME NEW e \in Export, MarkUnqueued(e)
        PROVE  OneRunner'
    BY <1>4 DEF MarkUnqueued, Failed, jobVars
  <1>5. ASSUME NEW w \in Worker, NEW e \in queue, StartTask(w, e)
        PROVE  OneRunner'
    BY <1>5 DEF StartTask, Tasks!Take, jobVars
  <1>6. ASSUME NEW w \in Worker, Claim(w)
        PROVE  OneRunner'
    BY <1>6 DEF Claim, jobVars
  <1>7. ASSUME NEW w \in Worker, Resolve(w)
        PROVE  OneRunner'
    BY <1>7 DEF Resolve, jobVars
  <1>8. ASSUME NEW w \in Worker, StreamChunk(w)
        PROVE  OneRunner'
    BY <1>8 DEF StreamChunk, jobVars
  <1>9. ASSUME NEW w \in Worker, FinishUpload(w)
        PROVE  OneRunner'
    BY <1>9 DEF FinishUpload, jobVars
  <1>10. ASSUME NEW w \in Worker, Complete(w)
        PROVE  OneRunner'
    BY <1>10 DEF Complete, jobVars
  <1>11. ASSUME NEW w \in Worker, MarkFailed(w)
        PROVE  OneRunner'
    BY <1>11 DEF MarkFailed, Failed, jobVars
  <1>12. ASSUME NEW w \in Worker, EndTask(w)
        PROVE  OneRunner'
    BY <1>12 DEF EndTask, Reset, Tasks!Finish, Tasks!Free, jobVars
  <1>13. ASSUME NEW e \in Export, EnqueueFails(e)
        PROVE  OneRunner'
    BY <1>13 DEF EnqueueFails, Tasks!Send, Fault, jobVars
  <1>14. ASSUME NEW e \in Export, RequestLost(e)
        PROVE  OneRunner'
    BY <1>14 DEF RequestLost, Fault, jobVars
  <1>15. ASSUME NEW w \in Worker, RunFails(w)
        PROVE  OneRunner'
    BY <1>15 DEF RunFails, Fault, jobVars
  <1>16. ASSUME NEW w \in Worker, Raise(w)
        PROVE  OneRunner'
    BY <1>16 DEF Raise, Reset, Fault, Tasks!Finish, Tasks!Free, jobVars
  <1>17. ASSUME NEW w \in Worker, LoseLock(w)
        PROVE  OneRunner'
    BY <1>17 DEF LoseLock, Fault, Tasks!LoseLock, jobVars
  <1>18. ASSUME NEW w \in Worker, Crash(w)
        PROVE  OneRunner'
    BY <1>18 DEF Crash, Fault, Reset, Tasks!Stop, Tasks!Free, Tasks!Held, jobVars
  <1>19. CASE UNCHANGED vars
    BY <1>19 DEF vars
  <1> HIDE DEF TypeOK, Busy, Claimed, OneRunner, Running
  <1> QED
    BY <1>1, <1>2, <1>3, <1>4, <1>5, <1>6, <1>7, <1>8, <1>9,
       <1>10, <1>11, <1>12, <1>13, <1>14, <1>15, <1>16, <1>17, <1>18, <1>19, Zenon
    DEF Next, RouteStep, RunStep, FaultStep

\* An export stays carried when one worker drops out that did not carry it, or
\* whose message waits again.
LEMMA CarriedWithout ==
    ASSUME Carried, NEW w \in Worker, row' = row, api' = api,
           abandoned \subseteq abandoned', queue \subseteq queue',
           \A v \in Worker \ {w} : /\ task'[v] = task[v] /\ stage'[v] = stage[v]
                                   /\ locked'[v] = locked[v],
           \A e \in Export \ abandoned' :
              /\ row[e].status = "PENDING" /\ task[w] = e /\ locked[w]
                    /\ stage[w] = "taken"
                 => e \in queue'
              /\ row[e].status = "RUNNING" => ~Running(w, e)
    PROVE  Carried'
  <1> SUFFICES ASSUME NEW e \in Export, e \notin abandoned'
               PROVE  /\ row[e].status = "PENDING" =>
                            \/ api[e] \in {"requested", "failing"}
                            \/ e \in queue'
                            \/ \E v \in Worker : /\ task'[v] = e /\ locked'[v]
                                                 /\ stage'[v] = "taken"
                      /\ row[e].status = "RUNNING" =>
                            \E v \in Worker : Running(v, e)'
    BY Zenon DEF Carried
  <1>1. e \notin abandoned
    BY Zenon
  <1>2. ASSUME NEW v \in Worker, task[v] = e, locked[v], stage[v] = "taken",
               row[e].status = "PENDING"
        PROVE  \/ e \in queue'
               \/ task'[v] = e /\ locked'[v] /\ stage'[v] = "taken"
    <2>1. CASE v = w
      BY <1>2, <2>1, Zenon
    <2>2. CASE v # w
      BY <1>2, <2>2, Zenon
    <2> QED BY <2>1, <2>2, Zenon
  <1>3. ASSUME NEW v \in Worker, Running(v, e), row[e].status = "RUNNING"
        PROVE  Running(v, e)'
    BY <1>3, Zenon DEF Running
  <1> QED BY <1>1, <1>2, <1>3, Zenon DEF Carried

\* Every step keeps an unsettled export carried on by someone.
LEMMA CarriedStep ==
    ASSUME TypeOK, Busy, Claimed, Carried, [Next]_vars
    PROVE  Carried'
  <1> USE ExportsAssumption DEF TypeOK, Busy, Claimed, Carried, Running, NoRow
  <1>1. ASSUME NEW r \in Ref, AddReference(r)
        PROVE  Carried'
    BY <1>1 DEF AddReference, jobVars
  <1>2. ASSUME NEW e \in Export, Request(e)
        PROVE  Carried'
    BY <1>2 DEF Request, jobVars
  <1>3. ASSUME NEW e \in Export, Enqueue(e)
        PROVE  Carried'
    BY <1>3 DEF Enqueue, Tasks!Send, jobVars
  <1>4. ASSUME NEW e \in Export, MarkUnqueued(e)
        PROVE  Carried'
    BY <1>4 DEF MarkUnqueued, Failed, jobVars
  <1>5. ASSUME NEW w \in Worker, NEW e \in queue, StartTask(w, e)
        PROVE  Carried'
    BY <1>5 DEF StartTask, Tasks!Take, jobVars
  <1>6. ASSUME NEW w \in Worker, Claim(w)
        PROVE  Carried'
    <2>1. stage[w] = "taken" /\ UNCHANGED <<api, queue, task, locked, abandoned>>
      BY <1>6 DEF Claim
    <2>2. CASE row[task[w]].status = "PENDING"
      <3>1. /\ row' = [row EXCEPT ![task[w]].status = "RUNNING"]
            /\ stage' = [stage EXCEPT ![w] = "claimed"]
        BY <1>6, <2>2 DEF Claim
      <3>2. task[w] \in Export
        BY <2>1
      <3> QED BY <2>1, <2>2, <3>1, <3>2
    <2>3. CASE row[task[w]].status # "PENDING"
      <3>1. row' = row /\ stage' = [stage EXCEPT ![w] = "ended"]
        BY <1>6, <2>3 DEF Claim
      <3>2. \A v \in Worker \ {w} : stage'[v] = stage[v]
        BY <3>1
      <3> HIDE DEF Carried
      <3> QED BY <2>1, <2>3, <3>1, <3>2, CarriedWithout, ZenonT(30)
    <2> QED BY <2>2, <2>3
  <1>7. ASSUME NEW w \in Worker, Resolve(w)
        PROVE  Carried'
    BY <1>7 DEF Resolve, jobVars
  <1>8. ASSUME NEW w \in Worker, StreamChunk(w)
        PROVE  Carried'
    BY <1>8 DEF StreamChunk, jobVars
  <1>9. ASSUME NEW w \in Worker, FinishUpload(w)
        PROVE  Carried'
    BY <1>9, SMTT(30) DEF FinishUpload, jobVars
  <1>10. ASSUME NEW w \in Worker, Complete(w)
        PROVE  Carried'
    BY <1>10 DEF Complete, jobVars
  <1>11. ASSUME NEW w \in Worker, MarkFailed(w)
        PROVE  Carried'
    BY <1>11 DEF MarkFailed, Failed, jobVars
  <1>12. ASSUME NEW w \in Worker, EndTask(w)
        PROVE  Carried'
    <2>1. Reset(w) /\ Tasks!Free({w}) /\ queue' = queue
      BY <1>12 DEF EndTask, Tasks!Finish
    <2>2. stage[w] = "ended" /\ UNCHANGED <<api, row, abandoned>>
      BY <1>12 DEF EndTask
    <2>3. \A v \in Worker \ {w} : /\ task'[v] = task[v] /\ stage'[v] = stage[v]
                                  /\ locked'[v] = locked[v]
      <3> HIDE DEF TypeOK, Busy, Claimed, Carried
      <3> QED BY <2>1, OthersGoOn, Zenon
    <2> HIDE DEF Carried
    <2> QED
      BY <2>1, <2>2, <2>3, CarriedWithout
  <1>13. ASSUME NEW e \in Export, EnqueueFails(e)
        PROVE  Carried'
    BY <1>13, SMTT(30) DEF EnqueueFails, Tasks!Send, Fault, jobVars
  <1>14. ASSUME NEW e \in Export, RequestLost(e)
        PROVE  Carried'
    BY <1>14, SMTT(30) DEF RequestLost, Fault, jobVars
  <1>15. ASSUME NEW w \in Worker, RunFails(w)
        PROVE  Carried'
    BY <1>15, SMTT(30) DEF RunFails, Fault, jobVars
  <1>16. ASSUME NEW w \in Worker, Raise(w)
        PROVE  Carried'
    <2>1. Reset(w) /\ Tasks!Free({w}) /\ queue' = queue
      BY <1>16 DEF Raise, Tasks!Finish
    <2>2. abandoned' = abandoned \cup {task[w]} /\ UNCHANGED <<api, row>>
      BY <1>16 DEF Raise
    <2>3. \A v \in Worker \ {w} : /\ task'[v] = task[v] /\ stage'[v] = stage[v]
                                  /\ locked'[v] = locked[v]
      <3> HIDE DEF TypeOK, Busy, Claimed, Carried
      <3> QED BY <2>1, OthersGoOn, Zenon
    <2> HIDE DEF Carried
    <2> QED
      BY <2>1, <2>2, <2>3, CarriedWithout
  <1>17. ASSUME NEW w \in Worker, LoseLock(w)
        PROVE  Carried'
    BY <1>17, SMTT(30) DEF LoseLock, Fault, Tasks!LoseLock, jobVars
  <1>18. ASSUME NEW w \in Worker, Crash(w)
        PROVE  Carried'
    <2>1. Reset(w) /\ Tasks!Free({w}) /\ UNCHANGED <<api, row>>
      BY <1>18 DEF Crash, Tasks!Stop
    <2>2. queue \subseteq queue' /\ (locked[w] => task[w] \in queue')
      BY <1>18 DEF Crash, Tasks!Stop, Tasks!Held
    <2>3. /\ abandoned \subseteq abandoned'
          /\ stage[w] \notin {"taken", "ended"} => task[w] \in abandoned'
      BY <1>18 DEF Crash
    <2>4. \A v \in Worker \ {w} : /\ task'[v] = task[v] /\ stage'[v] = stage[v]
                                  /\ locked'[v] = locked[v]
      <3> HIDE DEF TypeOK, Busy, Claimed, Carried
      <3> QED BY <2>1, OthersGoOn, Zenon
    <2>5. \A e \in Export \ abandoned' :
             /\ task[w] = e /\ locked[w] => e \in queue'
             /\ ~Running(w, e)
      <3> HIDE DEF TypeOK, Busy, Claimed, Carried
      <3> QED BY <2>2, <2>3
    <2> HIDE DEF Carried
    <2> QED
      BY <2>1, <2>2, <2>3, <2>4, <2>5, CarriedWithout, SMTT(30)
  <1>19. CASE UNCHANGED vars
    BY <1>19, SMTT(30) DEF vars
  <1> HIDE DEF TypeOK, Busy, Claimed, Carried, Running, NoRow
  <1> QED
    BY <1>1, <1>2, <1>3, <1>4, <1>5, <1>6, <1>7, <1>8, <1>9,
       <1>10, <1>11, <1>12, <1>13, <1>14, <1>15, <1>16, <1>17, <1>18, <1>19, Zenon
    DEF Next, RouteStep, RunStep, FaultStep

-----------------------------------------------------------------------------
(* The invariant, and what follows from it *)

\* The invariant holds at first.
LEMMA ExportInit == Init => ExportInv
  <1> SUFFICES ASSUME Init PROVE ExportInv
    OBVIOUS
  <1>1. TypeOK
    <2>1. locked \in [Worker -> BOOLEAN]
      BY Zenon DEF Init, Tasks!Init
    <2> QED
      BY <2>1 DEF Init, Tasks!Init, TypeOK, NoRow, FaultKind, Terminal
  <1>2. \A w \in Worker : ~locked[w] /\ task[w] = NoExport /\ stage[w] = "idle"
    BY DEF Init, Tasks!Init
  <1>3. Busy /\ OneRunner
    BY <1>2 DEF Busy, OneRunner, Running
  <1>4. Claimed /\ Carried
    BY <1>2 DEF Init, Claimed, Carried, Running, NoRow
  <1> QED BY <1>1, <1>3, <1>4, Zenon DEF ExportInv

\* Requests, claims and runs hand every export on, for any number of exports,
\* workers and faults.
THEOREM ExportInvariance == Spec => []ExportInv
  <1>1. ExportInv /\ [Next]_vars => ExportInv'
    BY TypeStep, BusyStep, ClaimedStep, OneRunnerStep, CarriedStep, Zenon
    DEF ExportInv
  <1> QED BY <1>1, ExportInit, PTL DEF Spec

\* An export is run by one worker at a time, however often its task is
\* delivered (_claim).
THEOREM OneRunnerSafe == Spec => []OneRunner
  <1>1. ExportInv => OneRunner
    BY Zenon DEF ExportInv
  <1> QED BY <1>1, ExportInvariance, PTL

\* A PENDING or RUNNING export is still on its way unless a process stopped or
\* failed half-way with it (_enqueue_export_task, run).
THEOREM NoneForgotten == Spec => []NotForgotten
  <1>1. ExportInv => NotForgotten
    BY DEF ExportInv, Carried, NotForgotten
  <1> QED BY <1>1, ExportInvariance, PTL

\* What a completed or failed export says does not change again while the
\* broker raises no error (_claim, fail).
THEOREM SettledIsFinal == Spec => SettledStays
  <1>1. ExportInv /\ [Next]_vars => [TerminalKept]_vars
    <2> SUFFICES ASSUME ExportInv, Next, NEW e \in Export,
                        row[e].status \in Terminal, faults["send"] = 0
                 PROVE  row'[e] = row[e]
      BY Zenon DEF TerminalKept
    <2> USE DEF ExportInv, TypeOK
    <2>1. \A w \in Worker : ~Running(w, e)
      BY DEF Claimed, Terminal
    <2>2. api[e] \notin {"new", "failing"}
      BY DEF Claimed, Terminal
    <2>3. ASSUME NEW x \in Export, RouteStep(x) \/ EnqueueFails(x) \/ RequestLost(x)
          PROVE  row'[e] = row[e]
      BY <2>2, <2>3
      DEF RouteStep, Request, Enqueue, MarkUnqueued, Failed, EnqueueFails, RequestLost
    <2>4. ASSUME NEW w \in Worker, Claim(w)
          PROVE  row'[e] = row[e]
      BY <2>4 DEF Claim, Terminal
    <2>5. ASSUME NEW w \in Worker, Complete(w) \/ MarkFailed(w)
          PROVE  row'[e] = row[e]
      BY <2>1, <2>5 DEF Complete, MarkFailed, Failed, Running
    <2>6. ASSUME \/ \E r \in Ref : AddReference(r)
                 \/ \E w \in Worker :
                       \/ \E x \in queue : StartTask(w, x)
                       \/ Resolve(w) \/ StreamChunk(w) \/ FinishUpload(w)
                       \/ EndTask(w) \/ RunFails(w) \/ Raise(w) \/ LoseLock(w)
                       \/ Crash(w)
          PROVE  row'[e] = row[e]
      BY <2>6 DEF AddReference, StartTask, Resolve, StreamChunk, FinishUpload,
                  EndTask, RunFails, Raise, LoseLock, Crash
    <2> HIDE DEF ExportInv, TypeOK
    <2> QED BY <2>3, <2>4, <2>5, <2>6, Zenon DEF Next, RunStep, FaultStep
  <1> QED BY <1>1, ExportInvariance, PTL DEF Spec, SettledStays

-----------------------------------------------------------------------------
(* A completed export has its whole file.  An export has one runner, which is *)
(* therefore alone in changing what it matched and its file, and whose upload *)
(* holds the lines of the first references it resolved.  Nobody runs a        *)
(* completed export.  What is resolved has each reference once by what        *)
(* list(dict.fromkeys()) and one page of a search return.                     *)

-----------------------------------------------------------------------------
(* The operators *)

\* Each of some things, once.
Each(s, S) == s \in Seq(S) /\ IsInjective(s) /\ Range(s) = S

\* As many things as places, when no place repeats another's.
LEMMA InjectiveCount ==
    ASSUME NEW S, NEW s \in Seq(S), IsInjective(s)
    PROVE  Cardinality(Range(s)) = Len(s)
  <1>1. Len(s) \in Nat /\ DOMAIN s = 1..Len(s) /\ s \in [1..Len(s) -> S]
    BY LenProperties
  <1>2. s \in [1..Len(s) -> Range(s)]
    BY <1>1 DEF Range
  <1>3. s \in Bijection(1..Len(s), Range(s))
    BY <1>1, <1>2 DEF Bijection, Injection, Surjection, Range
  <1>4. ExistsBijection(1..Len(s), Range(s))
    BY <1>3 DEF ExistsBijection
  <1> QED BY <1>1, <1>4, FS_CountingElements

\* A set of positions is numbered by the rank of its members.
LEMMA Ranks ==
    ASSUME NEW n \in Nat, NEW F \in SUBSET (1..n)
    PROVE  LET rank(i) == Cardinality({j \in F : j <= i})
           IN  /\ \A i \in F : rank(i) \in 1..Cardinality(F)
               /\ \A i, m \in F : rank(i) = rank(m) => i = m
               /\ \A k \in 1..Cardinality(F) : \E i \in F : rank(i) = k
  <1> DEFINE UpTo(i) == {j \in F : j <= i}
             rank == [i \in F |-> Cardinality(UpTo(i))]
             N == Cardinality(F)
  <1>1. IsFiniteSet(F) /\ N \in Nat /\ F \subseteq Int
    <2>1. IsFiniteSet(1..n)
      BY FS_Interval
    <2>2. IsFiniteSet(F)
      BY <2>1, FS_Subset
    <2> QED BY <2>2, FS_CardinalityType
  <1>2. ASSUME NEW i \in F
        PROVE  rank[i] \in 1..N
    <2>1. UpTo(i) \in SUBSET F /\ i \in UpTo(i)
      BY <1>1
    <2>2. IsFiniteSet(UpTo(i)) /\ Cardinality(UpTo(i)) <= N
      BY <1>1, <2>1, FS_Subset
    <2>3. Cardinality(UpTo(i)) \in Nat /\ Cardinality(UpTo(i)) # 0
      BY <2>1, <2>2, FS_CardinalityType, FS_EmptySet
    <2>4. rank[i] = Cardinality(UpTo(i))
      OBVIOUS
    <2> HIDE DEF UpTo, rank
    <2> QED BY <1>1, <2>2, <2>3, <2>4
  <1>3. ASSUME NEW i \in F, NEW m \in F, i < m
        PROVE  rank[i] # rank[m]
    <2>1. i \in Int /\ m \in Int
      BY <1>1
    <2>2. ASSUME NEW j \in UpTo(i) PROVE j \in UpTo(m)
      BY <1>1, <1>3, <2>1
    <2>3. m \in UpTo(m) /\ m \notin UpTo(i) /\ UpTo(m) \in SUBSET F
      BY <1>3, <2>1
    <2>4. IsFiniteSet(UpTo(m))
      BY <1>1, <2>3, FS_Subset
    <2>5. rank[i] = Cardinality(UpTo(i)) /\ rank[m] = Cardinality(UpTo(m))
      OBVIOUS
    <2> HIDE DEF UpTo, rank
    <2>6. Cardinality(UpTo(i)) # Cardinality(UpTo(m))
      BY <2>2, <2>3, <2>4, FS_Subset
    <2> QED BY <2>5, <2>6
  <1>4. \A i, m \in F : rank[i] = rank[m] => i = m
    <2> HIDE DEF rank
    <2> QED BY <1>1, <1>3
  <1>5. rank \in Injection(F, 1..N)
    <2>1. rank \in [F -> 1..N] /\ DOMAIN rank = F
      BY <1>2
    <2> HIDE DEF rank
    <2> QED BY <1>4, <2>1 DEF Injection, IsInjective
  <1>6. Cardinality(1..N) = N /\ IsFiniteSet(1..N)
    BY <1>1, FS_Interval
  <1>7. rank \in Surjection(F, 1..N)
    <2> HIDE DEF rank
    <2> QED BY <1>5, <1>6, FS_Injection
  <1>8. \A k \in 1..N : \E i \in F : rank[i] = k
    <2> HIDE DEF rank
    <2> QED BY <1>7 DEF Surjection
  <1>9. \A i \in F : rank[i] = Cardinality(UpTo(i))
    OBVIOUS
  <1> HIDE DEF rank
  <1> QED BY <1>2, <1>4, <1>8, <1>9

\* list(dict.fromkeys(ids)) has each of the ids, once.
LEMMA UniqueIs ==
    ASSUME NEW s \in Seq(Ref)
    PROVE  Each(Unique(s), Range(s))
  <1> DEFINE first == {i \in DOMAIN s : \A j \in 1..(i - 1) : s[j] # s[i]}
             rank(i) == Cardinality({j \in first : j <= i})
             N == Cardinality(first)
             at(n) == CHOOSE i \in first : rank(i) = n
             u == [n \in 1..N |-> s[at(n)]]
  <1>1. Len(s) \in Nat /\ DOMAIN s = 1..Len(s)
    BY LenProperties
  <1>2. first \in SUBSET (1..Len(s)) /\ IsFiniteSet(first) /\ N \in Nat
    <2>1. first \in SUBSET (1..Len(s)) /\ IsFiniteSet(1..Len(s))
      BY <1>1, FS_Interval
    <2>2. IsFiniteSet(first)
      BY <2>1, FS_Subset
    <2> QED BY <2>1, <2>2, FS_CardinalityType
  <1>3. ASSUME NEW n \in 1..N
        PROVE  at(n) \in first /\ rank(at(n)) = n
    <2>1. \E i \in first : rank(i) = n
      BY <1>1, <1>2, <1>3, Ranks, ZenonT(30)
    <2> HIDE DEF first, rank
    <2> QED BY <2>1
  <1>4. ASSUME NEW i \in first, NEW m \in first, s[i] = s[m]
        PROVE  i = m
    <2>1. i \in Nat /\ m \in Nat /\ i >= 1 /\ m >= 1
      BY <1>1
    <2>2. ~(i < m)
      <3>1. i < m => i \in 1..(m - 1)
        BY <2>1
      <3> QED BY <1>4, <3>1
    <2>3. ~(m < i)
      <3>1. m < i => m \in 1..(i - 1)
        BY <2>1
      <3> QED BY <1>4, <3>1
    <2> QED BY <2>1, <2>2, <2>3
  <1>5. Unique(s) = u
    BY DEF Unique
  <1>6. first \subseteq DOMAIN s
    OBVIOUS
  <1>7. ASSUME NEW x \in Range(s)
        PROVE  \E i \in first : s[i] = x
    <2> DEFINE T == {i \in DOMAIN s : s[i] = x}
    <2>1. T \subseteq Nat /\ T # {}
      BY <1>1 DEF Range
    <2>2. PICK i \in T : \A y \in T : ~(<<y, i>> \in OpToRel(<, Nat))
      BY <2>1, NatLessThanWellFounded, WFMin
    <2>3. \A y \in T : ~(y < i)
      BY <2>1, <2>2 DEF OpToRel
    <2>4. \A j \in 1..(i - 1) : j \in DOMAIN s /\ j < i
      BY <1>1
    <2>5. \A j \in 1..(i - 1) : s[j] # x
      BY <2>3, <2>4
    <2> QED BY <2>5
  <1>8. \A i \in first : rank(i) \in 1..N /\ at(rank(i)) = i
    <2>1. /\ \A i \in first : rank(i) \in 1..N
          /\ \A i, m \in first : rank(i) = rank(m) => i = m
      BY <1>1, <1>2, Ranks
    <2> HIDE DEF first, rank
    <2> QED BY <1>3, <2>1
  <1> HIDE DEF first, rank, at
  <1>9. u \in Seq(Range(s))
    BY <1>2, <1>3, <1>6 DEF Range
  <1>10. IsInjective(u)
    BY <1>3, <1>4 DEF IsInjective
  <1>11. Range(u) = Range(s)
    <2>1. Range(u) \subseteq Range(s)
      BY <1>3, <1>6 DEF Range
    <2>2. Range(s) \subseteq Range(u)
      BY <1>7, <1>8 DEF Range
    <2> QED BY <2>1, <2>2
  <1> HIDE DEF u
  <1> QED BY <1>5, <1>9, <1>10, <1>11 DEF Each

\* A page of a search has no reference twice, and every match unless there
\* are more than fit.
LEMMA PageIs ==
    ASSUME stored \subseteq Ref
    PROVE  /\ Page \in Seq(Hits) /\ IsInjective(Page)
           /\ Cardinality(Hits) <= Window => Range(Page) = Hits
  <1> DEFINE N == Cardinality(Hits)
             f == CHOOSE s \in Bijection(1..N, Hits) : TRUE
             m == IF N <= Window THEN N ELSE Window
  <1>1. N \in Nat /\ ExistsBijection(1..N, Hits)
    <2>1. Hits \in SUBSET Ref /\ IsFiniteSet(Ref)
      BY ExportsAssumption DEF Hits
    <2>2. IsFiniteSet(Hits)
      BY <2>1, FS_Subset
    <2> QED BY <2>2, FS_CardinalityType
  <1>2. f \in Bijection(1..N, Hits)
    BY <1>1 DEF ExistsBijection
  <1> HIDE DEF f
  <1>3. f \in [1..N -> Hits] /\ IsInjective(f) /\ f \in Surjection(1..N, Hits)
    BY <1>2 DEF Bijection, Injection
  <1>4. m \in Nat /\ m <= N /\ (N <= Window => m = N)
    BY <1>1, ExportsAssumption
  <1>5. Page = SubSeq(f, 1, m)
    BY DEF Page, f
  <1> HIDE DEF m
  <1>6. /\ SubSeq(f, 1, m) \in Seq(Hits) /\ Len(SubSeq(f, 1, m)) = m
        /\ \A i \in 1..m : SubSeq(f, 1, m)[i] = f[i]
    <2>1. \A i \in 1..m : f[i] \in Hits
      BY <1>1, <1>3, <1>4
    <2>2. /\ SubSeq(f, 1, m) \in Seq(Hits)
          /\ Len(SubSeq(f, 1, m)) = IF 1 <= m THEN m - 1 + 1 ELSE 0
          /\ \A i \in 1..(m - 1 + 1) : SubSeq(f, 1, m)[i] = f[1 + i - 1]
      BY <1>4, <2>1, SubSeqProperties
    <2> QED BY <1>4, <2>2
  <1>7. DOMAIN Page = 1..m
    BY <1>5, <1>6, LenProperties
  <1>8. IsInjective(Page)
    <2>1. \A i \in 1..m : i \in 1..N
      BY <1>1, <1>4
    <2> QED BY <1>3, <1>5, <1>6, <1>7, <2>1 DEF IsInjective
  <1>9. ASSUME N <= Window PROVE Range(Page) = Hits
    <2>1. \A i \in 1..N : Page[i] = f[i]
      BY <1>4, <1>5, <1>6, <1>9
    <2>2. DOMAIN Page = 1..N
      BY <1>4, <1>7, <1>9
    <2> HIDE DEF N
    <2>3. Range(Page) \subseteq Hits
      BY <1>3, <2>1, <2>2 DEF Range
    <2>4. Hits \subseteq Range(Page)
      BY <1>3, <2>1, <2>2 DEF Range, Surjection
    <2> QED BY <2>3, <2>4
  <1> QED BY <1>5, <1>6, <1>8, <1>9

\* The lines an export may have.
Line(e) == {Redacted(e, r) : r \in Ref}

\* Some references of an export, one line each.
LinesOf(e, s, n, lines) ==
    /\ lines \in Seq(Line(e))
    /\ Len(lines) = n
    /\ \A i \in 1..n : lines[i] = Redacted(e, s[i])

\* A chunk takes the file on to the chunk's end.
LEMMA ChunkIs ==
    ASSUME NEW e \in Export, NEW s \in Seq(Ref), NEW n \in 0..Len(s),
           n < Len(s), NEW lines, LinesOf(e, s, n, lines)
    PROVE  LET end == ChunkEnd(s, n)
               more == [i \in 1..(end - n) |-> Redacted(e, s[n + i])]
           IN  end \in 0..Len(s) /\ LinesOf(e, s, end, lines \o more)
  <1> DEFINE end == ChunkEnd(s, n)
             more == [i \in 1..(end - n) |-> Redacted(e, s[n + i])]
  <1>1. /\ Len(s) \in Nat /\ end \in 0..Len(s) /\ n < end /\ end \in Nat /\ n \in Nat
        /\ end - n \in Nat
    BY ExportsAssumption, LenProperties DEF ChunkEnd
  <1> HIDE DEF end
  <1>2. \A i \in 1..(end - n) : n + i \in 1..Len(s) /\ s[n + i] \in Ref
    BY <1>1, ElementOfSeq
  <1>3. more \in Seq(Line(e)) /\ Len(more) = end - n
    <2>1. \A i \in 1..(end - n) : Redacted(e, s[n + i]) \in Line(e)
      BY <1>2 DEF Line
    <2>2. more \in [1..(end - n) -> Line(e)]
      BY <2>1
    <2> HIDE DEF more
    <2>3. more \in Seq(Line(e))
      BY <1>1, <2>2, SeqDef
    <2> QED BY <1>1, <2>2, <2>3, LenProperties
  <1>4. \A i \in 1..(end - n) : more[i] = Redacted(e, s[n + i])
    OBVIOUS
  <1> HIDE DEF more
  <1>5. lines \in Seq(Line(e)) /\ Len(lines) = n
        /\ \A i \in 1..n : lines[i] = Redacted(e, s[i])
    BY DEF LinesOf
  <1>6. /\ lines \o more \in Seq(Line(e))
        /\ Len(lines \o more) = n + (end - n)
        /\ \A i \in 1..(n + (end - n)) :
              (lines \o more)[i] = IF i <= n THEN lines[i] ELSE more[i - n]
    <2>1. lines \in Seq(Line(e)) /\ more \in Seq(Line(e))
      BY <1>3, <1>5
    <2>2. /\ lines \o more \in Seq(Line(e))
          /\ Len(lines \o more) = Len(lines) + Len(more)
          /\ \A i \in 1..(Len(lines) + Len(more)) :
                (lines \o more)[i] = IF i <= Len(lines) THEN lines[i]
                                     ELSE more[i - Len(lines)]
      BY <2>1, ConcatProperties, Zenon
    <2> QED BY <1>3, <1>5, <2>2, Zenon
  <1>7. ASSUME NEW i \in 1..end PROVE (lines \o more)[i] = Redacted(e, s[i])
    <2>1. CASE i <= n
      BY <1>1, <1>5, <1>6, <2>1
    <2>2. CASE ~(i <= n)
      <3>1. i - n \in 1..(end - n) /\ n + (i - n) = i
        BY <1>1, <2>2
      <3> QED BY <1>1, <1>4, <1>6, <2>2, <3>1
    <2> QED BY <2>1, <2>2
  <1>8. LinesOf(e, s, end, lines \o more)
    BY <1>1, <1>6, <1>7 DEF LinesOf
  <1> QED BY <1>1, <1>8 DEF end, more

-----------------------------------------------------------------------------
(* The files *)

\* What a worker is to export, and how much of it is in its upload.
Resolved(w) ==
    LET e == task[w]
    IN  /\ ids[w] \in Seq(Ref) /\ IsInjective(ids[w])
        /\ Kind[e] = "reference" => Range(ids[w]) = Range(Requested[e])
        /\ Kind[e] = "search" /\ ~truncated[w] => Range(ids[w]) = matched[e]

Streamed(w) ==
    /\ pos[w] \in 0..Len(ids[w])
    /\ LinesOf(task[w], ids[w], pos[w], upload[w])

JobInv(w) ==
    /\ stage[w] \in {"idle", "taken", "claimed"} => pos[w] = 0 /\ upload[w] = <<>>
    /\ stage[w] \in {"streaming", "uploaded"} => Resolved(w) /\ Streamed(w)
    /\ stage[w] = "uploaded" =>
          /\ pos[w] = Len(ids[w])
          /\ blob[task[w]] = [exists |-> TRUE, lines |-> upload[w]]

\* CompletedIsWhole, of one export with its file, its count, whether it was
\* cut off and what its search matched.
WholeFile(e, file, n, cut, matches) ==
    LET refs == {file[i].ref : i \in DOMAIN file}
    IN  /\ Len(file) = n
        /\ Cardinality(refs) = Len(file)
        /\ Kind[e] = "reference" => refs = Range(Requested[e])
        /\ Kind[e] = "search" /\ ~cut => refs = matches
        /\ \A i \in DOMAIN file : file[i] = Redacted(e, file[i].ref)

Whole(e) ==
    /\ blob[e].exists
    /\ row[e].file
    /\ WholeFile(e, blob[e].lines, row[e].n, row[e].truncated, matched[e])

\* Nobody runs an export that is completed.
FileInv ==
    /\ DOMAIN ids = Worker /\ DOMAIN truncated = Worker
    /\ DOMAIN pos = Worker /\ DOMAIN upload = Worker
    /\ DOMAIN blob = Export /\ DOMAIN matched = Export
    /\ \A w \in Worker : JobInv(w)
    /\ \A e \in Export : row[e].status = "COMPLETED" =>
          Whole(e) /\ \A w \in Worker : ~Running(w, e)

\* The lines of all the references of an export are its whole file.
LEMMA FileOf ==
    ASSUME NEW e \in Export, NEW s \in Seq(Ref), IsInjective(s), NEW lines,
           LinesOf(e, s, Len(s), lines)
    PROVE  LET refs == {lines[i].ref : i \in DOMAIN lines}
           IN  /\ Len(lines) = Len(s)
               /\ refs = Range(s)
               /\ Cardinality(refs) = Len(lines)
               /\ \A i \in DOMAIN lines : lines[i] = Redacted(e, lines[i].ref)
  <1> DEFINE refs == {lines[i].ref : i \in DOMAIN lines}
  <1>1. /\ Len(lines) = Len(s) /\ lines \in Seq(Line(e))
        /\ \A i \in 1..Len(s) : lines[i] = Redacted(e, s[i])
    BY DEF LinesOf
  <1>2. DOMAIN lines = 1..Len(s) /\ DOMAIN s = 1..Len(s)
    BY <1>1, LenProperties
  <1>3. \A i \in DOMAIN lines : lines[i].ref = s[i] /\ lines[i] = Redacted(e, lines[i].ref)
    BY <1>1, <1>2 DEF Redacted
  <1>4. refs = Range(s)
    BY <1>2, <1>3 DEF Range
  <1>5. Cardinality(Range(s)) = Len(s)
    BY InjectiveCount
  <1> QED BY <1>1, <1>3, <1>4, <1>5

\* Steps that touch no worker's job.
LEMMA FilesUntouched ==
    ASSUME FileInv, UNCHANGED <<jobVars, stage, task, blob, matched>>,
           \A e \in Export : row'[e].status = "COMPLETED" => row'[e] = row[e]
    PROVE  FileInv'
  <1>1. UNCHANGED <<ids, truncated, pos, upload, stage, task, blob, matched>>
    BY DEF jobVars
  <1>2. ASSUME NEW w \in Worker PROVE JobInv(w)'
    <2>1. JobInv(w)
      BY DEF FileInv
    <2>2. Resolved(w)' <=> Resolved(w)
      BY <1>1 DEF Resolved
    <2>3. Streamed(w)' <=> Streamed(w)
      BY <1>1 DEF Streamed
    <2> QED BY <1>1, <2>1, <2>2, <2>3 DEF JobInv
  <1>3. ASSUME NEW e \in Export, row'[e].status = "COMPLETED"
        PROVE  Whole(e)' /\ \A w \in Worker : ~Running(w, e)'
    <2>1. row'[e] = row[e]
      BY <1>3
    <2>2. Whole(e) /\ \A w \in Worker : ~Running(w, e)
      BY <1>3, <2>1 DEF FileInv
    <2>3. Whole(e)'
      BY <1>1, <2>1, <2>2 DEF Whole
    <2> QED BY <1>1, <2>2, <2>3 DEF Running
  <1> QED BY <1>1, <1>2, <1>3 DEF FileInv

\* Steps of one worker: it may change the file and the matches of the export
\* it runs, and complete that export when its file is whole.
LEMMA FilesOfOne ==
    ASSUME TypeOK, OneRunner, FileInv, NEW w \in Worker,
           DOMAIN ids' = Worker, DOMAIN truncated' = Worker,
           DOMAIN pos' = Worker, DOMAIN upload' = Worker,
           DOMAIN blob' = Export, DOMAIN matched' = Export,
           \A v \in Worker \ {w} :
              /\ task'[v] = task[v] /\ stage'[v] = stage[v]
              /\ ids'[v] = ids[v] /\ truncated'[v] = truncated[v]
              /\ pos'[v] = pos[v] /\ upload'[v] = upload[v],
           \A e \in Export : ~Running(w, e) =>
              blob'[e] = blob[e] /\ matched'[e] = matched[e],
           \A e \in Export : row'[e].status = "COMPLETED" =>
              \/ row'[e] = row[e] /\ ~Running(w, e)'
              \/ Running(w, e) /\ ~Running(w, e)' /\ Whole(e)',
           Busy, JobInv(w)'
    PROVE  FileInv'
  <1>1. ASSUME NEW v \in Worker, v # w PROVE JobInv(v)'
    <2>1. JobInv(v)
      BY DEF FileInv
    <2>2. /\ task'[v] = task[v] /\ stage'[v] = stage[v]
          /\ ids'[v] = ids[v] /\ truncated'[v] = truncated[v]
          /\ pos'[v] = pos[v] /\ upload'[v] = upload[v]
      BY <1>1
    <2>3. CASE stage[v] \notin {"streaming", "uploaded"}
      BY <2>1, <2>2, <2>3 DEF JobInv
    <2>4. CASE stage[v] \in {"streaming", "uploaded"}
      <3>1. task[v] \in Export /\ Running(v, task[v])
        <4>1. task[v] \in Export \cup {NoExport}
          BY DEF TypeOK
        <4>2. stage[v] # "idle" /\ stage[v] \in {"claimed", "streaming", "uploaded", "failing"}
          BY <2>4
        <4>3. task[v] # NoExport
          BY <4>2, Zenon DEF Busy
        <4> QED BY <4>1, <4>2, <4>3, Zenon DEF Running
      <3>2. ~Running(w, task[v])
        BY <1>1, <3>1 DEF OneRunner
      <3>3. blob'[task[v]] = blob[task[v]] /\ matched'[task[v]] = matched[task[v]]
        BY <3>1, <3>2
      <3>4. Resolved(v)'
        BY <2>1, <2>2, <2>4, <3>3 DEF JobInv, Resolved
      <3>5. Streamed(v)'
        BY <2>1, <2>2, <2>4 DEF JobInv, Streamed
      <3> QED BY <2>1, <2>2, <2>4, <3>3, <3>4, <3>5 DEF JobInv
    <2> QED BY <2>3, <2>4
  <1>2. ASSUME NEW e \in Export, row'[e].status = "COMPLETED"
        PROVE  Whole(e)' /\ \A v \in Worker : ~Running(v, e)'
    <2>1. CASE row'[e] = row[e] /\ ~Running(w, e)'
      <3>1. Whole(e) /\ \A v \in Worker : ~Running(v, e)
        BY <1>2, <2>1 DEF FileInv
      <3>2. blob'[e] = blob[e] /\ matched'[e] = matched[e]
        BY <3>1
      <3>3. Whole(e)'
        BY <2>1, <3>1, <3>2 DEF Whole
      <3>4. \A v \in Worker : ~Running(v, e)'
        <4> TAKE v \in Worker
        <4>1. CASE v = w
          BY <2>1, <4>1, Zenon
        <4>2. CASE v # w
          <5>1. task'[v] = task[v] /\ stage'[v] = stage[v]
            BY <4>2
          <5> QED BY <3>1, <5>1, Zenon DEF Running
        <4> QED BY <4>1, <4>2, Zenon
      <3> QED BY <3>3, <3>4
    <2>2. CASE Running(w, e) /\ ~Running(w, e)' /\ Whole(e)'
      <3>1. \A v \in Worker \ {w} : ~Running(v, e)
        BY <2>2 DEF OneRunner
      <3>2. \A v \in Worker : ~Running(v, e)'
        BY <2>2, <3>1 DEF Running
      <3> QED BY <2>2, <3>2
    <2> QED BY <1>2, <2>1, <2>2
  <1> QED BY <1>1, <1>2 DEF FileInv

\* A worker that is done has nothing left of its job.
LEMMA FilesReset ==
    ASSUME TypeOK, Busy, OneRunner, FileInv, NEW w \in Worker, Reset(w),
           Tasks!Free({w}), UNCHANGED <<row, blob, matched>>
    PROVE  FileInv'
  <1>1. /\ stage' = [stage EXCEPT ![w] = "idle"]
        /\ ids' = [ids EXCEPT ![w] = <<>>]
        /\ truncated' = [truncated EXCEPT ![w] = FALSE]
        /\ pos' = [pos EXCEPT ![w] = 0]
        /\ upload' = [upload EXCEPT ![w] = <<>>]
    BY DEF Reset
  <1>2. \A v \in Worker \ {w} : task'[v] = task[v]
    BY DEF Tasks!Free
  <1>3. /\ DOMAIN ids' = Worker /\ DOMAIN truncated' = Worker
        /\ DOMAIN pos' = Worker /\ DOMAIN upload' = Worker
        /\ DOMAIN blob' = Export /\ DOMAIN matched' = Export
    BY <1>1 DEF FileInv
  <1>4. \A v \in Worker \ {w} :
           /\ stage'[v] = stage[v] /\ ids'[v] = ids[v] /\ truncated'[v] = truncated[v]
           /\ pos'[v] = pos[v] /\ upload'[v] = upload[v]
    BY <1>1 DEF FileInv, TypeOK
  <1>5. stage'[w] = "idle" /\ pos'[w] = 0 /\ upload'[w] = <<>>
    BY <1>1 DEF FileInv, TypeOK
  <1>6. JobInv(w)' /\ \A e \in Export : ~Running(w, e)'
    BY <1>5 DEF JobInv, Running
  <1> QED BY <1>2, <1>3, <1>4, <1>6, FilesOfOne

\* A step that changes only where a worker is, and the status of its export.
LEMMA FilesStage ==
    ASSUME TypeOK, Busy, OneRunner, FileInv, NEW w \in Worker,
           \A v \in Worker \ {w} : task'[v] = task[v] /\ stage'[v] = stage[v],
           UNCHANGED <<jobVars, blob, matched>>,
           \/ stage'[w] \in {"failing", "ended"}
           \/ stage'[w] \in {"taken", "claimed"} /\ stage[w] \in {"idle", "taken"},
           \A e \in Export : row'[e].status = "COMPLETED" =>
              /\ row'[e] = row[e]
              /\ stage'[w] \in {"failing", "claimed"} => task'[w] # e
    PROVE  FileInv'
  <1>1. UNCHANGED <<ids, truncated, pos, upload>>
    BY DEF jobVars
  <1>2. JobInv(w)'
    BY <1>1 DEF FileInv, JobInv
  <1>3. \A e \in Export : row'[e].status = "COMPLETED" => ~Running(w, e)'
    BY DEF Running
  <1>4. /\ DOMAIN ids' = Worker /\ DOMAIN truncated' = Worker
        /\ DOMAIN pos' = Worker /\ DOMAIN upload' = Worker
        /\ DOMAIN blob' = Export /\ DOMAIN matched' = Export
    BY <1>1 DEF FileInv
  <1> QED BY <1>1, <1>2, <1>3, <1>4, FilesOfOne

\* No lines of a resolved list are uploaded at first.
LEMMA NoLinesYet ==
    ASSUME NEW e, NEW s \in Seq(Ref)
    PROVE  0 \in 0..Len(s) /\ LinesOf(e, s, 0, <<>>)
  <1>1. 0 \in 0..Len(s)
    BY LenProperties
  <1>2. <<>> \in Seq(Line(e)) /\ Len(<<>>) = 0 /\ 1..0 = {}
    BY EmptySeq
  <1> QED BY <1>1, <1>2 DEF LinesOf

\* Resolving the references of an export keeps the files.
LEMMA ResolveKeeps ==
    ASSUME TypeOK, Busy, OneRunner, FileInv, NEW w \in Worker, Resolve(w)
    PROVE  FileInv'
  <1> DEFINE e == task[w]
  <1>1. stage[w] = "claimed" /\ e \in Export /\ Running(w, e)
    BY DEF Resolve, TypeOK, Busy, Running
  <1>2. /\ stage' = [stage EXCEPT ![w] = "streaming"]
        /\ UNCHANGED <<row, blob, task, pos, upload>>
    BY DEF Resolve
  <1>3. pos[w] = 0 /\ upload[w] = <<>>
    BY <1>1 DEF FileInv, JobInv
  <1>4. /\ stage'[w] = "streaming" /\ \A v \in Worker \ {w} : stage'[v] = stage[v]
    BY <1>2 DEF TypeOK
  <1>5. CASE Kind[e] = "reference"
    <2>1. ids' = [ids EXCEPT ![w] = Unique(Requested[e])] /\ UNCHANGED <<truncated, matched>>
      BY <1>5 DEF Resolve
    <2>2. /\ DOMAIN ids' = Worker /\ ids'[w] = Unique(Requested[e])
          /\ \A v \in Worker \ {w} : ids'[v] = ids[v]
      BY <2>1 DEF FileInv
    <2>3. Requested[e] \in Seq(Ref)
      BY <1>1, ExportsAssumption
    <2>4. Each(ids'[w], Range(Requested[e])) /\ Range(Requested[e]) \subseteq Ref
      <3>1. Range(Requested[e]) \subseteq Ref
        BY <2>3, LenProperties, SMTT(30) DEF Range
      <3> QED BY <2>2, <2>3, <3>1, UniqueIs
    <2>5. ids'[w] \in Seq(Ref) /\ IsInjective(ids'[w]) /\ Range(ids'[w]) = Range(Requested[e])
      BY <2>4, SeqMonotonic DEF Each
    <2>6. Resolved(w)'
      BY <1>2, <1>5, <2>5 DEF Resolved
    <2>7. Streamed(w)'
      BY <1>2, <1>3, <2>5, NoLinesYet, Zenon DEF Streamed
    <2>8. JobInv(w)'
      BY <1>4, <2>6, <2>7 DEF JobInv
    <2>9. /\ DOMAIN truncated' = Worker /\ DOMAIN pos' = Worker /\ DOMAIN upload' = Worker
          /\ DOMAIN blob' = Export /\ DOMAIN matched' = Export
      BY <1>2, <2>1 DEF FileInv
    <2>10. \A x \in Export : row'[x].status = "COMPLETED" => row'[x] = row[x] /\ ~Running(w, x)'
      BY <1>1, <1>2 DEF FileInv, Running
    <2> QED BY <1>2, <1>4, <2>1, <2>2, <2>8, <2>9, <2>10, FilesOfOne
  <1>6. CASE Kind[e] = "search"
    <2>1. /\ ids' = [ids EXCEPT ![w] = Page]
          /\ truncated' = [truncated EXCEPT ![w] = Cardinality(Hits) > Window]
          /\ matched' = [matched EXCEPT ![e] = Hits]
      BY <1>6 DEF Resolve
    <2>2. /\ DOMAIN ids' = Worker /\ ids'[w] = Page
          /\ \A v \in Worker \ {w} : ids'[v] = ids[v]
      BY <2>1 DEF FileInv
    <2>3. /\ DOMAIN truncated' = Worker /\ truncated'[w] = (Cardinality(Hits) > Window)
          /\ \A v \in Worker \ {w} : truncated'[v] = truncated[v]
      BY <2>1, Zenon DEF FileInv
    <2>4. /\ DOMAIN matched' = Export /\ matched'[e] = Hits
          /\ \A x \in Export \ {e} : matched'[x] = matched[x]
      BY <1>1, <2>1 DEF FileInv
    <2>5. stored \subseteq Ref
      BY DEF TypeOK
    <2>6. /\ Page \in Seq(Hits) /\ IsInjective(Page)
          /\ Cardinality(Hits) <= Window => Range(Page) = Hits
      BY <2>5, PageIs
    <2>7. Page \in Seq(Ref)
      <3>1. Hits \subseteq Ref
        BY <2>5 DEF Hits
      <3> QED BY <2>6, <3>1, SeqMonotonic
    <2>8. ~truncated'[w] => Cardinality(Hits) <= Window
      <3>1. Cardinality(Hits) \in Nat /\ Window \in Nat
        <4>1. Hits \in SUBSET Ref /\ IsFiniteSet(Ref)
          BY <2>5, ExportsAssumption DEF Hits
        <4>2. IsFiniteSet(Hits)
          BY <4>1, FS_Subset
        <4> QED BY <4>2, FS_CardinalityType, ExportsAssumption
      <3>2. ~truncated'[w] => ~(Cardinality(Hits) > Window)
        BY <2>3, Zenon
      <3> QED BY <3>1, <3>2
    <2>9. Resolved(w)'
      BY <1>2, <1>6, <2>2, <2>4, <2>6, <2>7, <2>8 DEF Resolved
    <2>10. Streamed(w)'
      BY <1>2, <1>3, <2>2, <2>7, NoLinesYet, Zenon DEF Streamed
    <2>11. JobInv(w)'
      BY <1>4, <2>9, <2>10 DEF JobInv
    <2>12. /\ DOMAIN pos' = Worker /\ DOMAIN upload' = Worker /\ DOMAIN blob' = Export
      BY <1>2 DEF FileInv
    <2>13. \A x \in Export : row'[x].status = "COMPLETED" => row'[x] = row[x] /\ ~Running(w, x)'
      BY <1>1, <1>2 DEF FileInv, Running
    <2>14. \A x \in Export : ~Running(w, x) => blob'[x] = blob[x] /\ matched'[x] = matched[x]
      BY <1>1, <1>2, <2>4
    <2> QED BY <1>2, <1>4, <2>2, <2>3, <2>4, <2>11, <2>12, <2>13, <2>14, FilesOfOne
  <1> QED BY <1>1, <1>5, <1>6, ExportsAssumption

\* Uploading a chunk keeps the files.
LEMMA StreamKeeps ==
    ASSUME TypeOK, Busy, OneRunner, FileInv, NEW w \in Worker, StreamChunk(w)
    PROVE  FileInv'
  <1>0. PICK e \in Export, s \in Seq(Ref), n \in 0..Len(ids[w]) :
           /\ e = task[w] /\ s = ids[w] /\ n = pos[w]
           /\ LinesOf(e, s, n, upload[w])
    <2>1. stage[w] = "streaming" /\ task[w] \in Export
      BY DEF StreamChunk, TypeOK, Busy
    <2>2. Resolved(w) /\ Streamed(w)
      BY <2>1 DEF FileInv, JobInv
    <2> QED BY <2>1, <2>2 DEF Resolved, Streamed
  <1> DEFINE end == ChunkEnd(s, n)
             more == [i \in 1..(end - n) |-> Redacted(e, s[n + i])]
  <1>1. stage[w] = "streaming" /\ Running(w, e) /\ n < Len(s)
    BY <1>0 DEF StreamChunk, TypeOK, Busy, Running
  <1>2. /\ upload' = [upload EXCEPT ![w] = upload[w] \o more]
        /\ pos' = [pos EXCEPT ![w] = end]
        /\ UNCHANGED <<row, blob, task, stage, ids, truncated, matched>>
    BY <1>0 DEF StreamChunk
  <1>3. Resolved(w)
    BY <1>1 DEF FileInv, JobInv
  <1>4. end \in 0..Len(s) /\ LinesOf(e, s, end, upload[w] \o more)
    BY <1>0, <1>1, ChunkIs
  <1> HIDE DEF end, more
  <1>5. /\ DOMAIN upload' = Worker /\ DOMAIN pos' = Worker
        /\ upload'[w] = upload[w] \o more /\ pos'[w] = end
        /\ \A v \in Worker \ {w} : upload'[v] = upload[v] /\ pos'[v] = pos[v]
    BY <1>2 DEF FileInv
  <1>6. Resolved(w)'
    BY <1>2, <1>3 DEF Resolved
  <1>7. Streamed(w)'
    BY <1>0, <1>2, <1>4, <1>5 DEF Streamed
  <1>8. JobInv(w)'
    BY <1>1, <1>2, <1>6, <1>7 DEF JobInv
  <1>9. /\ DOMAIN ids' = Worker /\ DOMAIN truncated' = Worker
        /\ DOMAIN blob' = Export /\ DOMAIN matched' = Export
    BY <1>2 DEF FileInv
  <1>10. \A x \in Export : row'[x].status = "COMPLETED" => row'[x] = row[x] /\ ~Running(w, x)'
    BY <1>1, <1>2 DEF FileInv, Running
  <1> QED BY <1>2, <1>5, <1>8, <1>9, <1>10, FilesOfOne

\* Finishing the upload keeps the files.
LEMMA UploadKeeps ==
    ASSUME TypeOK, Busy, OneRunner, FileInv, NEW w \in Worker, FinishUpload(w)
    PROVE  FileInv'
  <1> DEFINE e == task[w]
             file == [exists |-> TRUE, lines |-> upload[w]]
  <1>1. stage[w] = "streaming" /\ e \in Export /\ Running(w, e) /\ pos[w] = Len(ids[w])
    BY DEF FinishUpload, TypeOK, Busy, Running
  <1>2. /\ blob' = [blob EXCEPT ![e] = file]
        /\ stage' = [stage EXCEPT ![w] = "uploaded"]
        /\ UNCHANGED <<row, task, ids, truncated, pos, upload, matched>>
    BY DEF FinishUpload, jobVars
  <1>3. Resolved(w) /\ Streamed(w)
    BY <1>1 DEF FileInv, JobInv
  <1>4. /\ DOMAIN blob' = Export /\ blob'[e] = file
        /\ \A x \in Export \ {e} : blob'[x] = blob[x]
    BY <1>1, <1>2 DEF FileInv
  <1>5. stage'[w] = "uploaded" /\ \A v \in Worker \ {w} : stage'[v] = stage[v]
    BY <1>2 DEF TypeOK
  <1>6. Resolved(w)'
    BY <1>2, <1>3 DEF Resolved
  <1>7. Streamed(w)'
    BY <1>2, <1>3 DEF Streamed
  <1>8. JobInv(w)'
    BY <1>1, <1>2, <1>4, <1>5, <1>6, <1>7 DEF JobInv
  <1>9. /\ DOMAIN ids' = Worker /\ DOMAIN truncated' = Worker /\ DOMAIN pos' = Worker
        /\ DOMAIN upload' = Worker /\ DOMAIN matched' = Export
    BY <1>2 DEF FileInv
  <1>10. \A x \in Export : row'[x].status = "COMPLETED" => row'[x] = row[x] /\ ~Running(w, x)'
    BY <1>1, <1>2 DEF FileInv, Running
  <1>11. \A x \in Export : ~Running(w, x) => blob'[x] = blob[x] /\ matched'[x] = matched[x]
    BY <1>1, <1>2, <1>4
  <1> QED BY <1>2, <1>4, <1>5, <1>8, <1>9, <1>10, <1>11, FilesOfOne

\* Completing an export keeps the files.
LEMMA CompleteKeeps ==
    ASSUME TypeOK, Busy, OneRunner, FileInv, NEW w \in Worker, Complete(w)
    PROVE  FileInv'
  <1>0. PICK e \in Export : e = task[w]
    BY DEF Complete, TypeOK, Busy
  <1>1. stage[w] = "uploaded" /\ Running(w, e)
    BY <1>0 DEF Complete, TypeOK, Busy, Running
  <1>2. /\ stage' = [stage EXCEPT ![w] = "ended"]
        /\ UNCHANGED <<blob, task, ids, truncated, pos, upload, matched>>
    BY DEF Complete, jobVars
  <1>3. /\ row'[e].file /\ row'[e].n = Len(ids[w]) /\ row'[e].truncated = truncated[w]
        /\ \A x \in Export \ {e} : row'[x] = row[x]
    BY <1>0 DEF Complete, TypeOK, NoRow
  <1>4. /\ Resolved(w) /\ Streamed(w) /\ pos[w] = Len(ids[w])
        /\ blob[e] = [exists |-> TRUE, lines |-> upload[w]]
    BY <1>0, <1>1 DEF FileInv, JobInv
  <1>5. /\ ids[w] \in Seq(Ref) /\ IsInjective(ids[w])
        /\ LinesOf(e, ids[w], Len(ids[w]), upload[w])
    BY <1>0, <1>4 DEF Resolved, Streamed
  <1>6. WholeFile(e, upload[w], Len(ids[w]), truncated[w], matched[e])
    <2>1. /\ Kind[e] = "reference" => Range(ids[w]) = Range(Requested[e])
          /\ Kind[e] = "search" /\ ~truncated[w] => Range(ids[w]) = matched[e]
      BY <1>0, <1>4 DEF Resolved
    <2>2. PICK s \in Seq(Ref) : s = ids[w]
      BY <1>5
    <2>3. PICK lines : lines = upload[w]
      OBVIOUS
    <2>4. IsInjective(s) /\ LinesOf(e, s, Len(s), lines)
      BY <1>5, <2>2, <2>3
    <2>5. /\ Len(lines) = Len(s)
          /\ {lines[i].ref : i \in DOMAIN lines} = Range(s)
          /\ Cardinality({lines[i].ref : i \in DOMAIN lines}) = Len(lines)
          /\ \A i \in DOMAIN lines : lines[i] = Redacted(e, lines[i].ref)
      BY <2>4, FileOf, ZenonT(30)
    <2>6. WholeFile(e, lines, Len(s), truncated[w], matched[e])
      BY <2>1, <2>2, <2>5 DEF WholeFile
    <2> QED BY <2>2, <2>3, <2>6
  <1>7. blob'[e].exists /\ blob'[e].lines = upload[w]
    BY <1>2, <1>4
  <1>9. Whole(e)'
    BY <1>2, <1>3, <1>6, <1>7 DEF Whole
  <1>10. stage'[w] = "ended" /\ \A v \in Worker \ {w} : stage'[v] = stage[v]
    BY <1>2 DEF TypeOK
  <1>11. JobInv(w)' /\ \A x \in Export : ~Running(w, x)'
    BY <1>10 DEF JobInv, Running
  <1>12. /\ DOMAIN ids' = Worker /\ DOMAIN truncated' = Worker /\ DOMAIN pos' = Worker
         /\ DOMAIN upload' = Worker /\ DOMAIN matched' = Export /\ DOMAIN blob' = Export
    BY <1>2 DEF FileInv
  <1>13. \A x \in Export : row'[x] = row[x] \/ (Running(w, x) /\ Whole(x)')
    BY <1>1, <1>3, <1>9
  <1> QED BY <1>2, <1>10, <1>11, <1>12, <1>13, FilesOfOne

\* Every step keeps the files.
LEMMA FilesStep ==
    ASSUME TypeOK, Busy, Claimed, OneRunner, FileInv, [Next]_vars
    PROVE  FileInv'
  <1>1. ASSUME NEW e \in Export,
               RouteStep(e) \/ EnqueueFails(e) \/ RequestLost(e)
        PROVE  FileInv'
    <2>1. UNCHANGED <<jobVars, stage, task, blob, matched>>
      BY <1>1 DEF RouteStep, Request, Enqueue, MarkUnqueued, EnqueueFails,
                  RequestLost, Tasks!Send
    <2>2. \A x \in Export : row'[x].status = "COMPLETED" => row'[x] = row[x]
      BY <1>1 DEF TypeOK, NoRow, RouteStep, Request, Enqueue, MarkUnqueued, Failed,
                  EnqueueFails, RequestLost
    <2> QED BY <2>1, <2>2, FilesUntouched
  <1>2. CASE (\E r \in Ref : AddReference(r)) \/ (\E w \in Worker : LoseLock(w))
    <2>1. UNCHANGED <<jobVars, stage, task, blob, matched, row>>
      BY <1>2 DEF AddReference, LoseLock, Tasks!LoseLock
    <2> QED BY <2>1, FilesUntouched
  <1>3. CASE UNCHANGED vars
    BY <1>3, FilesUntouched DEF vars, jobVars
  <1>4. ASSUME NEW w \in Worker, NEW e \in queue, StartTask(w, e)
        PROVE  FileInv'
    <2>1. /\ stage[w] = "idle" /\ stage'[w] = "taken"
          /\ \A v \in Worker \ {w} : task'[v] = task[v] /\ stage'[v] = stage[v]
          /\ UNCHANGED <<jobVars, blob, matched, row>>
      BY <1>4 DEF StartTask, Tasks!Take, TypeOK
    <2> QED BY <2>1, FilesStage
  <1>5. ASSUME NEW w \in Worker, Claim(w)
        PROVE  FileInv'
    <2>1. /\ stage[w] = "taken" /\ task' = task
          /\ UNCHANGED <<jobVars, blob, matched>>
      BY <1>5 DEF Claim
    <2>2. task[w] \in Export
      BY <2>1 DEF TypeOK, Busy
    <2>3. CASE row[task[w]].status = "PENDING"
      <3>1. /\ row' = [row EXCEPT ![task[w]].status = "RUNNING"]
            /\ stage' = [stage EXCEPT ![w] = "claimed"]
        BY <1>5, <2>3 DEF Claim
      <3>2. stage'[w] = "claimed" /\ \A v \in Worker \ {w} : stage'[v] = stage[v]
        BY <3>1 DEF TypeOK
      <3>3. \A x \in Export : row'[x].status = "COMPLETED" => row'[x] = row[x] /\ task'[w] # x
        BY <2>1, <2>2, <3>1 DEF TypeOK, NoRow
      <3> QED BY <2>1, <3>2, <3>3, FilesStage
    <2>4. CASE row[task[w]].status # "PENDING"
      <3>1. row' = row /\ stage' = [stage EXCEPT ![w] = "ended"]
        BY <1>5, <2>4 DEF Claim
      <3>2. stage'[w] = "ended" /\ \A v \in Worker \ {w} : stage'[v] = stage[v]
        BY <3>1 DEF TypeOK
      <3> QED BY <2>1, <3>1, <3>2, FilesStage
    <2> QED BY <2>3, <2>4
  <1>6. ASSUME NEW w \in Worker, RunFails(w)
        PROVE  FileInv'
    <2>1. /\ stage' = [stage EXCEPT ![w] = "failing"] /\ task' = task
          /\ UNCHANGED <<jobVars, blob, matched, row>>
          /\ stage[w] \in {"claimed", "streaming", "uploaded"}
      BY <1>6 DEF RunFails
    <2>2. \A x \in Export : row[x].status = "COMPLETED" => task[w] # x
      BY <2>1 DEF FileInv, Running
    <2>3. stage'[w] = "failing" /\ \A v \in Worker \ {w} : stage'[v] = stage[v]
      BY <2>1 DEF TypeOK
    <2> QED BY <2>1, <2>2, <2>3, FilesStage
  <1>7. ASSUME NEW w \in Worker, MarkFailed(w)
        PROVE  FileInv'
    <2>1. /\ stage' = [stage EXCEPT ![w] = "ended"] /\ task' = task
          /\ UNCHANGED <<jobVars, blob, matched>>
      BY <1>7 DEF MarkFailed
    <2>2. \A x \in Export : row'[x].status = "COMPLETED" => row'[x] = row[x]
      BY <1>7 DEF MarkFailed, Failed, TypeOK, NoRow
    <2>3. stage'[w] = "ended" /\ \A v \in Worker \ {w} : stage'[v] = stage[v]
      BY <2>1 DEF TypeOK
    <2> QED BY <2>1, <2>2, <2>3, FilesStage
  <1>8. ASSUME NEW w \in Worker, EndTask(w) \/ Raise(w) \/ Crash(w)
        PROVE  FileInv'
    <2>1. Reset(w) /\ Tasks!Free({w}) /\ UNCHANGED <<row, blob, matched>>
      BY <1>8 DEF EndTask, Raise, Crash, Tasks!Finish, Tasks!Stop
    <2> QED BY <2>1, FilesReset
  <1> QED
    BY <1>1, <1>2, <1>3, <1>4, <1>5, <1>6, <1>7, <1>8, ResolveKeeps, StreamKeeps,
       UploadKeeps, CompleteKeeps, Zenon
    DEF Next, RunStep, FaultStep

\* There are no files at first.
LEMMA FilesInit == Init => FileInv
  <1> SUFFICES ASSUME Init PROVE FileInv
    OBVIOUS
  <1>1. \A w \in Worker : stage[w] = "idle" /\ pos[w] = 0 /\ upload[w] = <<>>
    BY DEF Init
  <1>2. \A w \in Worker : JobInv(w)
    BY <1>1 DEF JobInv
  <1>3. \A e \in Export : row[e].status # "COMPLETED"
    BY DEF Init, NoRow
  <1>4. /\ DOMAIN ids = Worker /\ DOMAIN truncated = Worker
        /\ DOMAIN pos = Worker /\ DOMAIN upload = Worker
        /\ DOMAIN blob = Export /\ DOMAIN matched = Export
    BY DEF Init
  <1> QED BY <1>2, <1>3, <1>4 DEF FileInv

-----------------------------------------------------------------------------
(* The theorems *)

\* Whoever runs an export has streamed a part of what it resolved, and what is
\* completed has its whole file, for any lists, matches, chunks and windows.
THEOREM FilesInvariance == Spec => []FileInv
  <1>1. ExportInv /\ FileInv /\ [Next]_vars => FileInv'
    BY FilesStep, Zenon DEF ExportInv
  <1> QED BY <1>1, FilesInit, ExportInvariance, PTL DEF Spec

\* A completed export has its file, with each of the listed references, or
\* each match unless it is marked as truncated, once, and full text only for
\* entitled principals (_resolve_reference_ids, _collect_search_export_ids,
\* FileStream, _complete).
THEOREM CompletedWhole == Spec => []CompletedIsWhole
  <1>1. FileInv => CompletedIsWhole
    BY DEF FileInv, Whole, WholeFile, CompletedIsWhole
  <1> QED BY <1>1, FilesInvariance, PTL

=============================================================================
