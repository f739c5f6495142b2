---------------------------- MODULE ImportProofs ----------------------------
(***************************************************************************)
(* What an import result says is so, for any files, workers and faults:    *)
(* every line of a streamed file has a result, a line has only one while   *)
(* no distribution is delivered again, and what a result reports as        *)
(* imported is stored.                                                     *)
(*                                                                         *)
(* The invariant follows an id from its first use.  A result id is named   *)
(* by the tasks of one line before the row is committed, so a task that    *)
(* overtakes the commit of its row is still about the row's line.  A       *)
(* reference id is written by one worker, once; what that worker compared  *)
(* it with was stored before and is never written again.  And a streaming  *)
(* worker is never past the line it has committed, but for the one it has  *)
(* sent, which is why a reconnection neither repeats nor misses a line.    *)
(***************************************************************************)
EXTENDS Imports, TLAPS

-----------------------------------------------------------------------------
(* Types *)

Status == {"ABSENT", "CREATED", "STARTED", "RETRYING"} \cup Processed

Result == [batch : Batch, line : Nat, status : Status, ref : RefId \cup {NoRef}]

ContentType == [vis : Visibility \cup {"NONE"}, ids : SUBSET Identifier,
                extras : SUBSET Enhancement]

Determined == [det : {"NONE", "PENDING", "EXACT_DUPLICATE", "DECIDED"},
               canon : RefId \cup {NoRef}]

DistributeTasks == [task : {"distribute"}, batch : Batch]

ImportTasks == [task : {"import"}, result : ResultId, batch : Batch, line : Nat,
                retries : Nat]

DecideTasks == [task : {"decide"}, ref : RefId]

Outcome == [kind : {"none", "rejected", "conflict", "error", "new", "exact"},
            ref : RefId \cup {NoRef}, canon : RefId \cup {NoRef},
            content : ContentType, errors : BOOLEAN]

Streaming == {"stream", "sent"}

Importing == {"waiting", "loaded", "started", "writing", "ingested", "noted"}

TypeOK ==
    /\ importer \in [Batch -> {"new", "recorded", "registered", "failed",
                               "polling", "complete", "timed_out"}]
    /\ results \in [ResultId -> Result]
    /\ stored \in [RefId -> ContentType]
    /\ decision \in [RefId -> Determined]
    /\ queue \subseteq DistributeTasks \cup ImportTasks \cup DecideTasks
    /\ stage \in [Worker -> {"idle"} \cup Streaming \cup Importing]
    /\ task \in [Worker -> DistributeTasks \cup ImportTasks \cup {NoTask}]
    /\ locked \in [Worker -> BOOLEAN]
    /\ pos \in [Worker -> Nat]
    /\ last \in [Worker -> Nat]
    /\ attempt \in [Worker -> Nat]
    /\ pending \in [Worker -> ResultId \cup {NoResult}]
    /\ out \in [Worker -> Outcome]
    /\ distributed \subseteq Batch
    /\ faults \in [call : Nat, crash : Nat, lock : Nat, renewal : Nat]

-----------------------------------------------------------------------------
(* The inductive invariant *)

\* A worker that streams a file has processed the lines up to last, and is at
\* or before it, but for the one line it has sent and not committed.
StageInv(w) ==
    /\ stage[w] = "idle" => task[w] = NoTask
    /\ stage[w] \in Streaming =>
          /\ task[w] \in DistributeTasks
          /\ last[w] <= Len(File(w))
    /\ stage[w] = "stream" => pos[w] <= last[w]
    /\ stage[w] = "sent" => /\ pos[w] = last[w] + 1
                            /\ pos[w] <= Len(File(w))
                            /\ File(w)[pos[w]].kind \in {"invalid", "entry"}
    /\ stage[w] \notin Streaming => last[w] = 0 /\ pos[w] = 0
    /\ stage[w] \in Importing => task[w] \in ImportTasks
    /\ stage[w] = "sent" <=> pending[w] # NoResult

\* A task on the broker, or with a worker.
Message == queue \cup {task[w] : w \in Worker}

\* An import task is about the line its result is about, once that is there.
MessageInv(m) ==
    m.task = "import" =>
        /\ m.line \in 1..Len(Lines[m.batch])
        /\ Lines[m.batch][m.line].kind \in {"invalid", "entry"}
        /\ results[m.result].status # "ABSENT" =>
              results[m.result].batch = m.batch /\ results[m.result].line = m.line

\* A result that is flushed and not committed is its worker's, and the tasks
\* that name it are about the line that worker has sent.
PendingInv(w) ==
    stage[w] = "sent" =>
        /\ results[pending[w]].status = "ABSENT"
        /\ \A v \in Worker \ {w} : pending[v] # pending[w]
        /\ \A m \in Message :
              m.task = "import" /\ m.result = pending[w] =>
                 m.batch = task[w].batch /\ m.line = pos[w]

\* A worker that has loaded its result is past wait_for_pk.
LoadedInv(w) ==
    stage[w] \in Importing \ {"waiting"} => results[task[w].result].status # "ABSENT"

\* The stored reference that stands for x holds what is left of e.
Holds(x, c) ==
    /\ x \in RefId
    /\ StandsFor(x) \in RefId
    /\ IsStored(StandsFor(x))
    /\ IsSuperset(stored[StandsFor(x)], c)

\* Nothing refers to a reference id that is about to be written, and what it
\* was compared with is stored.
OutcomeInv(w) ==
    /\ stage[w] \in {"idle", "waiting", "loaded", "started"} \cup Streaming
          => out[w] = NoOutcome
    /\ stage[w] = "writing" =>
          /\ out[w].kind \in {"new", "exact"}
          /\ out[w].ref \in RefId
          /\ ~IsStored(out[w].ref)
          /\ decision[out[w].ref] = NoDecision
          /\ out[w].kind = "exact" =>
                /\ out[w].canon \in RefId
                /\ IsStored(out[w].canon)
                /\ IsSuperset(stored[out[w].canon], out[w].content)
    /\ stage[w] \in {"ingested", "noted"} =>
          /\ out[w].kind # "none"
          /\ out[w].kind \in {"new", "exact"} => Holds(out[w].ref, out[w].content)
          /\ out[w].kind = "new" => IsStored(out[w].ref)
    /\ out[w].kind \in {"new", "exact"} =>
          /\ out[w].ref # NoRef
          /\ IsSuperset(out[w].content, Kept(Entry(w), Entry(w).extras))
          /\ ~out[w].errors => IsSuperset(out[w].content, Content(Entry(w)))
          /\ out[w].content # NoContent
          /\ \A v \in Worker \ {w} : out[v].ref # out[w].ref

\* ImportedIsStored, of one result.
ResultInv(r) ==
    /\ results[r].status # "ABSENT" =>
          results[r].line \in 1..Len(Lines[results[r].batch])
    /\ LET e == Lines[results[r].batch][results[r].line]
       IN  /\ results[r].status \in {"COMPLETED", "PARTIALLY_FAILED"} =>
                Holds(results[r].ref, Kept(e, e.extras))
           /\ results[r].status = "COMPLETED" => Holds(results[r].ref, Content(e))

DecideInv == \A m \in queue : m.task = "decide" => IsStored(m.ref)

Covered(b, n) ==
    \A l \in 1..n : Lines[b][l].kind # "blank" => ResultsFor(b, l) # {}

CoverInv ==
    /\ \A b \in distributed : Covered(b, Len(Lines[b]))
    /\ \A w \in Worker :
          stage[w] \in Streaming => Covered(task[w].batch, last[w])

\* While no distribution is delivered again, a batch is distributed once.
Distributes(w, b) == stage[w] \in Streaming /\ task[w].batch = b

Unstarted(b) ==
    /\ \A w \in Worker : ~Distributes(w, b)
    /\ \A l \in 1..Len(Lines[b]) : ResultsFor(b, l) = {}

Once(b) ==
    /\ importer[b] \in {"new", "recorded"} =>
          DistributeTask(b) \notin queue /\ Unstarted(b)
    /\ DistributeTask(b) \in queue => Unstarted(b)
    /\ \A w \in Worker : Distributes(w, b) =>
          /\ \A v \in Worker \ {w} : ~Distributes(v, b)
          /\ \A l \in 1..Len(Lines[b]) : l > last[w] => ResultsFor(b, l) = {}
    /\ \A l \in 1..Len(Lines[b]) : \A r, s \in ResultsFor(b, l) : r = s

OnceInv == DeliveredOnce => \A b \in Batch : Once(b)

ImportInv ==
    /\ TypeOK
    /\ \A w \in Worker : StageInv(w) /\ PendingInv(w) /\ LoadedInv(w) /\ OutcomeInv(w)
    /\ \A m \in Message : MessageInv(m)
    /\ \A r \in ResultId : ResultInv(r)
    /\ DecideInv
    /\ CoverInv
    /\ OnceInv

-----------------------------------------------------------------------------
(* What the pieces are *)

\* The lines of a batch's file are entries, and there are finitely many.
LEMMA FileIs ==
    ASSUME NEW b \in Batch
    PROVE  /\ Lines[b] \in Seq(EntryType)
           /\ Len(Lines[b]) \in Nat
           /\ \A l \in 1..Len(Lines[b]) : Lines[b][l] \in EntryType
  BY ConstantsAssumption

\* Tasks of the three kinds are told apart by their name, and carry what
\* their handlers read.
LEMMA TaskKinds ==
    /\ \A m \in DistributeTasks : m.task = "distribute" /\ m.batch \in Batch
    /\ \A m \in ImportTasks : /\ m.task = "import" /\ m.result \in ResultId
                              /\ m.batch \in Batch /\ m.line \in Nat
                              /\ m.retries \in Nat
    /\ \A m \in DecideTasks : m.task = "decide" /\ m.ref \in RefId
    /\ NoTask.task = "none"
    /\ \A b \in Batch : DistributeTask(b) \in DistributeTasks
    /\ \A x \in RefId : DecideTask(x) \in DecideTasks
    /\ \A r \in ResultId, b \in Batch, l \in Nat, n \in Nat :
          /\ ImportTask(r, b, l, n) \in ImportTasks
          /\ ImportTask(r, b, l, n).result = r
          /\ ImportTask(r, b, l, n).batch = b
          /\ ImportTask(r, b, l, n).line = l
  BY Zenon DEF DistributeTasks, ImportTasks, DecideTasks, NoTask, DistributeTask,
         DecideTask, ImportTask

\* The outcomes that name no reference.
LEMMA NoOutcomeIs ==
    /\ NoOutcome \in Outcome
    /\ NoOutcome.kind = "none" /\ NoOutcome.ref = NoRef
    /\ \A k \in {"rejected", "conflict", "error"} :
          /\ [NoOutcome EXCEPT !.kind = k] \in Outcome
          /\ [NoOutcome EXCEPT !.kind = k].kind = k
          /\ [NoOutcome EXCEPT !.kind = k].ref = NoRef
  BY Zenon DEF NoOutcome, Outcome, ContentType, NoContent

\* What is kept of an entry is content, and holds less than the entry.
LEMMA EntryIs ==
    ASSUME NEW e \in EntryType, NEW D \in SUBSET e.extras
    PROVE  /\ Kept(e, D) \in ContentType /\ Content(e) \in ContentType
           /\ Kept(e, D) # NoContent
           /\ IsSuperset(Kept(e, D), Kept(e, e.extras))
           /\ D = {} => IsSuperset(Kept(e, D), Content(e))
  BY Zenon
  DEF EntryType, Kept, Content, ContentType, NoContent, IsSuperset, Visibility

\* Holding what another content holds is transitive.
LEMMA SupersetTransitive ==
    ASSUME NEW a, NEW b, NEW c, IsSuperset(a, b), IsSuperset(b, c)
    PROVE  IsSuperset(a, c)
  BY Zenon DEF IsSuperset

-----------------------------------------------------------------------------
(* Who takes a step *)

WorkerStep(w) ==
    \/ \E m \in queue : StartDistributing(w, m) \/ StartImporting(w, m)
    \/ StreamStep(w)
    \/ ImportStep(w)
    \/ BadStatus(w)
    \/ TransportError(w)
    \/ QueueLineFails(w)
    \/ CommitLineFails(w)
    \/ Conflict(w)
    \/ IngestFails(w)
    \/ FinishFails(w)
    \/ Crash(w)
    \/ LoseLock(w)

\* The steps that may give a distribution back to the broker.
Redelivers(w) == Crash(w) \/ (LoseLock(w) /\ task[w].task = "distribute")

OtherStep ==
    \/ \E b \in Batch : ImporterStep(b) \/ EnqueueBatchFails(b)
    \/ \E m \in queue : Decide(m)

\* Every step is a worker's or one of the rest of the system.
LEMMA NextIs == Next => OtherStep \/ \E w \in Worker : WorkerStep(w)
  BY Zenon DEF Next, Progress, FaultStep, TaskStep, WorkerStep, OtherStep

\* What a worker's step leaves of its control state when it ends the task.
Released(w) ==
    /\ stage'[w] = "idle" /\ task'[w] = NoTask /\ pending'[w] = NoResult
    /\ out'[w] = NoOutcome /\ pos'[w] = 0 /\ last'[w] = 0

Same(w) ==
    /\ stage'[w] = stage[w] /\ task'[w] = task[w] /\ pending'[w] = pending[w]
    /\ out'[w] = out[w] /\ pos'[w] = pos[w] /\ last'[w] = last[w]

ControlOK ==
    /\ stage \in [Worker -> {"idle"} \cup Streaming \cup Importing]
    /\ task \in [Worker -> DistributeTasks \cup ImportTasks \cup {NoTask}]
    /\ locked \in [Worker -> BOOLEAN]
    /\ pos \in [Worker -> Nat]
    /\ last \in [Worker -> Nat]
    /\ attempt \in [Worker -> Nat]
    /\ pending \in [Worker -> ResultId \cup {NoResult}]
    /\ out \in [Worker -> Outcome]

\* A worker that ends its task is idle, and no other worker moves.
LEMMA ReleaseIs ==
    ASSUME TypeOK, NEW w \in Worker, Release(w)
    PROVE  ControlOK' /\ Released(w) /\ \A v \in Worker \ {w} : Same(v)
  <1>1. ControlOK
    BY Zenon DEF TypeOK, ControlOK
  <1>2. /\ stage' \in [Worker -> {"idle"} \cup Streaming \cup Importing]
        /\ task' \in [Worker -> DistributeTasks \cup ImportTasks \cup {NoTask}]
        /\ locked' \in [Worker -> BOOLEAN]
    BY <1>1, Zenon DEF ControlOK, Release
  <1>3. /\ pos' \in [Worker -> Nat]
        /\ last' \in [Worker -> Nat]
        /\ attempt' \in [Worker -> Nat]
    BY <1>1, Zenon DEF ControlOK, Release
  <1>4. /\ pending' \in [Worker -> ResultId \cup {NoResult}]
        /\ out' \in [Worker -> Outcome]
    BY <1>1, NoOutcomeIs, Zenon DEF ControlOK, Release
  <1>5. Released(w)
    BY <1>1, Zenon DEF ControlOK, Release, Released
  <1>6. \A v \in Worker \ {w} : Same(v)
    BY <1>1, Zenon DEF ControlOK, Release, Same
  <1> QED BY <1>2, <1>3, <1>4, <1>5, <1>6, Zenon DEF ControlOK

\* A fault is counted under its own kind.
LEMMA FaultIs ==
    ASSUME TypeOK, NEW k \in {"call", "crash", "lock", "renewal"}, Fault(k)
    PROVE  /\ faults' \in [call : Nat, crash : Nat, lock : Nat, renewal : Nat]
           /\ DeliveredOnce' => DeliveredOnce /\ k \notin {"crash", "renewal"}
  BY DEF TypeOK, Fault, DeliveredOnce

-----------------------------------------------------------------------------
(* The control of a worker *)

\* A worker that has ended its task holds nothing of it.
LEMMA ReleasedIs ==
    ASSUME NEW w \in Worker, Released(w), NoResult \notin ResultId
    PROVE  StageInv(w)'
  BY Zenon DEF Released, StageInv, Streaming, Importing

\* A worker that does not move keeps its control.
LEMMA SameStage ==
    ASSUME NEW w \in Worker, Same(w), StageInv(w)
    PROVE  StageInv(w)'
  BY Zenon DEF Same, StageInv, File

\* Steps that end the task of a worker.
LEMMA EndOfTask ==
    ASSUME NEW w \in Worker,
           \/ BadStatus(w)
           \/ TransportError(w) /\ ~(attempt[w] < MaxAttempts)
           \/ QueueLineFails(w)
           \/ CommitLineFails(w)
           \/ EndOfFile(w)
           \/ WaitExpires(w)
           \/ SkipProcessed(w)
           \/ Finish(w)
           \/ FinishFails(w)
           \/ Crash(w)
    PROVE  Release(w)
  BY Zenon
  DEF BadStatus, TransportError, QueueLineFails, CommitLineFails, EndOfFile,
         WaitExpires, SkipProcessed, Finish, FinishFails, Crash, Raise

\* A worker takes a task from the broker.
LEMMA TakeControl ==
    ASSUME TypeOK, NEW w \in Worker, NEW m \in queue, StageInv(w),
           StartDistributing(w, m) \/ StartImporting(w, m)
    PROVE  ControlOK' /\ StageInv(w)' /\ \A v \in Worker \ {w} : Same(v)
  <1>1. /\ stage[w] = "idle" /\ UNCHANGED <<pos, last, pending, out>>
        /\ task' = [task EXCEPT ![w] = m]
        /\ locked' = [locked EXCEPT ![w] = TRUE]
    BY Zenon DEF StartDistributing, StartImporting, Take, streamVars
  <1>2. pos[w] = 0 /\ last[w] = 0 /\ pending[w] = NoResult
    BY <1>1, Zenon DEF StageInv, Streaming
  <1>3. CASE StartDistributing(w, m)
    <2>1. m \in DistributeTasks
      BY <1>3, TaskKinds, Zenon DEF StartDistributing, TypeOK
    <2>2. /\ stage' = [stage EXCEPT ![w] = "stream"]
          /\ attempt' = [attempt EXCEPT ![w] = 1]
      BY <1>3, Zenon DEF StartDistributing, Take
    <2>3. ControlOK' /\ \A v \in Worker \ {w} : Same(v)
      BY <1>1, <2>1, <2>2, Zenon DEF TypeOK, ControlOK, Same, Streaming
    <2>4. StageInv(w)'
      BY <1>1, <1>2, <2>1, <2>2, FileIs, TaskKinds
         DEF TypeOK, StageInv, Streaming, Importing, File
    <2> QED BY <2>3, <2>4, Zenon
  <1>4. CASE StartImporting(w, m)
    <2>1. m \in ImportTasks
      BY <1>4, TaskKinds, Zenon DEF StartImporting, TypeOK
    <2>2. /\ stage' = [stage EXCEPT ![w] = "waiting"]
          /\ UNCHANGED attempt
      BY <1>4, Zenon DEF StartImporting, Take, streamVars
    <2>3. ControlOK' /\ \A v \in Worker \ {w} : Same(v)
      BY <1>1, <2>1, <2>2, Zenon DEF TypeOK, ControlOK, Same, Importing
    <2>4. StageInv(w)'
      BY <1>1, <1>2, <2>1, <2>2, Zenon DEF TypeOK, StageInv, Streaming, Importing
    <2> QED BY <2>3, <2>4, Zenon
  <1> QED BY <1>3, <1>4, Zenon

\* A worker goes on streaming a file.
LEMMA StreamControl ==
    ASSUME TypeOK, NEW w \in Worker, StageInv(w),
           \/ TransportError(w) /\ attempt[w] < MaxAttempts
           \/ SkipLine(w)
           \/ QueueLine(w)
           \/ QueueLineTooLarge(w)
           \/ CommitLine(w)
    PROVE  ControlOK' /\ StageInv(w)' /\ \A v \in Worker \ {w} : Same(v)
  <1>1. /\ stage[w] \in Streaming /\ task[w] \in DistributeTasks
        /\ task[w].batch \in Batch
    BY TaskKinds, Zenon DEF TransportError, SkipLine, QueueLine, QueueLineTooLarge,
                     CommitLine, NextToQueue, Streaming, StageInv
  <1>2. /\ Len(File(w)) \in Nat /\ pos[w] \in Nat /\ last[w] \in Nat
        /\ \A l \in 1..Len(File(w)) : File(w)[l] \in EntryType
    BY <1>1, FileIs, Zenon DEF File, TypeOK
  <1>3. UNCHANGED <<task, locked, out>>
    <2>1. ~(attempt[w] < MaxAttempts /\ attempt[w] = MaxAttempts)
      BY ConstantsAssumption DEF TypeOK
    <2> QED BY <2>1, Zenon
            DEF TransportError, SkipLine, QueueLine, QueueLineTooLarge,
                        CommitLine
  <1>4. File(w)' = File(w)
    BY <1>3, Zenon DEF File
  <1>5. CASE TransportError(w) /\ attempt[w] < MaxAttempts
    <2>1. /\ attempt' = [attempt EXCEPT ![w] = @ + 1]
          /\ pos' = [pos EXCEPT ![w] = 0]
          /\ UNCHANGED <<stage, last, pending>> /\ stage[w] = "stream"
      BY <1>5, ConstantsAssumption DEF TransportError, TypeOK
    <2>2. ControlOK' /\ \A v \in Worker \ {w} : Same(v)
      BY <1>3, <2>1 DEF TypeOK, ControlOK, Same
    <2> QED BY <1>2, <1>3, <1>4, <2>1, <2>2 DEF StageInv, Streaming, Importing, TypeOK
  <1>6. CASE SkipLine(w)
    <2>1. /\ pos' = [pos EXCEPT ![w] = @ + 1] /\ pos[w] < Len(File(w))
          /\ \/ pos[w] + 1 <= last[w] /\ UNCHANGED last
             \/ pos[w] + 1 > last[w] /\ last' = [last EXCEPT ![w] = pos[w] + 1]
          /\ UNCHANGED <<stage, attempt, pending>> /\ stage[w] = "stream"
      BY <1>6, Zenon DEF SkipLine
    <2>2. ControlOK' /\ \A v \in Worker \ {w} : Same(v)
      <3>1. PICK n \in Nat : n = pos[w] + 1
        BY <1>2
      <3>2. /\ pos \in [Worker -> Nat] /\ pos' = [pos EXCEPT ![w] = n]
            /\ last \in [Worker -> Nat]
            /\ last' = last \/ last' = [last EXCEPT ![w] = n]
        BY <2>1, <3>1, Zenon DEF TypeOK
      <3>3. /\ pos' \in [Worker -> Nat] /\ last' \in [Worker -> Nat]
            /\ \A v \in Worker \ {w} : pos'[v] = pos[v] /\ last'[v] = last[v]
        BY <3>2, Zenon
      <3> QED BY <1>3, <2>1, <3>3, Zenon DEF TypeOK, ControlOK, Same
    <2> QED BY <1>2, <1>3, <1>4, <2>1, <2>2 DEF StageInv, Streaming, Importing, TypeOK
  <1>7. CASE QueueLine(w)
    <2>1. PICK r \in UnusedResults : pending' = [pending EXCEPT ![w] = r]
      BY <1>7, Zenon DEF QueueLine, NextToQueue
    <2>2. r \in ResultId /\ r # NoResult
      BY <2>1, ConstantsAssumption, Zenon DEF UnusedResults
    <2>3. /\ pos' = [pos EXCEPT ![w] = @ + 1] /\ pos[w] < Len(File(w))
          /\ stage' = [stage EXCEPT ![w] = "sent"]
          /\ UNCHANGED <<last, attempt>> /\ stage[w] = "stream"
          /\ pos[w] + 1 > last[w]
          /\ File(w)[pos[w] + 1].kind \notin {"blank", "huge"}
      BY <1>7, Zenon DEF QueueLine, NextToQueue
    <2>4. ControlOK' /\ \A v \in Worker \ {w} : Same(v)
      BY <1>2, <1>3, <2>1, <2>2, <2>3 DEF TypeOK, ControlOK, Same, Streaming
    <2>5. /\ pos'[w] = pos[w] + 1 /\ stage'[w] = "sent" /\ pending'[w] = r
          /\ last'[w] = last[w] /\ task'[w] = task[w]
      BY <1>3, <2>1, <2>3, Zenon DEF TypeOK
    <2>6. File(w)[pos[w] + 1].kind \in {"invalid", "entry"}
      BY <1>2, <2>3 DEF EntryType
    <2>7. pos[w] <= last[w] /\ last[w] <= Len(File(w))
      BY <2>3, Zenon DEF StageInv, Streaming
    <2> QED BY <1>1, <1>2, <1>4, <2>2, <2>3, <2>4, <2>5, <2>6, <2>7
            DEF StageInv, Streaming, Importing
  <1>8. CASE QueueLineTooLarge(w)
    <2>1. /\ pos' = [pos EXCEPT ![w] = @ + 1] /\ pos[w] < Len(File(w))
          /\ last' = [last EXCEPT ![w] = pos[w] + 1]
          /\ UNCHANGED <<stage, attempt, pending>> /\ stage[w] = "stream"
      BY <1>8, Zenon DEF QueueLineTooLarge, NextToQueue
    <2>2. ControlOK' /\ \A v \in Worker \ {w} : Same(v)
      BY <1>2, <1>3, <2>1 DEF TypeOK, ControlOK, Same
    <2> QED BY <1>2, <1>3, <1>4, <2>1, <2>2 DEF StageInv, Streaming, Importing, TypeOK
  <1>9. CASE CommitLine(w)
    <2>1. /\ last' = [last EXCEPT ![w] = pos[w]]
          /\ pending' = [pending EXCEPT ![w] = NoResult]
          /\ stage' = [stage EXCEPT ![w] = "stream"]
          /\ UNCHANGED <<pos, attempt>> /\ stage[w] = "sent"
      BY <1>9, Zenon DEF CommitLine
    <2>2. ControlOK' /\ \A v \in Worker \ {w} : Same(v)
      BY <1>2, <1>3, <2>1, Zenon DEF TypeOK, ControlOK, Same, Streaming
    <2> QED BY <1>2, <1>3, <1>4, <2>1, <2>2 DEF StageInv, Streaming, Importing, TypeOK
  <1> QED BY <1>5, <1>6, <1>7, <1>8, <1>9, Zenon

\* What Ingest finds.
LEMMA IngestIs ==
    ASSUME TypeOK, NEW w \in Worker, Ingest(w), task[w] \in ImportTasks,
           task[w].line \in 1..Len(Lines[task[w].batch])
    PROVE  \E x \in UnusedRefs, o \in Outcome :
              /\ out' = [out EXCEPT ![w] = o]
              /\ o.ref = x
              /\ o.content # NoContent
              /\ IsSuperset(o.content, Kept(Entry(w), Entry(w).extras))
              /\ ~o.errors => IsSuperset(o.content, Content(Entry(w)))
              /\ \/ o.kind = "new"
                 \/ /\ o.kind = "exact" /\ o.canon \in RefId
                    /\ IsStored(o.canon)
                    /\ IsSuperset(stored[o.canon], o.content)
  <1> DEFINE e == Entry(w)
             x == CHOOSE y \in UnusedRefs : TRUE
             made(kind, y, D) ==
                [kind |-> kind, ref |-> x, canon |-> y,
                 content |-> Kept(e, D), errors |-> e.flawed \/ D # {}]
  <1>1. e \in EntryType
    BY TaskKinds, FileIs, Zenon DEF Entry
  <1>2. x \in UnusedRefs /\ x \in RefId
    BY Zenon DEF Ingest, UnusedRefs
  <1>3. PICK D \in SUBSET (e.extras \cap e.fragile) :
           IF ExactDuplicates(Kept(e, D)) = {}
           THEN out' = [out EXCEPT ![w] = made("new", NoRef, D)]
           ELSE \E y \in ExactDuplicates(Kept(e, D)) :
                   out' = [out EXCEPT ![w] = made("exact", y, D)]
    BY Zenon DEF Ingest
  <1> DEFINE c == Kept(e, D)
             f == e.flawed \/ D # {}
  <1>4. /\ c \in ContentType
        /\ c # NoContent
        /\ IsSuperset(c, Kept(e, e.extras))
        /\ D = {} => IsSuperset(c, Content(e))
    BY <1>1, EntryIs, Zenon
  <1>5. f \in BOOLEAN /\ (~f => D = {})
    BY Zenon DEF EntryType
  <1> HIDE DEF x, c, f, e
  <1>6. CASE ExactDuplicates(c) = {}
    <2> DEFINE o == [kind |-> "new", ref |-> x, canon |-> NoRef,
                     content |-> c, errors |-> f]
    <2>1. out' = [out EXCEPT ![w] = o]
      BY <1>3, <1>6, Zenon DEF c, f
    <2>2. /\ o \in Outcome /\ o.ref = x /\ o.content = c /\ o.kind = "new"
          /\ ~o.errors => D = {}
      BY <1>2, <1>4, <1>5, Zenon DEF Outcome
    <2> HIDE DEF o
    <2> QED BY <1>2, <1>4, <2>1, <2>2, Zenon DEF e
  <1>7. CASE ExactDuplicates(c) # {}
    <2>1. PICK y \in ExactDuplicates(c) :
             out' = [out EXCEPT ![w] = made("exact", y, D)]
      BY <1>3, <1>7, Zenon DEF c
    <2> DEFINE o == [kind |-> "exact", ref |-> x, canon |-> y,
                     content |-> c, errors |-> f]
    <2>2. o = made("exact", y, D)
      BY Zenon DEF c, f
    <2>3. y \in RefId /\ IsStored(y) /\ IsSuperset(stored[y], c)
      BY <2>1, Zenon DEF ExactDuplicates
    <2>4. /\ o \in Outcome /\ o.ref = x /\ o.content = c /\ o.kind = "exact"
          /\ o.canon = y
          /\ ~o.errors => D = {}
      BY <1>2, <1>4, <1>5, <2>3, Zenon DEF Outcome
    <2>5. out' = [out EXCEPT ![w] = o]
      BY <2>1, <2>2, Zenon
    <2> HIDE DEF o, made
    <2> QED BY <1>2, <1>4, <2>3, <2>4, <2>5, Zenon DEF e
  <1> QED BY <1>6, <1>7, Zenon

\* A worker goes on with an import task.
LEMMA ImportControl ==
    ASSUME TypeOK, NEW w \in Worker, StageInv(w), \A m \in Message : MessageInv(m),
           \/ LoadResult(w)
           \/ MarkStarted(w)
           \/ Reject(w)
           \/ Ingest(w)
           \/ CommitIngest(w)
           \/ NoteOutcome(w)
           \/ Conflict(w)
           \/ IngestFails(w)
    PROVE  /\ ControlOK' /\ StageInv(w)' /\ \A v \in Worker \ {w} : Same(v)
           /\ UNCHANGED <<task, pos, last, pending>>
           /\ task[w] \in ImportTasks
           /\ task[w].line \in 1..Len(Lines[task[w].batch])
  <1>1. task[w] \in ImportTasks
    <2>1. stage[w] \in Importing
      BY Zenon
      DEF LoadResult, MarkStarted, Reject, Ingest, CommitIngest, NoteOutcome,
             Conflict, IngestFails, Importing
    <2> QED BY <2>1, Zenon DEF StageInv
  <1>2. task[w].line \in 1..Len(Lines[task[w].batch])
    BY <1>1, TaskKinds DEF Message, MessageInv
  <1>3. UNCHANGED <<task, pos, last, attempt, pending>>
    BY Zenon DEF LoadResult, MarkStarted, Reject, Ingest, CommitIngest, NoteOutcome,
           Conflict, IngestFails, streamVars
  <1>4. locked' \in [Worker -> BOOLEAN]
    BY Zenon DEF LoadResult, MarkStarted, Reject, Ingest, CommitIngest, NoteOutcome,
           Conflict, IngestFails, TypeOK
  <1>5. stage[w] \in Importing
    <2>1. task[w] # NoTask /\ task[w] \notin DistributeTasks
      BY <1>1, TaskKinds, Zenon
    <2> QED BY <2>1, Zenon DEF StageInv, TypeOK, Streaming
  <1>6. \E s \in Importing : stage' = [stage EXCEPT ![w] = s]
    BY Zenon DEF LoadResult, MarkStarted, Reject, Ingest, CommitIngest,
                 NoteOutcome, Conflict, IngestFails, Importing
  <1>7. \E o \in Outcome : out' = [out EXCEPT ![w] = o]
    <2>1. CASE Ingest(w)
      BY <1>1, <1>2, <2>1, IngestIs, Zenon
    <2>2. CASE Reject(w) \/ Conflict(w) \/ IngestFails(w)
      BY <2>2, NoOutcomeIs, Zenon DEF Reject, Conflict, IngestFails
    <2>3. CASE UNCHANGED out
      BY <2>3 DEF TypeOK
    <2> QED BY <2>1, <2>2, <2>3, Zenon DEF LoadResult, MarkStarted, CommitIngest,
                                    NoteOutcome
  <1>8. PICK s \in Importing : stage' = [stage EXCEPT ![w] = s]
    BY <1>6, Zenon
  <1>9. PICK o \in Outcome : out' = [out EXCEPT ![w] = o]
    BY <1>7, Zenon
  <1>10. ControlOK' /\ \A v \in Worker \ {w} : Same(v)
    BY <1>3, <1>4, <1>8, <1>9, Zenon DEF TypeOK, ControlOK, Same
  <1>11. StageInv(w)'
    <2>1. stage'[w] \in Importing /\ stage'[w] # "sent" /\ stage'[w] # "idle"
          /\ stage'[w] \notin Streaming /\ stage'[w] # "stream"
          /\ stage[w] \notin Streaming /\ stage[w] # "sent"
      BY <1>5, <1>8, Zenon DEF Importing, Streaming, TypeOK
    <2> QED BY <1>1, <1>3, <2>1, Zenon DEF StageInv
  <1> QED BY <1>1, <1>2, <1>3, <1>10, <1>11, Zenon

\* A worker that loses its lock goes on where it is; the task is on the broker
\* again.
LEMMA LockControl ==
    ASSUME TypeOK, NEW w \in Worker, StageInv(w), LoseLock(w)
    PROVE  /\ ControlOK' /\ StageInv(w)' /\ \A v \in Worker : Same(v)
           /\ UNCHANGED <<stage, task, pos, last, attempt, pending, out>>
           /\ queue' = queue \cup {task[w]}
           /\ task[w] \in DistributeTasks \cup ImportTasks
  <1>1. /\ UNCHANGED <<stage, task, pos, last, attempt, pending, out>>
        /\ queue' = queue \cup {task[w]}
        /\ locked' = [locked EXCEPT ![w] = FALSE]
        /\ stage[w] # "idle"
    BY Zenon DEF LoseLock, streamVars
  <1>2. ControlOK' /\ \A v \in Worker : Same(v)
    BY <1>1, Zenon DEF TypeOK, ControlOK, Same
  <1>3. StageInv(w)'
    BY <1>2, SameStage, Zenon
  <1>4. task[w] \in DistributeTasks \cup ImportTasks
    BY <1>1, Zenon DEF TypeOK, StageInv
  <1> QED BY <1>1, <1>2, <1>3, <1>4, Zenon

\* A worker's step keeps its own control and moves no other worker.
LEMMA WorkerControl ==
    ASSUME ImportInv, NEW w \in Worker, WorkerStep(w)
    PROVE  ControlOK' /\ StageInv(w)' /\ \A v \in Worker \ {w} : Same(v)
  <1>1. TypeOK /\ StageInv(w) /\ \A m \in Message : MessageInv(m)
    BY Zenon DEF ImportInv
  <1>2. CASE Release(w)
    BY <1>1, <1>2, ReleaseIs, ReleasedIs, ConstantsAssumption, Zenon
  <1>3. ~Release(w) /\ TransportError(w) => attempt[w] < MaxAttempts
    BY EndOfTask, Zenon
  <1> QED BY <1>1, <1>2, <1>3, EndOfTask, TakeControl, StreamControl,
             ImportControl, LockControl, Zenon
          DEF WorkerStep, StreamStep, ImportStep

\* The rest of the system moves no worker and writes no result.
LEMMA OtherControl ==
    ASSUME OtherStep
    PROVE  /\ UNCHANGED <<results, stored, stage, task, locked, pos, last,
                          attempt, pending, out, distributed>>
           /\ \A w \in Worker : Same(w)
  BY Zenon
  DEF OtherStep, ImporterStep, CreateRecord, EnqueueBatch, FinaliseRecord, Poll,
         EnqueueBatchFails, Decide, sqlVars, streamVars, noteVars, Same

-----------------------------------------------------------------------------
(* The tables and the broker *)

\* The tables a step leaves alone.
LEMMA TablesKept ==
    ASSUME TypeOK, NEW w \in Worker, WorkerStep(w)
    PROVE  /\ \/ QueueLineTooLarge(w) \/ CommitLine(w) \/ MarkStarted(w)
              \/ NoteOutcome(w) \/ UNCHANGED results
           /\ CommitIngest(w) \/ UNCHANGED <<stored, decision>>
           /\ EndOfFile(w) \/ UNCHANGED distributed
           /\ UNCHANGED importer
  <1> USE DEF sqlVars, noteVars, httpVars
  <1>1. CASE \E m \in queue : StartDistributing(w, m) \/ StartImporting(w, m)
    BY <1>1, Zenon DEF StartDistributing, StartImporting
  <1>2. CASE StreamStep(w)
    BY <1>2, Zenon
    DEF StreamStep, SkipLine, QueueLine, QueueLineTooLarge, CommitLine,
                EndOfFile
  <1>3. CASE ImportStep(w)
    BY <1>3, Zenon DEF ImportStep, WaitExpires, Raise, LoadResult, SkipProcessed,
                MarkStarted, Reject, Ingest, CommitIngest, NoteOutcome, Finish
  <1>4. CASE BadStatus(w) \/ TransportError(w) \/ QueueLineFails(w)
             \/ CommitLineFails(w) \/ FinishFails(w)
    BY <1>4, Zenon DEF BadStatus, TransportError, QueueLineFails, CommitLineFails,
                FinishFails, Raise
  <1>5. CASE Conflict(w) \/ IngestFails(w) \/ Crash(w) \/ LoseLock(w)
    BY <1>5, Zenon DEF Conflict, IngestFails, Crash, LoseLock
  <1> QED BY <1>1, <1>2, <1>3, <1>4, <1>5, Zenon DEF WorkerStep

\* What NoteOutcome writes.
LEMMA NotedIs ==
    ASSUME TypeOK, NEW w \in Worker, StageInv(w), LoadedInv(w), NoteOutcome(w)
    PROVE  LET r == task[w].result
           IN  /\ r \in ResultId /\ results[r].status # "ABSENT"
               /\ results' \in [ResultId -> Result]
               /\ results'[r].status = StatusOf(out[w])
               /\ results'[r].status # "ABSENT"
               /\ results'[r].batch = results[r].batch
               /\ results'[r].line = results[r].line
               /\ out[w].kind \in {"new", "exact"} => results'[r].ref = out[w].ref
               /\ \A s \in ResultId \ {r} : results'[s] = results[s]
  <1> DEFINE r == task[w].result
             o == out[w]
  <1>1. r \in ResultId /\ results[r].status # "ABSENT"
    BY TaskKinds, Zenon DEF NoteOutcome, StageInv, LoadedInv, Importing
  <1>2. results \in [ResultId -> Result] /\ o \in Outcome
    BY Zenon DEF TypeOK
  <1>3. results' = [results EXCEPT
                       ![r].status = StatusOf(o),
                       ![r].ref = IF o.kind \in {"new", "exact"} THEN o.ref ELSE @]
    BY Zenon DEF NoteOutcome
  <1>4. StatusOf(o) \in Status \ {"ABSENT"}
    BY Zenon DEF StatusOf, Status, Processed
  <1>5. o.ref \in RefId \cup {NoRef}
    BY <1>2, Zenon DEF Outcome
  <1> HIDE DEF r, o
  <1>6. results' \in [ResultId -> Result]
    BY <1>1, <1>2, <1>3, <1>4, <1>5, Zenon DEF Result
  <1>7. /\ results'[r].status = StatusOf(o)
        /\ results'[r].batch = results[r].batch
        /\ results'[r].line = results[r].line
        /\ o.kind \in {"new", "exact"} => results'[r].ref = o.ref
        /\ \A s \in ResultId \ {r} : results'[s] = results[s]
    BY <1>1, <1>2, <1>3, Zenon DEF Result
  <1> QED BY <1>1, <1>4, <1>6, <1>7, Zenon DEF r, o

\* A row that is there keeps its batch and its line; one that appears is the
\* next line of its worker, and nobody else's.
LEMMA ResultsGrow ==
    ASSUME ImportInv, NEW w \in Worker, WorkerStep(w)
    PROVE  /\ results' \in [ResultId -> Result]
           /\ \A r \in ResultId :
                /\ results[r].status # "ABSENT" =>
                      /\ results'[r].status # "ABSENT"
                      /\ results'[r].batch = results[r].batch
                      /\ results'[r].line = results[r].line
                /\ results[r].status = "ABSENT" /\ results'[r].status # "ABSENT" =>
                      /\ stage[w] \in Streaming
                      /\ last'[w] = last[w] + 1 /\ last'[w] = pos'[w]
                      /\ task'[w] = task[w]
                      /\ results'[r].batch = task[w].batch
                      /\ results'[r].line = last'[w]
                      /\ results'[r].status \in {"CREATED", "FAILED"}
                      /\ \/ stage[w] = "sent" /\ r = pending[w] /\ pos[w] = last'[w]
                         \/ r \in UnusedResults
           /\ QueueLineTooLarge(w) \/ CommitLine(w) =>
                \E r \in ResultId : /\ results'[r].status # "ABSENT"
                                    /\ results'[r].batch = task[w].batch
                                    /\ results'[r].line = last'[w]
  <1>1. TypeOK /\ StageInv(w) /\ LoadedInv(w) /\ PendingInv(w)
    BY Zenon DEF ImportInv
  <1>2. results \in [ResultId -> Result]
    BY <1>1, Zenon DEF TypeOK
  <1>3. CASE UNCHANGED results /\ ~QueueLineTooLarge(w) /\ ~CommitLine(w)
    BY <1>2, <1>3, Zenon
  <1>4. CASE QueueLineTooLarge(w)
    <2>1. PICK r \in UnusedResults :
             results' = [results EXCEPT ![r] = NewResult(w, pos[w] + 1, "FAILED")]
      BY <1>4, Zenon DEF QueueLineTooLarge, NextToQueue
    <2> DEFINE new == NewResult(w, pos[w] + 1, "FAILED")
    <2>2. r \in ResultId /\ results[r].status = "ABSENT"
      BY <2>1, Zenon DEF UnusedResults
    <2>3. stage[w] \in Streaming /\ task[w] \in DistributeTasks /\ task[w].batch \in Batch
      BY <1>1, <1>4, TaskKinds, Zenon
      DEF QueueLineTooLarge, NextToQueue, Streaming, StageInv
    <2>4. /\ last'[w] = pos[w] + 1 /\ pos'[w] = pos[w] + 1 /\ pos[w] = last[w]
          /\ pos[w] \in Nat /\ task'[w] = task[w]
      BY <1>1, <1>4 DEF TypeOK, QueueLineTooLarge, NextToQueue, StageInv
    <2>5. /\ new \in Result /\ new.status = "FAILED" /\ new.batch = task[w].batch
          /\ new.line = last'[w]
      BY <2>3, <2>4 DEF NewResult, Result, Status, Processed
    <2> HIDE DEF new
    <2>6. /\ results' \in [ResultId -> Result] /\ results'[r] = new
          /\ \A s \in ResultId \ {r} : results'[s] = results[s]
      BY <1>2, <2>1, <2>2, <2>5, Zenon DEF new
    <2> QED BY <2>1, <2>2, <2>3, <2>4, <2>5, <2>6, Zenon
  <1>5. CASE CommitLine(w)
    <2> DEFINE new == NewResult(w, pos[w], "CREATED")
               r == pending[w]
    <2>1. results' = [results EXCEPT ![r] = new]
      BY <1>5, Zenon DEF CommitLine
    <2>2. /\ stage[w] \in Streaming /\ stage[w] = "sent" /\ task[w] \in DistributeTasks
          /\ task[w].batch \in Batch
      BY <1>1, <1>5, TaskKinds, Zenon DEF CommitLine, Streaming, StageInv
    <2>3. r \in ResultId /\ results[r].status = "ABSENT"
      BY <1>1, <2>2, Zenon DEF TypeOK, StageInv, PendingInv
    <2>4. /\ last'[w] = pos[w] /\ pos'[w] = pos[w] /\ pos[w] = last[w] + 1
          /\ pos[w] \in Nat /\ task'[w] = task[w]
      BY <1>1, <1>5, <2>2, Zenon DEF TypeOK, CommitLine, StageInv
    <2>5. /\ new \in Result /\ new.status = "CREATED" /\ new.batch = task[w].batch
          /\ new.line = last'[w]
      BY <2>2, <2>4, Zenon DEF NewResult, Result, Status, Processed
    <2> HIDE DEF new
    <2>6. /\ results' \in [ResultId -> Result] /\ results'[r] = new
          /\ \A s \in ResultId \ {r} : results'[s] = results[s]
      BY <1>2, <2>1, <2>3, <2>5, Zenon
    <2> QED BY <2>1, <2>2, <2>3, <2>4, <2>5, <2>6, Zenon
  <1>6. CASE MarkStarted(w) /\ ~QueueLineTooLarge(w) /\ ~CommitLine(w)
    <2>1. task[w].result \in ResultId /\ results[task[w].result].status # "ABSENT"
      BY <1>1, <1>6, TaskKinds, Zenon
      DEF MarkStarted, StageInv, LoadedInv, Importing
    <2>2. results' = [results EXCEPT ![task[w].result] =
                         [results[task[w].result] EXCEPT !.status = "STARTED"]]
      BY <1>2, <1>6, <2>1, Zenon DEF MarkStarted
    <2> DEFINE r == task[w].result
               new == [results[r] EXCEPT !.status = "STARTED"]
    <2>3. /\ new \in Result /\ new.status = "STARTED"
          /\ new.batch = results[r].batch /\ new.line = results[r].line
      BY <1>2, <2>1, Zenon DEF Result, Status
    <2> HIDE DEF new
    <2>4. /\ results' \in [ResultId -> Result] /\ results'[r] = new
          /\ \A s \in ResultId \ {r} : results'[s] = results[s]
      BY <1>2, <2>1, <2>2, <2>3, Zenon DEF new
    <2> QED BY <1>6, <2>1, <2>3, <2>4, Zenon
  <1>7. CASE NoteOutcome(w) /\ ~QueueLineTooLarge(w) /\ ~CommitLine(w)
    BY <1>1, <1>7, NotedIs, Zenon
  <1> QED BY <1>1, <1>3, <1>4, <1>5, <1>6, <1>7, TablesKept, Zenon

\* What is on the broker, and with the workers, after a step.
LEMMA MessagesFrom ==
    ASSUME ImportInv, NEW w \in Worker, WorkerStep(w)
    PROVE  /\ queue' \subseteq DistributeTasks \cup ImportTasks \cup DecideTasks
           /\ \A m \in queue' :
                \/ m \in queue
                \/ m = task[w] /\ m.task = "import"
                \/ Redelivers(w) /\ m = task[w]
                \/ /\ m \in ImportTasks /\ task[w].task = "import"
                   /\ m.result = task[w].result
                   /\ m.batch = task[w].batch /\ m.line = task[w].line
                \/ /\ m \in DecideTasks /\ stage[w] = "noted" /\ out[w].kind = "new"
                   /\ m.ref = out[w].ref
                \/ /\ QueueLine(w) /\ m \in ImportTasks
                   /\ m.result = pending'[w] /\ m.result \in UnusedResults
                   /\ m.batch = task[w].batch /\ m.line = pos'[w]
           /\ task'[w] \in queue \cup {task[w], NoTask}
  <1>1. TypeOK /\ StageInv(w) /\ OutcomeInv(w)
    BY Zenon DEF ImportInv
  <1>2. CASE \E m \in queue : StartDistributing(w, m) \/ StartImporting(w, m)
    BY <1>1, <1>2, Zenon DEF StartDistributing, StartImporting, Take, TypeOK
  <1>3. CASE QueueLine(w)
    <2>1. PICK r \in UnusedResults :
             /\ pending' = [pending EXCEPT ![w] = r]
             /\ queue' = queue \cup {ImportTask(r, task[w].batch, pos[w] + 1,
                                                MaxRetries)}
      BY <1>3, Zenon DEF QueueLine, NextToQueue
    <2>2. /\ r \in ResultId /\ task[w].batch \in Batch /\ pos[w] + 1 \in Nat
          /\ pos'[w] = pos[w] + 1 /\ task' = task /\ pending'[w] = r
      BY <1>1, <1>3, <2>1, TaskKinds
         DEF UnusedResults, StageInv, Streaming, TypeOK, QueueLine, NextToQueue
    <2> DEFINE m == ImportTask(r, task[w].batch, pos[w] + 1, MaxRetries)
    <2>3. /\ m \in ImportTasks /\ m.result = r
          /\ m.batch = task[w].batch /\ m.line = pos[w] + 1
      BY <2>2, TaskKinds, ConstantsAssumption
    <2> HIDE DEF m
    <2>4. queue' = queue \cup {m}
      BY <2>1, Zenon DEF m
    <2> QED BY <1>1, <1>3, <2>1, <2>2, <2>3, <2>4, Zenon DEF TypeOK
  <1>4. CASE Finish(w)
    <2>1. /\ queue' = queue \cup FollowUp(w) /\ task'[w] = NoTask /\ stage[w] = "noted"
      BY <1>1, <1>4, ReleaseIs, Zenon DEF Finish, Released
    <2>2. task[w] \in ImportTasks /\ task[w].task = "import"
      BY <1>1, <2>1, TaskKinds, Zenon DEF StageInv, Importing
    <2>3. ASSUME NEW m \in FollowUp(w)
          PROVE  \/ /\ m \in ImportTasks
                    /\ m.result = task[w].result
                    /\ m.batch = task[w].batch /\ m.line = task[w].line
                 \/ /\ m \in DecideTasks /\ out[w].kind = "new"
                    /\ m.ref = out[w].ref
      <3>1. CASE out[w].kind = "conflict"
        <4>1. task[w].retries - 1 \in Nat /\ m = ImportTask(task[w].result,
                 task[w].batch, task[w].line, task[w].retries - 1)
          BY <2>2, <2>3, <3>1, TaskKinds DEF FollowUp
        <4> QED BY <2>2, <4>1, TaskKinds
      <3>2. CASE out[w].kind = "new"
        <4>1. m = DecideTask(out[w].ref)
          BY <2>3, <3>2, Zenon DEF FollowUp
        <4>2. out[w].ref \in RefId
          BY <1>1, <2>1, <3>2, Zenon DEF OutcomeInv, Holds
        <4> QED BY <3>2, <4>1, <4>2, TaskKinds, Zenon DEF DecideTask
      <3> QED BY <2>3, <3>1, <3>2, Zenon DEF FollowUp
    <2> QED BY <1>1, <2>1, <2>2, <2>3, Zenon DEF TypeOK
  <1>5. CASE Crash(w)
    <2>1. task'[w] = NoTask
      BY <1>1, <1>5, EndOfTask, ReleaseIs, Zenon DEF Released
    <2>2. task[w] \in DistributeTasks \cup ImportTasks
      BY <1>1, <1>5, Zenon DEF Crash, StageInv, TypeOK
    <2>3. Redelivers(w)
      BY <1>5, Zenon DEF Redelivers
    <2> QED BY <1>1, <1>5, <2>1, <2>2, <2>3, Zenon DEF Crash, TypeOK
  <1>6. CASE LoseLock(w)
    <2>1. /\ task' = task /\ queue' = queue \cup {task[w]}
          /\ task[w] \in DistributeTasks \cup ImportTasks
      BY <1>1, <1>6, LockControl, Zenon
    <2>2. task[w].task = "import" \/ Redelivers(w)
      BY <1>6, <2>1, TaskKinds, Zenon DEF Redelivers
    <2> QED BY <1>1, <2>1, <2>2, Zenon DEF TypeOK
  <1>7. CASE UNCHANGED queue /\ (Release(w) \/ UNCHANGED task)
    BY <1>1, <1>7, ReleaseIs, Zenon DEF Released, TypeOK
  <1>8. CASE SkipLine(w) \/ QueueLineTooLarge(w) \/ CommitLine(w) \/ EndOfFile(w)
    BY <1>7, <1>8, Zenon DEF SkipLine, QueueLineTooLarge, CommitLine, EndOfFile
  <1>9. CASE ImportStep(w) /\ ~Finish(w)
    BY <1>7, <1>9, Zenon
    DEF ImportStep, WaitExpires, Raise, LoadResult, SkipProcessed,
                MarkStarted, Reject, Ingest, CommitIngest, NoteOutcome
  <1>10. CASE BadStatus(w) \/ TransportError(w) \/ QueueLineFails(w)
             \/ CommitLineFails(w) \/ FinishFails(w)
    BY <1>7, <1>10, Zenon
    DEF BadStatus, TransportError, QueueLineFails, CommitLineFails,
                FinishFails, Raise
  <1>11. CASE Conflict(w) \/ IngestFails(w)
    BY <1>7, <1>11, Zenon DEF Conflict, IngestFails
  <1> QED BY <1>2, <1>3, <1>4, <1>5, <1>6, <1>8, <1>9, <1>10, <1>11, Zenon
          DEF WorkerStep, StreamStep

\* Faults are only counted up, and a distribution that is given back is one.
LEMMA FaultsStep ==
    ASSUME TypeOK, NEW w \in Worker, WorkerStep(w)
    PROVE  /\ faults' \in [call : Nat, crash : Nat, lock : Nat, renewal : Nat]
           /\ DeliveredOnce' => DeliveredOnce /\ ~Redelivers(w)
  <1>1. CASE Crash(w)
    BY <1>1, FaultIs, Zenon DEF Crash
  <1>2. CASE LoseLock(w) /\ task[w].task = "distribute"
    BY <1>2, FaultIs, Zenon DEF LoseLock
  <1>3. CASE UNCHANGED faults /\ ~Redelivers(w)
    BY <1>3, Zenon DEF TypeOK, DeliveredOnce
  <1>4. CASE (\E k \in {"call", "lock"} : Fault(k)) /\ ~Redelivers(w)
    BY <1>4, FaultIs, Zenon
  <1>5. CASE (\E m \in queue : StartDistributing(w, m) \/ StartImporting(w, m))
             /\ ~Redelivers(w)
    BY <1>3, <1>5, Zenon DEF StartDistributing, StartImporting
  <1>6. CASE StreamStep(w) /\ ~Redelivers(w)
    BY <1>3, <1>6, Zenon
    DEF StreamStep, SkipLine, QueueLine, QueueLineTooLarge, CommitLine,
                EndOfFile
  <1>7. CASE (ImportStep(w) \/ Conflict(w)) /\ ~Redelivers(w)
    BY <1>3, <1>4, <1>7, Zenon
    DEF ImportStep, WaitExpires, LoadResult, SkipProcessed, Conflict,
                MarkStarted, Reject, Ingest, CommitIngest, NoteOutcome, Finish
  <1>8. CASE (BadStatus(w) \/ TransportError(w) \/ QueueLineFails(w)
              \/ CommitLineFails(w) \/ FinishFails(w)) /\ ~Redelivers(w)
    BY <1>3, <1>4, <1>8, Zenon DEF BadStatus, TransportError, QueueLineFails,
                CommitLineFails, FinishFails
  <1>9. CASE (IngestFails(w) \/ LoseLock(w)) /\ ~Redelivers(w)
    BY <1>4, <1>9, Zenon DEF IngestFails, LoseLock, Redelivers
  <1> QED BY <1>1, <1>2, <1>5, <1>6, <1>7, <1>8, <1>9, Zenon
          DEF WorkerStep, Redelivers

\* The reference that is written, and its decision.
LEMMA CommitIs ==
    ASSUME ImportInv, NEW w \in Worker, CommitIngest(w)
    PROVE  LET x == out[w].ref
           IN  /\ x \in RefId /\ ~IsStored(x) /\ decision[x] = NoDecision
               /\ stored' \in [RefId -> ContentType]
               /\ decision' \in [RefId -> Determined]
               /\ \A y \in RefId \ {x} : stored'[y] = stored[y] /\ decision'[y] = decision[y]
               /\ \/ /\ out[w].kind = "exact" /\ stored' = stored
                     /\ decision'[x].canon = out[w].canon
                  \/ out[w].kind = "new" /\ stored'[x] = out[w].content
  <1> DEFINE x == out[w].ref
             o == out[w]
  <1>1. TypeOK /\ OutcomeInv(w) /\ stage[w] = "writing"
    BY Zenon DEF ImportInv, CommitIngest
  <1>2. /\ x \in RefId /\ ~IsStored(x) /\ decision[x] = NoDecision
        /\ o.kind \in {"new", "exact"} /\ o \in Outcome
    BY <1>1, Zenon DEF OutcomeInv, TypeOK
  <1>3. stored \in [RefId -> ContentType] /\ decision \in [RefId -> Determined]
    BY <1>1, Zenon DEF TypeOK
  <1>4. o.content \in ContentType /\ o.canon \in RefId \cup {NoRef}
    BY <1>2, Zenon DEF Outcome
  <1> DEFINE exact == [det |-> "EXACT_DUPLICATE", canon |-> o.canon]
             fresh == [det |-> "PENDING", canon |-> NoRef]
  <1>5. exact \in Determined /\ exact.canon = o.canon /\ fresh \in Determined
    BY <1>4, Zenon DEF Determined
  <1>6. CASE o.kind = "exact"
    <2>1. decision' = [decision EXCEPT ![x] = exact] /\ stored' = stored
      BY <1>6, Zenon DEF CommitIngest
    <2> HIDE DEF exact, x, o
    <2> QED BY <1>2, <1>3, <1>5, <1>6, <2>1, Zenon DEF x, o
  <1>7. CASE o.kind = "new"
    <2>1. /\ decision' = [decision EXCEPT ![x] = fresh]
          /\ stored' = [stored EXCEPT ![x] = o.content]
      BY <1>7, Zenon DEF CommitIngest
    <2> HIDE DEF fresh, x, o
    <2> QED BY <1>2, <1>3, <1>4, <1>5, <1>7, <2>1, Zenon DEF x, o
  <1> QED BY <1>2, <1>6, <1>7, Zenon

\* The other steps queue a distribution or end a decision.
LEMMA OtherIs ==
    ASSUME TypeOK, OtherStep
    PROVE  /\ TypeOK'
           /\ \A m \in queue' : m \in queue \/ m \in DistributeTasks
           /\ \A x \in RefId : /\ decision'[x].canon = decision[x].canon
                               /\ DecideTask(x) \notin queue => decision'[x] = decision[x]
           /\ DeliveredOnce' => DeliveredOnce
           /\ \A b \in Batch : DistributeTask(b) \in queue' =>
                \/ DistributeTask(b) \in queue
                \/ importer[b] = "recorded"
           /\ \A b \in Batch : importer'[b] \in {"new", "recorded"} =>
                 /\ importer[b] \in {"new", "recorded"}
                 /\ DistributeTask(b) \in queue' => DistributeTask(b) \in queue
  <1>1. UNCHANGED <<results, stored, stage, task, locked, pos, last,
                    attempt, pending, out, distributed>>
    BY OtherControl, Zenon
  <1>2. CASE \E m \in queue : Decide(m)
    <2>1. PICK m \in queue : Decide(m)
      BY <1>2, Zenon
    <2>2. m \in DecideTasks /\ m.ref \in RefId /\ m = DecideTask(m.ref)
      BY <2>1, TaskKinds, Zenon DEF TypeOK, Decide, DecideTasks, DecideTask
    <2>3. /\ queue' = queue \ {m} /\ UNCHANGED <<importer, faults>>
          /\ decision' = [decision EXCEPT ![m.ref].det = "DECIDED"]
      BY <2>1, Zenon DEF Decide, httpVars
    <2>4. decision \in [RefId -> Determined]
      BY Zenon DEF TypeOK
    <2>5. decision' \in [RefId -> Determined]
      BY <2>2, <2>3, <2>4, Zenon DEF Determined
    <2>6. \A x \in RefId : /\ decision'[x].canon = decision[x].canon
                           /\ x # m.ref => decision'[x] = decision[x]
      BY <2>2, <2>3, <2>4, Zenon DEF Determined
    <2>7. TypeOK'
      BY <1>1, <2>3, <2>5, Zenon DEF TypeOK
    <2> QED BY <2>2, <2>3, <2>6, <2>7, Zenon DEF DeliveredOnce
  <1>3. ASSUME NEW b \in Batch, ImporterStep(b) \/ EnqueueBatchFails(b)
        PROVE  /\ UNCHANGED decision
               /\ \/ queue' = queue
                  \/ queue' = queue \cup {DistributeTask(b)} /\ importer[b] = "recorded"
                     /\ importer'[b] = "registered"
               /\ importer' \in [Batch -> {"new", "recorded", "registered", "failed",
                                           "polling", "complete", "timed_out"}]
               /\ \A c \in Batch : importer'[c] \in {"new", "recorded"} =>
                     importer[c] \in {"new", "recorded"}
               /\ faults' \in [call : Nat, crash : Nat, lock : Nat, renewal : Nat]
               /\ DeliveredOnce' => DeliveredOnce
    <2>1. /\ UNCHANGED decision
          /\ \/ queue' = queue
             \/ queue' = queue \cup {DistributeTask(b)} /\ EnqueueBatch(b)
      BY <1>3, Zenon
      DEF ImporterStep, CreateRecord, EnqueueBatch, FinaliseRecord, Poll,
                  EnqueueBatchFails, sqlVars
    <2>2. /\ faults' \in [call : Nat, crash : Nat, lock : Nat, renewal : Nat]
          /\ DeliveredOnce' => DeliveredOnce
      <3>1. UNCHANGED faults \/ Fault("call")
        BY <1>3, Zenon
        DEF ImporterStep, CreateRecord, EnqueueBatch, FinaliseRecord, Poll,
                    EnqueueBatchFails
      <3> QED BY <3>1, FaultIs, Zenon DEF TypeOK, DeliveredOnce
    <2>3. /\ importer' \in [Batch -> {"new", "recorded", "registered", "failed",
                                      "polling", "complete", "timed_out"}]
          /\ \A c \in Batch : importer'[c] \in {"new", "recorded"} =>
                importer[c] \in {"new", "recorded"}
      BY <1>3, Zenon
      DEF ImporterStep, CreateRecord, EnqueueBatch, FinaliseRecord, Poll,
                  EnqueueBatchFails, TypeOK
    <2>4. EnqueueBatch(b) => importer[b] = "recorded" /\ importer'[b] = "registered"
      BY Zenon DEF EnqueueBatch, TypeOK
    <2> QED BY <2>1, <2>2, <2>3, <2>4, Zenon
  <1>4. CASE \E b \in Batch : ImporterStep(b) \/ EnqueueBatchFails(b)
    <2>1. PICK b \in Batch : ImporterStep(b) \/ EnqueueBatchFails(b)
      BY <1>4, Zenon
    <2>2. \A c \in Batch : DistributeTask(c) = DistributeTask(b) => c = b
      BY Zenon DEF DistributeTask
    <2>3. TypeOK'
      <3>1. queue' \subseteq DistributeTasks \cup ImportTasks \cup DecideTasks
        <4>1. queue \subseteq DistributeTasks \cup ImportTasks \cup DecideTasks
          BY Zenon DEF TypeOK
        <4>2. DistributeTask(b) \in DistributeTasks
          BY TaskKinds, Zenon
        <4>3. queue' = queue \/ queue' = queue \cup {DistributeTask(b)}
          BY <1>3, <2>1, Zenon
        <4> QED BY <4>1, <4>2, <4>3, Zenon
      <3>2. decision' \in [RefId -> Determined]
        BY <1>3, <2>1, Zenon DEF TypeOK
      <3> QED BY <1>1, <1>3, <2>1, <3>1, <3>2, Zenon DEF TypeOK
    <2> QED BY <1>1, <1>3, <2>1, <2>2, <2>3, TaskKinds
  <1> QED BY <1>2, <1>4, Zenon DEF OtherStep

\* Every step keeps the types.
LEMMA TypeKept ==
    ASSUME ImportInv, Next
    PROVE  TypeOK'
  <1>1. TypeOK
    BY Zenon DEF ImportInv
  <1>2. CASE OtherStep
    BY <1>1, <1>2, OtherIs, Zenon
  <1>3. ASSUME NEW w \in Worker, WorkerStep(w)
        PROVE  TypeOK'
    <2>1. ControlOK' /\ UNCHANGED importer
      BY <1>1, <1>3, WorkerControl, TablesKept, Zenon
    <2>2. results' \in [ResultId -> Result]
      BY <1>3, ResultsGrow, Zenon
    <2>3. queue' \subseteq DistributeTasks \cup ImportTasks \cup DecideTasks
      BY <1>3, MessagesFrom, Zenon
    <2>4. stored' \in [RefId -> ContentType] /\ decision' \in [RefId -> Determined]
      <3>1. CASE CommitIngest(w)
        BY <3>1, CommitIs, Zenon
      <3>2. CASE UNCHANGED <<stored, decision>>
        BY <1>1, <3>2, Zenon DEF TypeOK
      <3> QED BY <1>1, <1>3, <3>1, <3>2, TablesKept, Zenon
    <2>5. distributed' \subseteq Batch
      <3>1. CASE EndOfFile(w)
        <4>1. task[w].batch \in Batch
          BY <3>1, TaskKinds, Zenon DEF EndOfFile, ImportInv, StageInv, Streaming
        <4> QED BY <1>1, <3>1, <4>1, Zenon DEF EndOfFile, TypeOK
      <3> QED BY <1>1, <1>3, <3>1, TablesKept, Zenon DEF TypeOK
    <2>6. faults' \in [call : Nat, crash : Nat, lock : Nat, renewal : Nat]
      BY <1>1, <1>3, FaultsStep, Zenon
    <2> QED BY <1>1, <2>1, <2>2, <2>3, <2>4, <2>5, <2>6, Zenon DEF TypeOK, ControlOK
  <1> QED BY <1>2, <1>3, NextIs, Zenon

\* A result id becomes pending only in QueueLine.
LEMMA PendingFrom ==
    ASSUME TypeOK, NEW w \in Worker, StageInv(w), WorkerStep(w)
    PROVE  \/ QueueLine(w) /\ pending'[w] \in UnusedResults
           \/ pending'[w] = NoResult
           \/ LoseLock(w) /\ pending'[w] = pending[w]
  <1>1. CASE QueueLine(w)
    <2>1. PICK r \in UnusedResults : pending' = [pending EXCEPT ![w] = r]
      BY <1>1, Zenon DEF QueueLine, NextToQueue
    <2> QED BY <1>1, <2>1, Zenon DEF TypeOK
  <1>2. CASE Release(w)
    BY <1>2, ReleaseIs, Zenon DEF Released
  <1>3. CASE CommitLine(w)
    BY <1>3, Zenon DEF CommitLine, TypeOK
  <1>4. CASE UNCHANGED pending /\ stage[w] # "sent"
    BY <1>4, Zenon DEF StageInv
  <1>5. CASE \E m \in queue : StartDistributing(w, m) \/ StartImporting(w, m)
    BY <1>4, <1>5, Zenon DEF StartDistributing, StartImporting, Take, streamVars
  <1>6. CASE SkipLine(w) \/ QueueLineTooLarge(w) \/ TransportError(w)
    <2>1. stage[w] = "stream" /\ (Release(w) \/ UNCHANGED pending)
      BY <1>6, Zenon
      DEF SkipLine, QueueLineTooLarge, TransportError, NextToQueue, Raise
    <2> QED BY <1>2, <1>4, <2>1, Zenon
  <1>7. CASE LoadResult(w) \/ MarkStarted(w) \/ Reject(w) \/ Ingest(w)
             \/ CommitIngest(w) \/ NoteOutcome(w) \/ Conflict(w) \/ IngestFails(w)
    BY <1>4, <1>7, Zenon DEF LoadResult, MarkStarted, Reject, Ingest, CommitIngest,
                      NoteOutcome, Conflict, IngestFails, streamVars
  <1>8. CASE LoseLock(w)
    BY <1>8, LockControl, Zenon
  <1> QED BY <1>1, <1>2, <1>3, <1>5, <1>6, <1>7, <1>8, EndOfTask, Zenon
          DEF WorkerStep, StreamStep, ImportStep

-----------------------------------------------------------------------------
(* Tasks and results are about the same lines *)

\* Where the import tasks after a step come from.
LEMMA ImportTasksFrom ==
    ASSUME ImportInv, NEW w \in Worker, WorkerStep(w), NEW m \in Message',
           m.task = "import"
    PROVE  \/ \E n \in Message : /\ n.task = "import" /\ n.result = m.result
                                 /\ n.batch = m.batch /\ n.line = m.line
           \/ /\ QueueLine(w) /\ m \in ImportTasks
              /\ m.result = pending'[w] /\ m.result \in UnusedResults
              /\ m.batch = task[w].batch /\ m.line = pos'[w]
  <1>1. CASE m \in queue'
    <2>1. task[w] \in Message /\ queue \subseteq Message
      BY Zenon DEF Message
    <2>2. m \notin DecideTasks
      BY TaskKinds, Zenon
    <2> QED BY <1>1, <2>1, <2>2, MessagesFrom, Zenon
  <1>2. CASE \E v \in Worker : m = task'[v]
    <2>1. PICK v \in Worker : m = task'[v]
      BY <1>2, Zenon
    <2>2. CASE v = w
      <3>1. m \in queue \cup {task[w], NoTask}
        BY <2>1, <2>2, MessagesFrom, Zenon
      <3>2. m # NoTask
        BY TaskKinds, Zenon
      <3> QED BY <3>1, <3>2, Zenon DEF Message
    <2>3. CASE v # w
      BY <2>1, <2>3, WorkerControl, Zenon DEF Same, Message
    <2> QED BY <2>2, <2>3, Zenon
  <1> QED BY <1>1, <1>2, Zenon DEF Message

\* The rest of the system adds no task but distributions.
LEMMA OtherMessages ==
    ASSUME ImportInv, OtherStep, NEW m \in Message'
    PROVE  m \in Message \/ m \in DistributeTasks
  BY OtherIs, OtherControl, Zenon DEF ImportInv, Message

\* An import task on the broker or with a worker names a result of its line.
LEMMA MessagesKept ==
    ASSUME ImportInv, Next
    PROVE  \A m \in Message' : MessageInv(m)'
  <1>1. SUFFICES ASSUME NEW m \in Message', m.task = "import"
                 PROVE  /\ m.line \in 1..Len(Lines[m.batch])
                        /\ Lines[m.batch][m.line].kind \in {"invalid", "entry"}
                        /\ results'[m.result].status # "ABSENT" =>
                              /\ results'[m.result].batch = m.batch
                              /\ results'[m.result].line = m.line
    BY Zenon DEF MessageInv
  <1>2. CASE OtherStep
    <2>1. m \in Message
      BY <1>1, <1>2, OtherMessages, TaskKinds, Zenon
    <2> QED BY <1>1, <1>2, <2>1, OtherControl, Zenon DEF ImportInv, MessageInv
  <1>3. ASSUME NEW w \in Worker, WorkerStep(w)
        PROVE  /\ m.line \in 1..Len(Lines[m.batch])
               /\ Lines[m.batch][m.line].kind \in {"invalid", "entry"}
               /\ results'[m.result].status # "ABSENT" =>
                     /\ results'[m.result].batch = m.batch
                     /\ results'[m.result].line = m.line
    <2>1. CASE \E n \in Message : /\ n.task = "import" /\ n.result = m.result
                                  /\ n.batch = m.batch /\ n.line = m.line
      <3>1. PICK n \in Message : /\ n.task = "import" /\ n.result = m.result
                                 /\ n.batch = m.batch /\ n.line = m.line
        BY <2>1, Zenon
      <3>2. MessageInv(n)
        BY Zenon DEF ImportInv
      <3>3. n \in ImportTasks
        BY <3>1, TaskKinds DEF ImportInv, TypeOK, Message
      <3>4. m.result \in ResultId
        BY <3>1, <3>3, TaskKinds, Zenon
      <3>5. m.result \notin UnusedResults
        BY <3>1, Zenon DEF UnusedResults, Message
      <3>6. CASE results[m.result].status # "ABSENT"
        BY <1>3, <3>1, <3>2, <3>4, <3>6, ResultsGrow, Zenon DEF MessageInv
      <3>7. CASE results[m.result].status = "ABSENT" /\ results'[m.result].status # "ABSENT"
        <4>1. /\ stage[w] = "sent" /\ m.result = pending[w]
              /\ results'[m.result].batch = task[w].batch
              /\ results'[m.result].line = pos[w]
          BY <1>3, <3>4, <3>5, <3>7, ResultsGrow
        <4>2. n.batch = task[w].batch /\ n.line = pos[w]
          BY <3>1, <4>1, Zenon DEF ImportInv, PendingInv
        <4> QED BY <3>1, <3>2, <4>1, <4>2, Zenon DEF MessageInv
      <3> QED BY <3>1, <3>2, <3>6, <3>7, Zenon DEF MessageInv
    <2>2. CASE /\ QueueLine(w) /\ m \in ImportTasks
               /\ m.result = pending'[w] /\ m.result \in UnusedResults
               /\ m.batch = task[w].batch /\ m.line = pos'[w]
      <3>1. results' = results /\ task' = task /\ stage'[w] = "sent"
        BY <2>2, Zenon DEF QueueLine, sqlVars, NextToQueue, ImportInv, TypeOK
      <3>2. results'[m.result].status = "ABSENT"
        BY <2>2, <3>1, Zenon DEF UnusedResults
      <3>3. StageInv(w)'
        BY <1>3, WorkerControl, Zenon
      <3>4. /\ pos'[w] <= Len(Lines[m.batch]) /\ pos'[w] = last'[w] + 1
            /\ Lines[m.batch][pos'[w]].kind \in {"invalid", "entry"}
        BY <2>2, <3>1, <3>3, Zenon DEF StageInv, File
      <3>5. m.batch \in Batch /\ last'[w] \in Nat
        BY <2>2, TaskKinds, TypeKept, Zenon DEF TypeOK
      <3> QED BY <2>2, <3>2, <3>4, <3>5, FileIs
    <2> QED BY <1>1, <1>3, <2>1, <2>2, ImportTasksFrom, Zenon
  <1> QED BY <1>2, <1>3, NextIs, Zenon

\* The result a distributor has queued is not yet in the table, and is its own.
LEMMA PendingKept ==
    ASSUME ImportInv, Next, NEW v \in Worker
    PROVE  PendingInv(v)'
  <1>1. SUFFICES ASSUME stage'[v] = "sent"
                 PROVE  /\ results'[pending'[v]].status = "ABSENT"
                        /\ \A u \in Worker \ {v} : pending'[u] # pending'[v]
                        /\ \A m \in Message' :
                              m.task = "import" /\ m.result = pending'[v] =>
                                 m.batch = task'[v].batch /\ m.line = pos'[v]
    BY Zenon DEF PendingInv
  <1>2. CASE OtherStep
    <2>1. \A m \in Message' : m.task = "import" => m \in Message
      BY <1>2, OtherMessages, TaskKinds, Zenon
    <2> QED BY <1>1, <1>2, <2>1, OtherControl DEF ImportInv, PendingInv, Same
  <1>3. ASSUME NEW w \in Worker, WorkerStep(w), w # v
        PROVE  PendingInv(v)'
    <2>1. /\ stage[v] = "sent" /\ pending'[v] = pending[v] /\ task'[v] = task[v]
          /\ pos'[v] = pos[v]
      BY <1>1, <1>3, WorkerControl, Zenon DEF Same
    <2>2. PendingInv(v) /\ StageInv(v) /\ StageInv(w) /\ pending[v] \in ResultId
      BY <2>1, Zenon DEF ImportInv, StageInv, TypeOK
    <2>3. pending[v] \notin UnusedResults
      BY Zenon DEF UnusedResults
    <2>4. results'[pending'[v]].status = "ABSENT"
      <3>1. stage[w] = "sent" => pending[w] # pending[v]
        BY <1>3, <2>1, <2>2, Zenon DEF PendingInv
      <3> QED BY <1>3, <2>1, <2>2, <2>3, <3>1, ResultsGrow, ZenonT(30) DEF PendingInv
    <2>5. pending'[w] # pending[v]
      <3>1. \/ pending'[w] = pending[w]
            \/ pending'[w] = NoResult
            \/ pending'[w] \in UnusedResults
        BY <1>3, PendingFrom, Zenon DEF ImportInv
      <3> QED BY <1>3, <2>1, <2>2, <2>3, <3>1, Zenon DEF PendingInv, StageInv
    <2>6. \A u \in Worker \ {v} : pending'[u] # pending'[v]
      <3>1. \A u \in Worker \ {w} : pending'[u] = pending[u]
        BY <1>3, WorkerControl, Zenon DEF Same
      <3> QED BY <2>1, <2>2, <2>5, <3>1, Zenon DEF PendingInv
    <2>7. ASSUME NEW m \in Message', m.task = "import", m.result = pending'[v]
          PROVE  m.batch = task'[v].batch /\ m.line = pos'[v]
      <3>1. m.result \notin UnusedResults
        BY <2>1, <2>3, <2>7, Zenon
      <3>2. PICK n \in Message : /\ n.task = "import" /\ n.result = m.result
                                 /\ n.batch = m.batch /\ n.line = m.line
        BY <1>3, <2>7, <3>1, ImportTasksFrom, Zenon
      <3> QED BY <2>1, <2>2, <2>7, <3>2, Zenon DEF PendingInv
    <2> QED BY <2>4, <2>6, <2>7, Zenon DEF PendingInv
  <1>4. ASSUME WorkerStep(v), QueueLine(v)
        PROVE  PendingInv(v)'
    <2>1. PICK r \in UnusedResults : pending' = [pending EXCEPT ![v] = r]
      BY <1>4, Zenon DEF QueueLine, NextToQueue
    <2>2. results' = results /\ task' = task /\ pending'[v] = r /\ r \in ResultId
      BY <1>4, <2>1, Zenon DEF QueueLine, sqlVars, ImportInv, TypeOK, UnusedResults
    <2>3. results'[r].status = "ABSENT" /\ \A u \in Worker : pending[u] # r
      BY <2>1, <2>2, Zenon DEF UnusedResults
    <2>4. \A u \in Worker \ {v} : pending'[u] # r
      BY <1>4, <2>3, WorkerControl, Zenon DEF Same
    <2>5. \A n \in Message : n.task = "import" => n.result # r
      BY <2>1, Zenon DEF UnusedResults, Message
    <2>6. \A m \in Message' : m.task = "import" /\ m.result = r =>
             m.batch = task[v].batch /\ m.line = pos'[v]
      BY <1>4, <2>5, ImportTasksFrom, Zenon
    <2> QED BY <2>2, <2>3, <2>4, <2>6, Zenon DEF PendingInv
  <1>5. ASSUME WorkerStep(v), ~QueueLine(v), ~LoseLock(v)
        PROVE  stage'[v] # "sent"
    <2>1. pending'[v] = NoResult
      BY <1>5, PendingFrom, Zenon DEF ImportInv
    <2> QED BY <1>5, <2>1, WorkerControl, Zenon DEF StageInv
  <1>6. ASSUME WorkerStep(v), LoseLock(v)
        PROVE  PendingInv(v)'
    <2>1. TypeOK /\ StageInv(v) /\ PendingInv(v)
      BY Zenon DEF ImportInv
    <2>2. UNCHANGED <<results, stage, task, pos, pending>>
      BY <1>6, <2>1, LockControl, Zenon DEF LoseLock, sqlVars
    <2>3. ASSUME NEW m \in Message', m.task = "import", m.result = pending[v]
          PROVE  m.batch = task[v].batch /\ m.line = pos[v]
      <3>1. m.result \notin UnusedResults
        BY <2>3, Zenon DEF UnusedResults
      <3>2. PICK n \in Message : /\ n.task = "import" /\ n.result = m.result
                                 /\ n.batch = m.batch /\ n.line = m.line
        BY <1>6, <2>3, <3>1, ImportTasksFrom, Zenon
      <3> QED BY <1>1, <2>1, <2>2, <2>3, <3>2, Zenon DEF PendingInv
    <2> QED BY <2>1, <2>2, <2>3, Zenon DEF PendingInv
  <1> QED BY <1>1, <1>2, <1>3, <1>4, <1>5, <1>6, NextIs, Zenon DEF PendingInv

\* A worker that has loaded a result holds one that is in the table.
LEMMA LoadedKept ==
    ASSUME ImportInv, Next, NEW v \in Worker
    PROVE  LoadedInv(v)'
  <1>1. TypeOK /\ StageInv(v) /\ LoadedInv(v) /\ \A m \in Message : MessageInv(m)
    BY Zenon DEF ImportInv
  <1>2. SUFFICES ASSUME stage'[v] \in Importing \ {"waiting"}
                 PROVE  results'[task'[v].result].status # "ABSENT"
    BY Zenon DEF LoadedInv
  <1>3. CASE OtherStep
    BY <1>1, <1>2, <1>3, OtherControl, Zenon DEF LoadedInv, Same
  <1>4. ASSUME NEW w \in Worker, WorkerStep(w), task'[v] = task[v],
               stage[v] \in Importing \ {"waiting"}
        PROVE  results'[task'[v].result].status # "ABSENT"
    <2>1. task[v].result \in ResultId
      BY <1>1, <1>4, TaskKinds, Zenon DEF StageInv
    <2> QED BY <1>1, <1>4, <2>1, ResultsGrow, Zenon DEF LoadedInv
  <1>5. ASSUME NEW w \in Worker, WorkerStep(w), w # v
        PROVE  results'[task'[v].result].status # "ABSENT"
    BY <1>2, <1>4, <1>5, WorkerControl, Zenon DEF Same
  <1>6. ASSUME WorkerStep(v)
        PROVE  results'[task'[v].result].status # "ABSENT"
    <2>1. CASE LoadResult(v)
      BY <2>1, Zenon DEF LoadResult, sqlVars
    <2>2. CASE MarkStarted(v) \/ Reject(v) \/ Ingest(v) \/ CommitIngest(v)
               \/ NoteOutcome(v) \/ Conflict(v) \/ IngestFails(v)
      <3>1. stage[v] \in Importing \ {"waiting"} /\ task' = task
        BY <2>2, Zenon DEF MarkStarted, Reject, Ingest, CommitIngest, NoteOutcome,
                    Conflict, IngestFails, Importing
      <3> QED BY <1>4, <1>6, <3>1, Zenon
    <2>3. CASE LoseLock(v)
      BY <1>2, <1>4, <1>6, <2>3, Zenon DEF LoseLock
    <2>4. CASE Release(v)
      BY <1>1, <1>2, <2>4, ReleaseIs, Zenon DEF Released, Importing
    <2>5. CASE \E m \in queue : StartDistributing(v, m) \/ StartImporting(v, m)
      <3>1. stage'[v] \in {"stream", "waiting"}
        BY <1>1, <2>5, Zenon DEF StartDistributing, StartImporting, Take, TypeOK
      <3> QED BY <1>2, <3>1, Zenon DEF Importing
    <2>6. CASE SkipLine(v) \/ QueueLine(v) \/ QueueLineTooLarge(v) \/ CommitLine(v)
               \/ TransportError(v)
      <3>1. Release(v) \/ stage'[v] \in Streaming
        BY <1>1, <2>6, Zenon DEF SkipLine, QueueLine, QueueLineTooLarge, CommitLine,
                   TransportError, NextToQueue, Raise, TypeOK, Streaming
      <3> QED BY <1>2, <2>4, <3>1, Zenon DEF Importing, Streaming
    <2> QED BY <1>6, <2>1, <2>2, <2>3, <2>4, <2>5, <2>6, EndOfTask, Zenon
            DEF WorkerStep, StreamStep, ImportStep
  <1> QED BY <1>3, <1>5, <1>6, NextIs, Zenon

-----------------------------------------------------------------------------
(* What was imported stays stored *)

\* Stored references are never written again, and an exact duplicate keeps
\* its canonical one.
LEMMA HoldsKept ==
    ASSUME ImportInv, Next, NEW x, NEW c, Holds(x, c)
    PROVE  Holds(x, c)'
  <1>1. /\ x \in RefId /\ StandsFor(x) \in RefId /\ IsStored(StandsFor(x))
        /\ IsSuperset(stored[StandsFor(x)], c)
    BY Zenon DEF Holds
  <1>2. CASE OtherStep
    <2>1. stored' = stored /\ decision'[x].canon = decision[x].canon
      BY <1>1, <1>2, OtherControl, OtherIs, Zenon DEF ImportInv
    <2> QED BY <1>1, <2>1, Zenon DEF Holds, StandsFor, IsStored
  <1>3. ASSUME NEW w \in Worker, WorkerStep(w), UNCHANGED <<stored, decision>>
        PROVE  Holds(x, c)'
    BY <1>1, <1>3, Zenon DEF Holds, StandsFor, IsStored
  <1>4. ASSUME NEW w \in Worker, CommitIngest(w)
        PROVE  Holds(x, c)'
    <2> DEFINE y == out[w].ref
    <2>1. /\ y \in RefId /\ ~IsStored(y) /\ decision[y] = NoDecision
          /\ \A z \in RefId \ {y} : stored'[z] = stored[z] /\ decision'[z] = decision[z]
      BY <1>4, CommitIs, Zenon
    <2>2. x # y
      <3>1. SUFFICES ASSUME x = y PROVE FALSE
        BY Zenon
      <3>2. StandsFor(x) = NoRef
        BY <2>1, <3>1 DEF StandsFor, NoDecision
      <3> QED BY <1>1, <3>2, ConstantsAssumption, Zenon
    <2>3. StandsFor(x) # y
      BY <1>1, <2>1, Zenon
    <2>4. StandsFor(x)' = StandsFor(x)
      BY <1>1, <2>1, <2>2, Zenon DEF StandsFor, IsStored
    <2>5. stored'[StandsFor(x)] = stored[StandsFor(x)]
      BY <1>1, <2>1, <2>3, Zenon
    <2> QED BY <1>1, <2>4, <2>5, Zenon DEF Holds, IsStored
  <1> QED BY <1>2, <1>3, <1>4, NextIs, TablesKept, Zenon DEF ImportInv

\* A stored reference is never written again.
LEMMA StoredKept ==
    ASSUME ImportInv, Next, NEW x \in RefId, IsStored(x)
    PROVE  IsStored(x)' /\ stored'[x] = stored[x]
  <1>1. CASE OtherStep
    BY <1>1, OtherControl, Zenon DEF IsStored
  <1>2. ASSUME NEW w \in Worker, CommitIngest(w)
        PROVE  IsStored(x)' /\ stored'[x] = stored[x]
    BY <1>2, CommitIs, Zenon DEF IsStored
  <1>3. ASSUME NEW w \in Worker, WorkerStep(w), UNCHANGED <<stored, decision>>
        PROVE  IsStored(x)' /\ stored'[x] = stored[x]
    BY <1>3, Zenon DEF IsStored
  <1> QED BY <1>1, <1>2, <1>3, NextIs, TablesKept, Zenon DEF ImportInv

\* What a worker's outcome says of the tables stays true while it is kept.
LEMMA OutcomeSame ==
    ASSUME ImportInv, Next, NEW v \in Worker, Same(v),
           \A u \in Worker \ {v} : out'[u].ref # out[u].ref =>
              out'[u].ref = NoRef \/ out'[u].ref \in UnusedRefs,
           stage[v] = "writing" =>
              stored'[out[v].ref] = NoContent /\ decision'[out[v].ref] = NoDecision
    PROVE  OutcomeInv(v)'
  <1>1. OutcomeInv(v) /\ TypeOK
    BY Zenon DEF ImportInv
  <1>2. PICK o : o = out[v]
    BY Zenon
  <1>3. PICK e : e = Entry(v)
    BY Zenon
  <1>4. Entry(v)' = e /\ stage'[v] = stage[v] /\ out'[v] = o
    BY <1>2, <1>3, Zenon DEF Same, Entry
  <1>5. stage[v] \in {"ingested", "noted"} =>
          /\ o.kind # "none"
          /\ o.kind \in {"new", "exact"} => Holds(o.ref, o.content)'
          /\ o.kind = "new" => IsStored(o.ref)'
    <2>1. stage[v] \in {"ingested", "noted"} =>
            /\ o.kind # "none"
            /\ o.kind \in {"new", "exact"} => Holds(o.ref, o.content)
            /\ o.kind = "new" => IsStored(o.ref)
            /\ o.kind = "new" => o.ref \in RefId
      BY <1>1, <1>2, Zenon DEF OutcomeInv, Holds
    <2> QED BY <2>1, HoldsKept, StoredKept, Zenon
  <1>6. stage[v] = "writing" =>
          /\ o.kind \in {"new", "exact"}
          /\ o.ref \in RefId
          /\ o.kind = "exact" =>
                /\ o.canon \in RefId
                /\ IsStored(o.canon)'
                /\ IsSuperset(stored'[o.canon], o.content)
    BY <1>1, <1>2, StoredKept, Zenon DEF OutcomeInv
  <1>7. o.kind \in {"new", "exact"} =>
           \A u \in Worker \ {v} : out'[u].ref # o.ref
    <2>1. o.ref \notin UnusedRefs
      BY <1>2, Zenon DEF UnusedRefs
    <2> QED BY <1>1, <1>2, <2>1, Zenon DEF OutcomeInv
  <1>8. /\ stage[v] \in {"idle", "waiting", "loaded", "started"} \cup Streaming
              => o = NoOutcome
        /\ o.kind \in {"new", "exact"} =>
              /\ o.ref # NoRef
              /\ IsSuperset(o.content, Kept(e, e.extras))
              /\ ~o.errors => IsSuperset(o.content, Content(e))
              /\ o.content # NoContent
    BY <1>1, <1>2, <1>3, Zenon DEF OutcomeInv
  <1>9. stage[v] = "writing" => ~IsStored(o.ref)' /\ decision'[o.ref] = NoDecision
    BY <1>2, Zenon DEF IsStored
  <1> QED BY <1>4, <1>5, <1>6, <1>7, <1>8, <1>9, Zenon DEF OutcomeInv

\* A worker without a new reference promises nothing.
LEMMA OutcomeDull ==
    ASSUME NEW v \in Worker,
           \/ out'[v] = NoOutcome /\ stage'[v] \notin {"writing", "ingested", "noted"}
           \/ out'[v].kind \in {"rejected", "conflict", "error"} /\ stage'[v] = "ingested"
    PROVE  OutcomeInv(v)'
  BY NoOutcomeIs, Zenon DEF OutcomeInv, Streaming

\* The steps of the ingestion itself.
LEMMA IngestKept ==
    ASSUME ImportInv, NEW v \in Worker, Ingest(v)
    PROVE  OutcomeInv(v)' /\ out'[v].ref \in UnusedRefs
  <1>1. TypeOK /\ StageInv(v) /\ \A m \in Message : MessageInv(m)
    BY Zenon DEF ImportInv
  <1>2. /\ ControlOK' /\ UNCHANGED task /\ \A u \in Worker \ {v} : Same(u)
        /\ task[v] \in ImportTasks /\ task[v].line \in 1..Len(Lines[task[v].batch])
    BY <1>1, ImportControl, Zenon
  <1>3. PICK e : e = Entry(v)
    BY Zenon
  <1>4. PICK x \in UnusedRefs, o \in Outcome :
              /\ out' = [out EXCEPT ![v] = o]
              /\ o.ref = x
              /\ o.content # NoContent
              /\ IsSuperset(o.content, Kept(e, e.extras))
              /\ ~o.errors => IsSuperset(o.content, Content(e))
              /\ \/ o.kind = "new"
                 \/ /\ o.kind = "exact" /\ o.canon \in RefId
                    /\ IsStored(o.canon)
                    /\ IsSuperset(stored[o.canon], o.content)
    BY <1>1, <1>2, <1>3, IngestIs, Zenon
  <1>5. /\ out'[v] = o /\ stage'[v] = "writing" /\ stored' = stored
        /\ decision' = decision /\ Entry(v)' = e
    BY <1>1, <1>2, <1>3, <1>4, Zenon DEF TypeOK, Ingest, sqlVars, Entry
  <1>6. /\ x \in RefId /\ ~IsStored(x) /\ decision[x] = NoDecision
        /\ \A u \in Worker : out[u].ref # x
    BY Zenon DEF UnusedRefs
  <1>7. x # NoRef /\ ~IsStored(x)' /\ \A u \in Worker \ {v} : out'[u].ref # x
    BY <1>2, <1>5, <1>6, ConstantsAssumption, Zenon DEF Same, IsStored
  <1>8. o.kind = "exact" => IsStored(o.canon)'
    BY <1>4, <1>5, Zenon DEF IsStored
  <1>9. OutcomeInv(v)'
    BY <1>4, <1>5, <1>6, <1>7, <1>8, Zenon DEF OutcomeInv, Streaming
  <1> QED BY <1>4, <1>5, <1>9, Zenon

\* Committing the ingestion keeps what the worker's outcome promises.
LEMMA CommitKept ==
    ASSUME ImportInv, NEW v \in Worker, CommitIngest(v)
    PROVE  OutcomeInv(v)'
  <1>1. OutcomeInv(v) /\ stage[v] = "writing" /\ TypeOK
    BY Zenon DEF ImportInv, CommitIngest
  <1>2. PICK o : o = out[v]
    BY Zenon
  <1>3. PICK e : e = Entry(v)
    BY Zenon
  <1>4. out' = out /\ Entry(v)' = e /\ stage'[v] = "ingested"
    BY <1>1, <1>3, Zenon DEF CommitIngest, Entry, TypeOK
  <1>5. /\ o.ref \in RefId /\ ~IsStored(o.ref)
        /\ \A y \in RefId \ {o.ref} : stored'[y] = stored[y]
        /\ \/ /\ o.kind = "exact" /\ stored' = stored
              /\ decision'[o.ref].canon = o.canon
           \/ o.kind = "new" /\ stored'[o.ref] = o.content
    BY <1>2, CommitIs, Zenon
  <1>6. /\ o.content # NoContent
        /\ o.kind = "exact" => /\ o.canon \in RefId /\ IsStored(o.canon)
                               /\ IsSuperset(stored[o.canon], o.content)
    BY <1>1, <1>2, Zenon DEF OutcomeInv
  <1>7. Holds(o.ref, o.content)' /\ (o.kind = "new" => IsStored(o.ref)')
    <2>1. CASE o.kind = "new"
      <3>1. stored'[o.ref] = o.content
        BY <1>5, <2>1, Zenon
      <3> QED BY <1>5, <1>6, <3>1, Zenon DEF Holds, StandsFor, IsStored, IsSuperset
    <2>2. CASE o.kind = "exact"
      BY <1>5, <1>6, <2>2, Zenon DEF Holds, StandsFor, IsStored
    <2> QED BY <1>5, <2>1, <2>2, Zenon
  <1>8. /\ o.kind \in {"new", "exact"}
        /\ o.ref # NoRef
        /\ IsSuperset(o.content, Kept(e, e.extras))
        /\ ~o.errors => IsSuperset(o.content, Content(e))
        /\ o.content # NoContent
        /\ \A u \in Worker \ {v} : out[u].ref # o.ref
    BY <1>1, <1>2, <1>3, Zenon DEF OutcomeInv
  <1> QED BY <1>2, <1>4, <1>7, <1>8, Zenon DEF OutcomeInv, Streaming

\* Noting the outcome keeps what the worker's outcome promises.
LEMMA NoteKept ==
    ASSUME ImportInv, NEW v \in Worker, NoteOutcome(v)
    PROVE  OutcomeInv(v)'
  <1>1. OutcomeInv(v) /\ stage[v] = "ingested" /\ TypeOK
    BY Zenon DEF ImportInv, NoteOutcome
  <1>2. /\ out' = out /\ task' = task /\ stage'[v] = "noted"
        /\ stored' = stored /\ decision' = decision
    BY <1>1, Zenon DEF NoteOutcome, TypeOK
  <1> QED BY <1>1, <1>2, Zenon
          DEF OutcomeInv, Streaming, Holds, StandsFor, IsStored, Entry

\* How an outcome changes.
LEMMA OutFrom ==
    ASSUME ImportInv, NEW w \in Worker, WorkerStep(w)
    PROVE  \/ UNCHANGED out
           \/ out'[w].ref = NoRef
           \/ out'[w].ref \in UnusedRefs
  <1>1. TypeOK
    BY Zenon DEF ImportInv
  <1>2. CASE Release(w)
    BY <1>1, <1>2, ReleaseIs, NoOutcomeIs, Zenon DEF Released
  <1>3. CASE Ingest(w)
    BY <1>3, IngestKept, Zenon
  <1>4. CASE Reject(w) \/ Conflict(w) \/ IngestFails(w)
    BY <1>1, <1>4, NoOutcomeIs, Zenon DEF Reject, Conflict, IngestFails, TypeOK
  <1>5. CASE \E m \in queue : StartDistributing(w, m) \/ StartImporting(w, m)
    BY <1>5, Zenon DEF StartDistributing, StartImporting
  <1>6. CASE SkipLine(w) \/ QueueLine(w) \/ QueueLineTooLarge(w) \/ CommitLine(w)
             \/ TransportError(w)
    <2>1. UNCHANGED out \/ Release(w)
      BY <1>6, Zenon DEF SkipLine, QueueLine, QueueLineTooLarge, CommitLine,
                  TransportError, Raise
    <2> QED BY <1>2, <2>1, Zenon
  <1>7. CASE LoadResult(w) \/ MarkStarted(w) \/ CommitIngest(w) \/ NoteOutcome(w)
             \/ LoseLock(w)
    BY <1>7, Zenon DEF LoadResult, MarkStarted, CommitIngest, NoteOutcome, LoseLock
  <1> QED BY <1>2, <1>3, <1>4, <1>5, <1>6, <1>7, EndOfTask, Zenon
          DEF WorkerStep, StreamStep, ImportStep

\* Every step keeps what the workers' outcomes promise.
LEMMA OutcomesKept ==
    ASSUME ImportInv, Next, NEW v \in Worker
    PROVE  OutcomeInv(v)'
  <1>1. TypeOK /\ StageInv(v) /\ OutcomeInv(v)
    BY Zenon DEF ImportInv
  <1>2. CASE OtherStep
    <2>1. UNCHANGED <<out, stored>> /\ Same(v)
      BY <1>2, OtherControl, Zenon
    <2>2. ASSUME stage[v] = "writing"
          PROVE  /\ stored'[out[v].ref] = NoContent
                 /\ decision'[out[v].ref] = NoDecision
      <3>1. /\ out[v].ref \in RefId /\ ~IsStored(out[v].ref)
            /\ decision[out[v].ref] = NoDecision
        BY <1>1, <2>2, Zenon DEF OutcomeInv
      <3>2. DecideTask(out[v].ref) \notin queue
        BY <3>1, TaskKinds, Zenon DEF ImportInv, DecideInv, DecideTask
      <3> QED BY <1>1, <1>2, <2>1, <3>1, <3>2, OtherIs, Zenon DEF IsStored
    <2> QED BY <2>1, <2>2, OutcomeSame, Zenon
  <1>3. ASSUME NEW w \in Worker, WorkerStep(w), Same(v), ~CommitIngest(w) \/ w # v
        PROVE  OutcomeInv(v)'
    <2>1. \A u \in Worker \ {v} : out'[u].ref # out[u].ref =>
              out'[u].ref = NoRef \/ out'[u].ref \in UnusedRefs
      BY <1>3, OutFrom, WorkerControl, Zenon DEF Same
    <2>2. ASSUME stage[v] = "writing"
          PROVE  /\ stored'[out[v].ref] = NoContent
                 /\ decision'[out[v].ref] = NoDecision
      <3>1. /\ out[v].ref \in RefId /\ ~IsStored(out[v].ref)
            /\ decision[out[v].ref] = NoDecision
            /\ \A u \in Worker \ {v} : out[u].ref # out[v].ref
        BY <1>1, <2>2, Zenon DEF OutcomeInv
      <3>2. CASE CommitIngest(w)
        BY <1>3, <3>1, <3>2, CommitIs DEF IsStored
      <3>3. CASE UNCHANGED <<stored, decision>>
        BY <3>1, <3>3, Zenon DEF IsStored
      <3> QED BY <1>1, <1>3, <3>2, <3>3, TablesKept, Zenon
    <2> QED BY <1>3, <2>1, <2>2, OutcomeSame, Zenon
  <1>4. ASSUME WorkerStep(v)
        PROVE  OutcomeInv(v)'
    <2>1. CASE Release(v)
      BY <1>1, <2>1, ReleaseIs, OutcomeDull, Zenon DEF Released
    <2>2. CASE Reject(v) \/ Conflict(v) \/ IngestFails(v)
      <3>1. out'[v].kind \in {"rejected", "conflict", "error"} /\ stage'[v] = "ingested"
        BY <1>1, <2>2, NoOutcomeIs, Zenon DEF Reject, Conflict, IngestFails, TypeOK
      <3> QED BY <3>1, OutcomeDull, Zenon
    <2>3. ASSUME UNCHANGED out,
                 stage[v] \in {"idle", "waiting", "loaded", "started"} \cup Streaming,
                 stage'[v] \notin {"writing", "ingested", "noted"}
          PROVE  OutcomeInv(v)'
      BY <1>1, <2>3, OutcomeDull, Zenon DEF OutcomeInv
    <2>4. CASE \E m \in queue : StartDistributing(v, m) \/ StartImporting(v, m)
      BY <1>1, <2>3, <2>4, Zenon DEF StartDistributing, StartImporting, Take, TypeOK
    <2>5. CASE SkipLine(v) \/ QueueLine(v) \/ QueueLineTooLarge(v) \/ CommitLine(v)
               \/ TransportError(v)
      <3>1. Release(v) \/ (/\ UNCHANGED out /\ stage[v] \in Streaming
                           /\ stage'[v] \in Streaming)
        BY <1>1, <2>5, Zenon DEF SkipLine, QueueLine, QueueLineTooLarge, CommitLine,
                   TransportError, NextToQueue, Raise, TypeOK, Streaming
      <3>2. stage'[v] \in Streaming => stage'[v] \notin {"writing", "ingested", "noted"}
        BY Zenon DEF Streaming
      <3> QED BY <2>1, <2>3, <3>1, <3>2, Zenon
    <2>6. CASE LoadResult(v) \/ MarkStarted(v)
      BY <1>1, <2>3, <2>6, Zenon DEF LoadResult, MarkStarted, TypeOK
    <2>7. CASE LoseLock(v)
      <3>1. Same(v)
        BY <2>7, Zenon DEF LoseLock, Same, streamVars
      <3>2. ~CommitIngest(v)
        BY <2>7, ConstantsAssumption, Zenon
        DEF LoseLock, CommitIngest, ImportInv, TypeOK
      <3> QED BY <1>3, <1>4, <3>1, <3>2, Zenon
    <2> QED BY <1>4, <2>1, <2>2, <2>4, <2>5, <2>6, <2>7, EndOfTask, IngestKept,
               CommitKept, NoteKept, Zenon
            DEF WorkerStep, StreamStep, ImportStep
  <1>5. ASSUME NEW w \in Worker, WorkerStep(w), w # v
        PROVE  OutcomeInv(v)'
    BY <1>3, <1>5, WorkerControl, Zenon
  <1> QED BY <1>2, <1>4, <1>5, NextIs, Zenon

\* Every step keeps what the results' statuses promise.
LEMMA ResultsKept ==
    ASSUME ImportInv, Next, NEW r \in ResultId
    PROVE  ResultInv(r)'
  <1>1. TypeOK /\ ResultInv(r)
    BY Zenon DEF ImportInv
  <1>2. PICK e : e = Lines[results[r].batch][results[r].line]
    BY Zenon
  <1>3. ASSUME results'[r].batch = results[r].batch,
               results'[r].line = results[r].line,
               results'[r].status # "ABSENT" => results[r].status # "ABSENT",
               results'[r].status \in {"COMPLETED", "PARTIALLY_FAILED"} =>
                  Holds(results[r].ref, Kept(e, e.extras)) /\ results'[r].ref = results[r].ref,
               results'[r].status = "COMPLETED" => Holds(results[r].ref, Content(e))
        PROVE  ResultInv(r)'
    <2>1. PICK x : x = results[r].ref
      BY Zenon
    <2>2. results'[r].status \in {"COMPLETED", "PARTIALLY_FAILED"} =>
             Holds(x, Kept(e, e.extras))' /\ results'[r].ref = x
      BY <1>3, <2>1, HoldsKept, Zenon
    <2>3. results'[r].status = "COMPLETED" => Holds(x, Content(e))'
      BY <1>3, <2>1, HoldsKept, Zenon
    <2> QED BY <1>1, <1>2, <1>3, <2>2, <2>3, Zenon DEF ResultInv
  <1>4. CASE results'[r] = results[r]
    BY <1>1, <1>2, <1>3, <1>4, Zenon DEF ResultInv
  <1>5. CASE OtherStep
    BY <1>4, <1>5, OtherControl, Zenon
  <1>6. ASSUME NEW w \in Worker, WorkerStep(w)
        PROVE  ResultInv(r)'
    <2>1. TypeOK /\ StageInv(w) /\ LoadedInv(w) /\ OutcomeInv(w)
      BY Zenon DEF ImportInv
    <2>2. CASE results[r].status = "ABSENT" /\ results'[r].status # "ABSENT"
      <3>1. /\ stage[w] \in Streaming /\ last'[w] = last[w] + 1 /\ task'[w] = task[w]
            /\ results'[r].batch = task[w].batch /\ results'[r].line = last'[w]
            /\ results'[r].status \in {"CREATED", "FAILED"} /\ last'[w] = pos'[w]
        BY <1>6, <2>2, ResultsGrow, Zenon
      <3>2. StageInv(w)'
        BY <1>6, WorkerControl, Zenon
      <3>3. task[w] \in DistributeTasks /\ task[w].batch \in Batch /\ last[w] \in Nat
        BY <2>1, <3>1, TaskKinds, Zenon DEF StageInv, TypeOK
      <3>4. last'[w] <= Len(Lines[task[w].batch])
        <4>1. stage'[w] \in Streaming
          <5>1. last'[w] # 0
            BY <3>1, <3>3
          <5> QED BY <3>2, <5>1, Zenon DEF StageInv
        <4> QED BY <3>1, <3>2, <4>1, Zenon DEF StageInv, File
      <3>5. last'[w] \in 1..Len(Lines[task[w].batch])
        BY <3>1, <3>3, <3>4, FileIs
      <3> QED BY <3>1, <3>5, Zenon DEF ResultInv
    <2>3. CASE NoteOutcome(w) /\ r = task[w].result
      <3>1. PICK o : o = out[w]
        BY Zenon
      <3>2. /\ results[r].status # "ABSENT" /\ results'[r].status = StatusOf(o)
            /\ results'[r].batch = results[r].batch
            /\ results'[r].line = results[r].line
            /\ o.kind \in {"new", "exact"} => results'[r].ref = o.ref
        BY <2>1, <2>3, <3>1, NotedIs, Zenon
      <3>3. stage[w] = "ingested" /\ task[w] \in ImportTasks /\ task[w].task = "import"
        BY <2>1, <2>3, TaskKinds, Zenon DEF NoteOutcome, StageInv, Importing
      <3>4. e = Entry(w)
        <4>1. MessageInv(task[w])
          BY Zenon DEF ImportInv, Message
        <4> QED BY <1>2, <2>3, <3>2, <3>3, <4>1, Zenon DEF MessageInv, Entry
      <3>5. results'[r].status \in {"COMPLETED", "PARTIALLY_FAILED"} =>
               o.kind \in {"new", "exact"}
        BY <2>1, <3>1, <3>2, <3>3, Zenon DEF StatusOf, OutcomeInv, TypeOK, Outcome
      <3>6. results'[r].status = "COMPLETED" => ~o.errors
        BY <3>2, Zenon DEF StatusOf
      <3>7. results'[r].status \in {"COMPLETED", "PARTIALLY_FAILED"} =>
               Holds(o.ref, Kept(e, e.extras))
        BY <2>1, <3>1, <3>3, <3>4, <3>5, SupersetTransitive, Zenon
        DEF OutcomeInv, Holds
      <3>8. results'[r].status = "COMPLETED" => Holds(o.ref, Content(e))
        BY <2>1, <3>1, <3>3, <3>4, <3>5, <3>6, SupersetTransitive, Zenon
        DEF OutcomeInv, Holds
      <3>9. results'[r].status \in {"COMPLETED", "PARTIALLY_FAILED"} =>
               Holds(o.ref, Kept(e, e.extras))' /\ results'[r].ref = o.ref
        BY <3>2, <3>5, <3>7, HoldsKept, Zenon
      <3>10. results'[r].status = "COMPLETED" => Holds(o.ref, Content(e))'
        BY <3>8, HoldsKept, Zenon
      <3> QED BY <1>1, <1>2, <3>2, <3>9, <3>10, Zenon DEF ResultInv
    <2>4. CASE NoteOutcome(w) /\ r # task[w].result
      BY <1>4, <2>1, <2>4, NotedIs, Zenon
    <2>5. CASE MarkStarted(w)
      <3>1. task[w].result \in ResultId /\ results[task[w].result].status # "ABSENT"
        BY <2>1, <2>5, TaskKinds, Zenon
        DEF MarkStarted, StageInv, LoadedInv, Importing
      <3>2. r = task[w].result => results'[r].status = "STARTED"
        BY <2>1, <2>5, <3>1 DEF MarkStarted, TypeOK, Result
      <3>3. r # task[w].result => results'[r] = results[r]
        BY <2>1, <2>5, <3>1, Zenon DEF MarkStarted, TypeOK
      <3>4. CASE r = task[w].result
        BY <1>3, <1>6, <3>1, <3>2, <3>4, ResultsGrow, Zenon
      <3> QED BY <1>4, <3>3, <3>4, Zenon
    <2>6. CASE (QueueLineTooLarge(w) \/ CommitLine(w))
               /\ (results[r].status # "ABSENT" \/ results'[r].status = "ABSENT")
      <3>1. results'[r] = results[r] \/ results'[r].status \in {"CREATED", "FAILED"}
        <4>1. \A l : /\ NewResult(w, l, "CREATED").status = "CREATED"
                     /\ NewResult(w, l, "FAILED").status = "FAILED"
          BY Zenon DEF NewResult
        <4>2. PICK s, l : \/ results' = [results EXCEPT ![s] = NewResult(w, l, "CREATED")]
                          \/ results' = [results EXCEPT ![s] = NewResult(w, l, "FAILED")]
          BY <2>6, Zenon DEF QueueLineTooLarge, CommitLine
        <4> QED BY <2>1, <4>1, <4>2 DEF TypeOK
      <3>2. CASE results'[r].status = "ABSENT"
        BY <3>2, Zenon DEF ResultInv
      <3>3. CASE results[r].status # "ABSENT" /\ results'[r].status \in {"CREATED", "FAILED"}
        BY <1>3, <1>6, <3>3, ResultsGrow, Zenon
      <3> QED BY <1>4, <2>6, <3>1, <3>2, <3>3, Zenon
    <2> QED BY <1>4, <1>6, <2>1, <2>2, <2>3, <2>4, <2>5, <2>6, TablesKept, Zenon
  <1> QED BY <1>5, <1>6, NextIs, Zenon

\* A decision that is queued is about a stored reference.
LEMMA DecideKept ==
    ASSUME ImportInv, Next
    PROVE  DecideInv'
  <1>1. SUFFICES ASSUME NEW m \in queue', m.task = "decide"
                 PROVE  IsStored(m.ref)'
    BY Zenon DEF DecideInv
  <1>2. m \in DecideTasks /\ m.ref \in RefId
    BY <1>1, TypeKept, TaskKinds, Zenon DEF TypeOK
  <1>3. CASE m \in queue
    BY <1>1, <1>2, <1>3, StoredKept, Zenon DEF ImportInv, DecideInv
  <1>4. CASE OtherStep
    BY <1>1, <1>3, <1>4, OtherIs, TaskKinds, Zenon DEF ImportInv
  <1>5. ASSUME NEW w \in Worker, WorkerStep(w)
        PROVE  IsStored(m.ref)'
    <2>1. task[w] # m
      <3>1. task[w] \in DistributeTasks \cup ImportTasks \cup {NoTask}
        BY Zenon DEF ImportInv, TypeOK
      <3> QED BY <1>1, <3>1, TaskKinds, Zenon
    <2>2. CASE stage[w] = "noted" /\ out[w].kind = "new" /\ m.ref = out[w].ref
      <3>1. IsStored(m.ref)
        BY <2>2, Zenon DEF ImportInv, OutcomeInv
      <3> QED BY <1>2, <3>1, StoredKept, Zenon
    <2> QED BY <1>1, <1>2, <1>3, <1>5, <2>1, <2>2, MessagesFrom, TaskKinds, Zenon
  <1> QED BY <1>4, <1>5, NextIs, Zenon

-----------------------------------------------------------------------------
(* Every line once *)

\* A line that has a result keeps one.
LEMMA CoveredKept ==
    ASSUME ImportInv, Next, NEW b \in Batch, NEW l, ResultsFor(b, l) # {}
    PROVE  ResultsFor(b, l)' # {}
  <1>1. PICK r \in ResultId : /\ results[r].status # "ABSENT"
                              /\ results[r].batch = b /\ results[r].line = l
    BY Zenon DEF ResultsFor
  <1>2. /\ results'[r].status # "ABSENT"
        /\ results'[r].batch = b /\ results'[r].line = l
    BY <1>1, NextIs, OtherControl, ResultsGrow, Zenon
  <1> QED BY <1>2, Zenon DEF ResultsFor

\* The lines up to last_processed_line, after a step of their worker.
LEMMA CoverStream ==
    ASSUME ImportInv, Next, NEW w \in Worker, WorkerStep(w), stage'[w] \in Streaming
    PROVE  Covered(task[w].batch, last[w])'
  <1>1. TypeOK /\ StageInv(w) /\ TypeOK'
    BY TypeKept, Zenon DEF ImportInv
  <1>2. ASSUME task'[w] = task[w], last'[w] = last[w], stage[w] \in Streaming
        PROVE  Covered(task[w].batch, last[w])'
    <2>1. Covered(task[w].batch, last[w])
      BY <1>2, Zenon DEF ImportInv, CoverInv
    <2>2. task[w].batch \in Batch
      BY <1>1, <1>2, TaskKinds, Zenon DEF StageInv
    <2> QED BY <1>2, <2>1, <2>2, CoveredKept, Zenon DEF Covered
  <1>3. ASSUME task'[w] = task[w], stage[w] \in Streaming, last'[w] = last[w] + 1,
               \/ Lines[task[w].batch][last'[w]].kind = "blank"
               \/ ResultsFor(task[w].batch, last[w])' # {}
        PROVE  Covered(task[w].batch, last[w])'
    <2>1. PICK b \in Batch : b = task[w].batch
      BY <1>1, <1>3, TaskKinds, Zenon DEF StageInv
    <2>2. PICK n \in Nat : n = last[w]
      BY <1>1, Zenon DEF TypeOK
    <2>3. Covered(b, n)
      BY <1>3, <2>1, <2>2, Zenon DEF ImportInv, CoverInv
    <2>4. \A l \in 1..n : Lines[b][l].kind # "blank" => ResultsFor(b, l)' # {}
      BY <2>3, CoveredKept, Zenon DEF Covered
    <2>5. task'[w].batch = b /\ last'[w] = n + 1
      BY <1>3, <2>1, <2>2, Zenon
    <2>6. Lines[b][n + 1].kind = "blank" \/ ResultsFor(b, n + 1)' # {}
      BY <1>3, <2>1, <2>5, Zenon
    <2>7. \A l \in 1..(n + 1) : l \in 1..n \/ l = n + 1
      OBVIOUS
    <2>8. Covered(b, n + 1)'
      BY <2>4, <2>6, <2>7, Zenon DEF Covered
    <2> QED BY <2>5, <2>8, Zenon
  <1>4. CASE Release(w)
    BY <1>1, <1>4, ReleaseIs, Zenon DEF Released, Streaming
  <1>5. CASE \E m \in queue : StartDistributing(w, m) \/ StartImporting(w, m)
    <2>1. last'[w] = 0
      BY <1>1, <1>5, Zenon
      DEF StartDistributing, StartImporting, Take, StageInv, Streaming,
                        streamVars
    <2> QED BY <2>1 DEF Covered
  <1>6. CASE TransportError(w) \/ QueueLine(w)
    <2>1. Release(w) \/ (/\ task'[w] = task[w] /\ last'[w] = last[w]
                         /\ stage[w] \in Streaming)
      BY <1>6, Zenon DEF TransportError, QueueLine, NextToQueue, Raise, Streaming
    <2> QED BY <1>2, <1>4, <2>1, Zenon
  <1>7. CASE SkipLine(w)
    <2>1. stage[w] \in Streaming /\ task'[w] = task[w] /\ stage[w] = "stream"
      BY <1>7, Zenon DEF SkipLine, Streaming
    <2>2. CASE UNCHANGED last
      BY <1>2, <2>1, <2>2, Zenon
    <2>3. CASE last' = [last EXCEPT ![w] = pos[w] + 1] /\ pos[w] + 1 > last[w]
               /\ File(w)[pos[w] + 1].kind = "blank"
      <3>1. last'[w] = last[w] + 1 /\ pos[w] = last[w]
        <4>1. /\ pos[w] \in Nat /\ last[w] \in Nat /\ pos[w] <= last[w]
              /\ last'[w] = pos[w] + 1
          BY <1>1, <2>1, <2>3, Zenon DEF StageInv, TypeOK
        <4>2. pos[w] = last[w]
          BY <2>3, <4>1
        <4> QED BY <4>1, <4>2, Zenon
      <3> QED BY <1>3, <2>1, <2>3, <3>1, Zenon DEF File
    <2> QED BY <1>7, <2>2, <2>3, Zenon DEF SkipLine
  <1>8. CASE QueueLineTooLarge(w) \/ CommitLine(w)
    <2>1. /\ stage[w] \in Streaming /\ task' = task
          /\ last'[w] = last[w] + 1
      BY <1>1, <1>8 DEF QueueLineTooLarge, CommitLine, NextToQueue, Streaming,
                        StageInv, TypeOK
    <2>2. PICK r \in ResultId : /\ results'[r].status # "ABSENT"
                                /\ results'[r].batch = task[w].batch
                                /\ results'[r].line = last'[w]
      BY <1>8, ResultsGrow, Zenon
    <2>3. ResultsFor(task[w].batch, last[w])' # {}
      BY <2>1, <2>2, Zenon DEF ResultsFor
    <2> QED BY <1>3, <2>1, <2>3, Zenon
  <1>9. CASE LoadResult(w) \/ MarkStarted(w) \/ Reject(w) \/ Ingest(w)
             \/ CommitIngest(w) \/ NoteOutcome(w) \/ Conflict(w) \/ IngestFails(w)
    <2>1. stage'[w] \notin Streaming
      BY <1>1, <1>9, Zenon
      DEF LoadResult, MarkStarted, Reject, Ingest, CommitIngest,
                        NoteOutcome, Conflict, IngestFails, TypeOK, Streaming
    <2> QED BY <2>1, Zenon
  <1>10. CASE LoseLock(w)
    BY <1>2, <1>10, Zenon DEF LoseLock, streamVars
  <1> QED BY <1>4, <1>5, <1>6, <1>7, <1>8, <1>9, <1>10, EndOfTask, Zenon
          DEF WorkerStep, StreamStep, ImportStep

\* Every line that a distribution has passed has its result.
LEMMA CoverKept ==
    ASSUME ImportInv, Next
    PROVE  CoverInv'
  <1>1. TypeOK
    BY Zenon DEF ImportInv
  <1>2. ASSUME NEW b \in Batch, NEW n, Covered(b, n)
        PROVE  Covered(b, n)'
    BY <1>2, CoveredKept, Zenon DEF Covered
  <1>3. ASSUME NEW v \in Worker, Same(v), stage'[v] \in Streaming
        PROVE  Covered(task[v].batch, last[v])'
    <2>1. PICK b, n : b = task[v].batch /\ n = last[v]
      BY Zenon
    <2>2. b \in Batch /\ Covered(b, n)
      BY <1>3, <2>1, TaskKinds, Zenon DEF ImportInv, CoverInv, StageInv, Same
    <2>3. task'[v].batch = b /\ last'[v] = n
      BY <1>3, <2>1, Zenon DEF Same
    <2> QED BY <1>2, <2>2, <2>3, Zenon
  <1>4. CASE OtherStep
    <2>1. distributed' = distributed /\ \A v \in Worker : Same(v)
      BY <1>4, OtherControl, Zenon
    <2>2. \A b \in distributed' : Covered(b, Len(Lines[b]))'
      BY <1>1, <1>2, <2>1, Zenon DEF ImportInv, CoverInv, TypeOK
    <2> QED BY <1>3, <2>1, <2>2, Zenon DEF CoverInv
  <1>5. ASSUME NEW w \in Worker, WorkerStep(w)
        PROVE  CoverInv'
    <2>1. \A v \in Worker : stage'[v] \in Streaming => Covered(task[v].batch, last[v])'
      BY <1>3, <1>5, CoverStream, WorkerControl, Zenon
    <2>2. ASSUME NEW b \in distributed'
          PROVE  Covered(b, Len(Lines[b]))'
      <3>1. CASE b \in distributed
        BY <1>1, <1>2, <3>1, Zenon DEF ImportInv, CoverInv, TypeOK
      <3>2. CASE EndOfFile(w) /\ b = task[w].batch
        <4>1. /\ stage[w] \in Streaming /\ pos[w] = Len(File(w)) /\ pos[w] <= last[w]
              /\ last[w] <= Len(File(w)) /\ b \in Batch
          BY <3>2, TaskKinds, Zenon DEF EndOfFile, ImportInv, StageInv, Streaming
        <4>2. last[w] = Len(Lines[b])
          BY <1>1, <3>2, <4>1, FileIs DEF File, TypeOK
        <4>3. Covered(b, Len(Lines[b]))
          BY <3>2, <4>1, <4>2, Zenon DEF ImportInv, CoverInv
        <4> QED BY <1>2, <4>1, <4>3, Zenon
      <3> QED BY <1>1, <1>5, <2>2, <3>1, <3>2, TablesKept, Zenon DEF EndOfFile
    <2> QED BY <2>1, <2>2, Zenon DEF CoverInv
  <1> QED BY <1>4, <1>5, NextIs, Zenon

\* A distribution that runs after a step ran before it, or was taken from the
\* broker, where no other is left.
LEMMA DistributesFrom ==
    ASSUME ImportInv, NEW w \in Worker, WorkerStep(w), NEW b \in Batch,
           Distributes(w, b)'
    PROVE  \/ Distributes(w, b) /\ last[w] <= last'[w]
           \/ DistributeTask(b) \in queue /\ DistributeTask(b) \notin queue'
  <1>1. TypeOK /\ StageInv(w) /\ stage'[w] \in Streaming /\ task'[w].batch = b
    BY Zenon DEF ImportInv, Distributes
  <1>2. CASE Release(w)
    BY <1>1, <1>2, ReleaseIs, Zenon DEF Released, Streaming
  <1>3. ASSUME NEW m \in queue, StartDistributing(w, m)
        PROVE  DistributeTask(b) \in queue /\ DistributeTask(b) \notin queue'
    <2>1. m \in DistributeTasks /\ task'[w] = m /\ queue' = queue \ {m}
      BY <1>1, <1>3, TaskKinds DEF StartDistributing, Take, TypeOK
    <2>2. m = DistributeTask(b)
      BY <1>1, <2>1, Zenon DEF DistributeTasks, DistributeTask
    <2> QED BY <2>1, <2>2, Zenon
  <1>4. ASSUME NEW m \in queue, StartImporting(w, m)
        PROVE  FALSE
    BY <1>1, <1>4, Zenon DEF StartImporting, Take, TypeOK, Streaming
  <1>5. CASE SkipLine(w) \/ QueueLine(w) \/ QueueLineTooLarge(w) \/ CommitLine(w)
             \/ TransportError(w)
    <2>1. \/ Release(w)
          \/ stage[w] \in Streaming /\ task'[w] = task[w] /\ last[w] <= last'[w]
      <3>1. last[w] \in Nat /\ pos[w] \in Nat /\ last \in [Worker -> Nat]
        BY <1>1, Zenon DEF TypeOK
      <3>2. last[w] <= last[w] /\ (pos[w] + 1 > last[w] => last[w] <= pos[w] + 1)
            /\ (pos[w] = last[w] + 1 => last[w] <= pos[w])
        BY <3>1
      <3>3. stage[w] = "sent" => pos[w] = last[w] + 1
        BY <1>1, Zenon DEF StageInv
      <3>4. CASE SkipLine(w) \/ QueueLine(w) \/ QueueLineTooLarge(w)
        BY <3>1, <3>2, <3>4, Zenon
        DEF SkipLine, QueueLine, QueueLineTooLarge, NextToQueue, Streaming
      <3>5. CASE CommitLine(w)
        BY <3>1, <3>2, <3>3, <3>5, Zenon DEF CommitLine, Streaming
      <3>6. CASE TransportError(w)
        BY <3>2, <3>6, Zenon DEF TransportError, Raise, Streaming
      <3> QED BY <1>5, <3>4, <3>5, <3>6, Zenon
    <2> QED BY <1>1, <1>2, <2>1, Zenon DEF Distributes
  <1>6. CASE LoadResult(w) \/ MarkStarted(w) \/ Reject(w) \/ Ingest(w)
             \/ CommitIngest(w) \/ NoteOutcome(w) \/ Conflict(w) \/ IngestFails(w)
    <2>1. stage'[w] \notin Streaming
      BY <1>1, <1>6, Zenon
      DEF LoadResult, MarkStarted, Reject, Ingest, CommitIngest,
                        NoteOutcome, Conflict, IngestFails, TypeOK, Streaming
    <2> QED BY <1>1, <2>1, Zenon
  <1>7. CASE LoseLock(w)
    BY <1>1, <1>7 DEF LoseLock, streamVars, Distributes, TypeOK
  <1> QED BY <1>2, <1>3, <1>4, <1>5, <1>6, <1>7, EndOfTask, Zenon
          DEF WorkerStep, StreamStep, ImportStep

\* A row that is new after a step is the next line of the distribution.
LEMMA RowFrom ==
    ASSUME ImportInv, NEW w \in Worker, WorkerStep(w), NEW b \in Batch, NEW l,
           NEW r \in ResultsFor(b, l)', r \notin ResultsFor(b, l)
    PROVE  /\ r \in ResultId /\ results[r].status = "ABSENT"
           /\ results'[r].status # "ABSENT"
           /\ Distributes(w, b) /\ l = last[w] + 1 /\ l = last'[w]
           /\ last[w] \in Nat
  <1>1. /\ r \in ResultId /\ results'[r].status # "ABSENT"
        /\ results'[r].batch = b /\ results'[r].line = l
    BY Zenon DEF ResultsFor
  <1>2. results[r].status = "ABSENT"
    BY <1>1, ResultsGrow, Zenon DEF ResultsFor
  <1>3. /\ stage[w] \in Streaming /\ last'[w] = last[w] + 1
        /\ results'[r].batch = task[w].batch /\ results'[r].line = last'[w]
    BY <1>1, <1>2, ResultsGrow, Zenon
  <1> QED BY <1>1, <1>2, <1>3, Zenon DEF Distributes, ImportInv, TypeOK

\* A step adds one row at most.
LEMMA OneNewRow ==
    ASSUME ImportInv, NEW w \in Worker, WorkerStep(w),
           NEW r \in ResultId, NEW s \in ResultId,
           results[r].status = "ABSENT", results[s].status = "ABSENT",
           results'[r].status # "ABSENT", results'[s].status # "ABSENT"
    PROVE  r = s
  <1>1. results \in [ResultId -> Result]
    BY Zenon DEF ImportInv, TypeOK
  <1>2. PICK q : \A t \in ResultId \ {q} : results'[t] = results[t]
    <2>1. CASE QueueLineTooLarge(w)
      BY <1>1, <2>1, Zenon DEF QueueLineTooLarge
    <2>2. CASE CommitLine(w)
      BY <1>1, <2>2, Zenon DEF CommitLine
    <2>3. CASE MarkStarted(w)
      BY <1>1, <2>3, Zenon DEF MarkStarted
    <2>4. CASE NoteOutcome(w)
      BY <1>1, <2>4, NotedIs, Zenon DEF ImportInv
    <2>5. CASE UNCHANGED results
      BY <2>5, Zenon
    <2> QED BY <2>1, <2>2, <2>3, <2>4, <2>5, TablesKept, Zenon DEF ImportInv
  <1> QED BY <1>2, Zenon

\* Only a crash or a lost lock brings a distribution back to the broker.
LEMMA NotRedistributed ==
    ASSUME ImportInv, NEW w \in Worker, WorkerStep(w), ~Redelivers(w),
           NEW b \in Batch, DistributeTask(b) \in queue'
    PROVE  DistributeTask(b) \in queue
  BY MessagesFrom, TaskKinds, Zenon

\* A line past another is a different one, and past those before it.
LEMMA Beyond ==
    ASSUME NEW l \in Nat, NEW n \in Nat, l > n
    PROVE  l # n /\ \A k \in Nat : k <= n => l > k
  OBVIOUS

\* A step that gives no distribution back gives no line of a batch a second
\* result.
LEMMA OnceStep ==
    ASSUME ImportInv, NEW w \in Worker, WorkerStep(w), ~Redelivers(w),
           NEW b \in Batch, Once(b)
    PROVE  Once(b)'
  <1>1. ASSUME NEW v \in Worker, Distributes(v, b)'
        PROVE  \/ Distributes(v, b) /\ last[v] <= last'[v]
               \/ /\ v = w /\ DistributeTask(b) \in queue
                  /\ DistributeTask(b) \notin queue'
    <2>1. CASE v = w
      BY <1>1, <2>1, DistributesFrom, Zenon
    <2>2. CASE v # w
      <3>1. stage'[v] = stage[v] /\ task'[v] = task[v] /\ last'[v] = last[v]
        BY <2>2, WorkerControl, Zenon DEF Same
      <3>2. last[v] \in Nat
        BY Zenon DEF ImportInv, TypeOK
      <3>3. last[v] <= last'[v]
        BY <3>1, <3>2
      <3> QED BY <1>1, <3>1, <3>3, Zenon DEF Distributes
    <2> QED BY <2>1, <2>2, Zenon
  <1>2. ASSUME Unstarted(b), DistributeTask(b) \notin queue \/ DistributeTask(b) \in queue'
        PROVE  Unstarted(b)'
    <2>1. \A v \in Worker : ~Distributes(v, b)'
      BY <1>1, <1>2, NotRedistributed, Zenon DEF Unstarted
    <2>2. \A l \in 1..Len(Lines[b]) : ResultsFor(b, l)' = {}
      BY <1>2, RowFrom, Zenon DEF Unstarted
    <2> QED BY <2>1, <2>2, Zenon DEF Unstarted
  <1>3. importer'[b] \in {"new", "recorded"} =>
           DistributeTask(b) \notin queue' /\ Unstarted(b)'
    BY <1>2, NotRedistributed, TablesKept, Zenon DEF Once, ImportInv
  <1>4. DistributeTask(b) \in queue' => Unstarted(b)'
    BY <1>2, NotRedistributed, Zenon DEF Once
  <1>5. ASSUME NEW v \in Worker, Distributes(v, b)'
        PROVE  /\ \A u \in Worker \ {v} : ~Distributes(u, b)'
               /\ \A l \in 1..Len(Lines[b]) : l > last'[v] => ResultsFor(b, l)' = {}
    <2>1. \A u \in Worker \ {v} : ~Distributes(u, b)'
      BY <1>1, <1>5, Zenon DEF Once, Unstarted
    <2>2. ASSUME NEW l \in 1..Len(Lines[b]), l > last'[v]
          PROVE  ResultsFor(b, l)' = {}
      <3>1. last[v] \in Nat /\ last'[v] \in Nat /\ l \in Nat
        <4>1. last[v] \in Nat /\ last'[v] \in Nat
          BY WorkerControl, Zenon DEF ImportInv, TypeOK, ControlOK
        <4>2. l \in Nat
          BY <2>2, FileIs
        <4> QED BY <4>1, <4>2, Zenon
      <3>2. ResultsFor(b, l) = {}
        <4>1. last[v] <= last'[v] => l > last[v]
          BY <2>2, <3>1, Beyond, Zenon
        <4> QED BY <1>1, <1>5, <4>1, Zenon DEF Once, Unstarted
      <3>3. ASSUME NEW r \in ResultsFor(b, l)'
            PROVE  FALSE
        <4>1. Distributes(w, b) /\ l = last'[w]
          BY <3>2, <3>3, RowFrom, Zenon
        <4>2. v # w
          <5>1. l # last'[v]
            BY <2>2, <3>1, Beyond, Zenon
          <5> QED BY <4>1, <5>1, Zenon
        <4>3. Distributes(v, b)
          BY <1>1, <1>5, <4>2, Zenon
        <4> QED BY <4>1, <4>2, <4>3, Zenon DEF Once
      <3> QED BY <3>3, Zenon
    <2> QED BY <2>1, <2>2, Zenon
  <1>6. ASSUME NEW l \in 1..Len(Lines[b]), NEW r \in ResultsFor(b, l)',
               NEW s \in ResultsFor(b, l)'
        PROVE  r = s
    <2>1. CASE r \in ResultsFor(b, l) /\ s \in ResultsFor(b, l)
      BY <2>1, Zenon DEF Once
    <2>2. CASE r \notin ResultsFor(b, l) /\ s \notin ResultsFor(b, l)
      <3>1. ASSUME NEW q \in ResultsFor(b, l)', q \notin ResultsFor(b, l)
            PROVE  /\ q \in ResultId /\ results[q].status = "ABSENT"
                   /\ results'[q].status # "ABSENT"
        BY <3>1, RowFrom, Zenon
      <3> QED BY <2>2, <3>1, OneNewRow, Zenon
    <2>3. ASSUME NEW q \in ResultsFor(b, l)', q \notin ResultsFor(b, l)
          PROVE  ResultsFor(b, l) = {}
      BY <2>3, RowFrom DEF Once
    <2> QED BY <2>1, <2>2, <2>3, Zenon
  <1> QED BY <1>3, <1>4, <1>5, <1>6, Zenon DEF Once

\* While no distribution is delivered again, every line has one result at most.
LEMMA OnceKept ==
    ASSUME ImportInv, Next
    PROVE  OnceInv'
  <1>1. SUFFICES ASSUME DeliveredOnce', NEW b \in Batch PROVE Once(b)'
    BY Zenon DEF OnceInv
  <1>2. CASE OtherStep
    <2>1. DeliveredOnce
      BY <1>1, <1>2, OtherIs, Zenon DEF ImportInv
    <2>2. Once(b)
      BY <2>1, Zenon DEF ImportInv, OnceInv
    <2>3. UNCHANGED <<results, stage, task, last>>
      BY <1>2, OtherControl, Zenon
    <2>4. /\ Unstarted(b)' <=> Unstarted(b)
          /\ \A w \in Worker : Distributes(w, b)' <=> Distributes(w, b)
          /\ \A l : ResultsFor(b, l)' = ResultsFor(b, l)
      BY <2>3, Zenon DEF Unstarted, Distributes, ResultsFor
    <2>5. /\ DistributeTask(b) \in queue' =>
                DistributeTask(b) \in queue \/ importer[b] = "recorded"
          /\ importer'[b] \in {"new", "recorded"} =>
                /\ importer[b] \in {"new", "recorded"}
                /\ DistributeTask(b) \in queue' => DistributeTask(b) \in queue
      BY <1>2, OtherIs, Zenon DEF ImportInv
    <2> QED BY <2>2, <2>3, <2>4, <2>5 DEF Once
  <1>3. ASSUME NEW w \in Worker, WorkerStep(w)
        PROVE  Once(b)'
    <2>1. DeliveredOnce /\ ~Redelivers(w)
      BY <1>1, <1>3, FaultsStep, Zenon DEF ImportInv
    <2>2. Once(b)
      BY <2>1, Zenon DEF ImportInv, OnceInv
    <2> QED BY <1>3, <2>1, <2>2, OnceStep, Zenon
  <1> QED BY <1>2, <1>3, NextIs, Zenon

-----------------------------------------------------------------------------
(* The theorems *)

\* The invariant holds before the first batch is distributed.
LEMMA InitHolds == Init => ImportInv
  <1>1. SUFFICES ASSUME Init PROVE ImportInv
    BY Zenon
  <1>2. (CHOOSE b \in Batch : TRUE) \in Batch
    BY ConstantsAssumption, Zenon
  <1>3. results \in [ResultId -> Result] /\ \A r \in ResultId : results[r].status = "ABSENT"
    BY <1>1, <1>2, Zenon DEF Init, Result, Status
  <1>4. decision \in [RefId -> Determined] /\ stored \in [RefId -> ContentType]
    BY <1>1, Zenon DEF Init, NoDecision, Determined, NoContent, ContentType
  <1>5. \A w \in Worker : /\ stage[w] = "idle" /\ task[w] = NoTask /\ pending[w] = NoResult
                          /\ pos[w] = 0 /\ last[w] = 0 /\ out[w] = NoOutcome
    BY <1>1, Zenon DEF Init
  <1>6. faults \in [call : Nat, crash : Nat, lock : Nat, renewal : Nat]
    BY <1>1, Zenon DEF Init
  <1>7. TypeOK
    BY <1>1, <1>3, <1>4, <1>6, NoOutcomeIs, Zenon DEF Init, TypeOK
  <1>8. \A w \in Worker : StageInv(w) /\ PendingInv(w) /\ LoadedInv(w)
    BY <1>5, Zenon DEF StageInv, PendingInv, LoadedInv, Streaming, Importing
  <1>9. \A w \in Worker : OutcomeInv(w)
    BY <1>5, NoOutcomeIs, Zenon DEF OutcomeInv
  <1>10. queue = {} /\ distributed = {}
    BY <1>1, Zenon DEF Init
  <1>11. \A m \in Message : MessageInv(m)
    BY <1>5, <1>10, TaskKinds DEF Message, MessageInv
  <1>12. \A r \in ResultId : ResultInv(r)
    BY <1>3, Zenon DEF ResultInv
  <1>13. DecideInv /\ CoverInv
    BY <1>5, <1>10, Zenon DEF DecideInv, CoverInv, Streaming
  <1>14. OnceInv
    <2>1. \A b \in Batch : \A l : ResultsFor(b, l) = {}
      BY <1>3, Zenon DEF ResultsFor
    <2>2. \A b \in Batch, w \in Worker : ~Distributes(w, b)
      BY <1>5, Zenon DEF Distributes, Streaming
    <2> QED BY <1>10, <2>1, <2>2, Zenon DEF OnceInv, Once, Unstarted
  <1> QED BY <1>7, <1>8, <1>9, <1>11, <1>12, <1>13, <1>14, Zenon DEF ImportInv

\* The invariant is inductive: no step of the importers, of
\* distribute_import_batch, of import_reference or of a fault breaks it.
THEOREM ImportsInvariant == Spec => []ImportInv
  <1>1. Init => ImportInv
    BY InitHolds, Zenon
  <1>2. ImportInv /\ [Next]_vars => ImportInv'
    <2>1. ASSUME ImportInv, Next PROVE ImportInv'
      <3>1. ASSUME NEW v \in Worker PROVE StageInv(v)'
        <4>1. StageInv(v)
          BY <2>1, Zenon DEF ImportInv
        <4>2. CASE OtherStep
          BY <4>1, <4>2, OtherControl, SameStage, Zenon
        <4>3. ASSUME NEW w \in Worker, WorkerStep(w) PROVE StageInv(v)'
          BY <2>1, <4>1, <4>3, WorkerControl, SameStage, Zenon
        <4> QED BY <2>1, <4>2, <4>3, NextIs, Zenon
      <3>2. TypeOK' /\ (\A m \in Message : MessageInv(m))' /\ DecideInv'
            /\ CoverInv' /\ OnceInv'
        BY <2>1, TypeKept, MessagesKept, DecideKept, CoverKept, OnceKept, Zenon
      <3>3. \A v \in Worker : PendingInv(v)' /\ LoadedInv(v)' /\ OutcomeInv(v)'
        BY <2>1, PendingKept, LoadedKept, OutcomesKept, Zenon
      <3>4. \A r \in ResultId : ResultInv(r)'
        BY <2>1, ResultsKept, Zenon
      <3> QED BY <3>1, <3>2, <3>3, <3>4, Zenon DEF ImportInv
    <2>2. ASSUME ImportInv, UNCHANGED vars PROVE ImportInv'
      <3>1. TypeOK'
        BY <2>2, Zenon DEF vars, ImportInv, TypeOK
      <3>2. \A v \in Worker : StageInv(v)' /\ PendingInv(v)' /\ LoadedInv(v)'
        <4>1. /\ UNCHANGED <<stage, task, pos, last, pending, out, results>>
              /\ Message' = Message
          BY <2>2, Zenon DEF vars, Message
        <4>2. \A v \in Worker : StageInv(v)'
          BY <2>2, <4>1, SameStage, Zenon DEF ImportInv, Same
        <4>3. \A v \in Worker : PendingInv(v)' /\ LoadedInv(v)'
          BY <2>2, <4>1, Zenon DEF ImportInv, PendingInv, LoadedInv
        <4> QED BY <4>2, <4>3, Zenon
      <3>3. \A v \in Worker : OutcomeInv(v)'
        BY <2>2, Zenon
        DEF vars, ImportInv, OutcomeInv, Holds, StandsFor, IsStored, Entry
      <3>4. (\A m \in Message : MessageInv(m))' /\ DecideInv'
        <4>1. /\ queue' = queue /\ task' = task /\ results' = results
              /\ stored' = stored
          BY <2>2, Zenon DEF vars
        <4>2. Message' = Message
          BY <4>1, Zenon DEF Message
        <4>3. (\A m \in Message : MessageInv(m))'
          BY <2>2, <4>1, <4>2, Zenon DEF ImportInv, MessageInv
        <4>4. DecideInv'
          BY <2>2, <4>1, Zenon DEF ImportInv, DecideInv, IsStored
        <4> QED BY <4>3, <4>4, Zenon
      <3>5. \A r \in ResultId : ResultInv(r)'
        BY <2>2, Zenon DEF vars, ImportInv, ResultInv, Holds, StandsFor, IsStored
      <3>6. CoverInv'
        BY <2>2, SMTT(30) DEF vars, ImportInv, CoverInv, Covered, ResultsFor
      <3>7. OnceInv'
        BY <2>2
        DEF vars, ImportInv, OnceInv, DeliveredOnce, Once, Unstarted, Distributes,
               ResultsFor
      <3> QED BY <3>1, <3>2, <3>3, <3>4, <3>5, <3>6, <3>7, Zenon DEF ImportInv
    <2> QED BY <2>1, <2>2, Zenon
  <1> QED BY <1>1, <1>2, PTL DEF Spec

\* What import_reference reports as imported is stored, or is an exact
\* duplicate of a stored reference that holds what the line holds; retried and
\* redelivered tasks, conflicts and concurrent imports of a line included.
THEOREM ImportedStored == Spec => []ImportedIsStored
  <1>1. ImportInv => ImportedIsStored
    BY ConstantsAssumption, Zenon DEF ImportInv, ImportedIsStored, ResultInv, Holds
  <1> QED BY <1>1, ImportsInvariant, PTL

\* distribute_import_batch gives every line that is not blank a result by the
\* time it has streamed the file, however often it reconnects, and only one
\* while its task is delivered once: no worker has crashed and no distribution
\* has lost its lock.
THEOREM LinesOnce == Spec => []EachLineOnce
  <1>1. ImportInv => EachLineOnce
    <2>1. SUFFICES ASSUME ImportInv, NEW b \in Batch, NEW l \in 1..Len(Lines[b])
                   PROVE  /\ b \in distributed /\ Lines[b][l].kind # "blank"
                                => ResultsFor(b, l) # {}
                          /\ DeliveredOnce => \A r, s \in ResultsFor(b, l) : r = s
      BY Zenon DEF EachLineOnce
    <2>2. b \in distributed /\ Lines[b][l].kind # "blank" => ResultsFor(b, l) # {}
      BY <2>1, Zenon DEF ImportInv, CoverInv, Covered
    <2>3. DeliveredOnce => \A r, s \in ResultsFor(b, l) : r = s
      BY <2>1, Zenon DEF ImportInv, OnceInv, Once
    <2> QED BY <2>2, <2>3, Zenon
  <1> QED BY <1>1, ImportsInvariant, PTL
=============================================================================
