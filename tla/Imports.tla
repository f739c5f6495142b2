------------------------------ MODULE Imports ------------------------------
(***************************************************************************)
(* Importing a file of references, from the importer's command line to the *)
(* stored references and their first duplicate decisions.                  *)
(*                                                                         *)
(* An importer registers a record and a batch (the URL of a jsonl file),   *)
(* finalises the record and polls the batch's status.  A worker streams    *)
(* the file and queues one task per line, each with an import_result row;  *)
(* workers run those tasks: they parse the line, look for a stored exact   *)
(* duplicate, store the reference with a PENDING decision, note the        *)
(* outcome on the result and queue the decision.  The status of a batch is *)
(* not stored: it is projected from the statuses of its results.           *)
(***************************************************************************)
EXTENDS Naturals, Sequences

CONSTANTS
    Batch,          \* batches; each is registered by an importer of its own
    Lines,          \* [Batch -> sequence of the entries of its file]
    ResultId,       \* import_result ids (a bound)
    RefId,          \* reference ids (a bound)
    Worker,         \* queue workers
    NoResult,       \* no import result
    NoRef,          \* a null reference id
    Identifier,     \* external identifiers
    OtherId,        \* the ones of type "other"
    Enhancement,    \* contents of enhancements
    MaxRetries,     \* settings.import_reference_retry_count
    MaxAttempts,    \* attempts at streaming a file before the error is raised
    MaxPolls,       \* polls before the importer stops waiting
    MaxFaults       \* bound on failed calls, crashes and lost locks, together

Visibility == {"PUBLIC", "RESTRICTED", "HIDDEN"}

\* A line of a file: blank, too large for a message, not a reference, or an
\* entry with its identifiers and enhancements.  Some of those did not parse
\* if it is flawed; the fragile ones may fail while they are stored.
EntryType == [kind : {"blank", "huge", "invalid", "entry"}, vis : Visibility,
              ids : SUBSET Identifier, extras : SUBSET Enhancement,
              fragile : SUBSET Enhancement, flawed : BOOLEAN]

ASSUME ConstantsAssumption ==
    /\ Batch # {}
    /\ Lines \in [Batch -> Seq(EntryType)]
    /\ NoResult \notin ResultId
    /\ NoRef \notin RefId
    /\ {MaxRetries, MaxAttempts, MaxPolls, MaxFaults} \subseteq Nat

VARIABLES
    importer,   \* where the importer of each batch is
    polls,      \* how often it has polled
    record,     \* status of the import record of each batch
    results,    \* the committed import_result table
    stored,     \* content of the stored references
    decision,   \* the decision registered for each reference id
    queue,      \* tasks visible on the broker
    stage,      \* where each worker is
    task,       \* the task each worker holds
    locked,     \* whether the worker still owns the broker lock of its task
    pos,        \* line_number of a worker that streams a file
    last,       \* its last_processed_line
    attempt,    \* its attempt number
    pending,    \* its flushed but uncommitted import result
    out,        \* outcome of the ingestion a worker runs
    orphaned,   \* references whose worker failed before queueing the decision
    distributed,\* batches whose file was streamed to its end
    reported,   \* batches and results whose failure was raised and logged
    exhausted,  \* results logged as having no retries left
    faults      \* how many faults of each kind have happened

httpVars == <<importer, polls, record>>
sqlVars == <<results, stored, decision>>
streamVars == <<pos, last, attempt, pending>>
noteVars == <<orphaned, distributed, reported, exhausted>>
vars == <<importer, polls, record, results, stored, decision, queue, stage,
          task, locked, pos, last, attempt, pending, out, orphaned,
          distributed, reported, exhausted, faults>>

-----------------------------------------------------------------------------
(* Data *)

\* The statuses on which a delivered task returns at once.
Processed == {"PARTIALLY_FAILED", "FAILED", "COMPLETED"}

\* The content of a reference: what is_superset compares.
Content(e) == [vis |-> e.vis, ids |-> e.ids, extras |-> e.extras]

\* Reference.is_superset
IsSuperset(c, d) ==
    /\ c.vis = d.vis
    /\ d.extras \subseteq c.extras
    /\ d.ids \subseteq c.ids

NoContent == [vis |-> "NONE", ids |-> {}, extras |-> {}]

IsStored(r) == stored[r] # NoContent

\* A ReferenceDuplicateDecision of an imported reference.
NoDecision == [det |-> "NONE", canon |-> NoRef]

DistributeTask(b) == [task |-> "distribute", batch |-> b]

ImportTask(r, b, l, n) ==
    [task |-> "import", result |-> r, batch |-> b, line |-> l, retries |-> n]

DecideTask(x) == [task |-> "decide", ref |-> x]

NoTask == [task |-> "none"]

Entry(w) == Lines[task[w].batch][task[w].line]

\* A ReferenceCreateResult: errors, the id given to the reference, and
\* whether a PENDING decision was registered for it.
NoOutcome == [kind |-> "none", ref |-> NoRef, canon |-> NoRef,
              content |-> NoContent, errors |-> FALSE]

\* Faults are bounded together and counted by kind: a lock lost by an import
\* task ("lock") or by a distribution, which renews it ("renewal").
Fault(kind) ==
    /\ faults.call + faults.crash + faults.lock + faults.renewal < MaxFaults
    /\ faults' = [faults EXCEPT ![kind] = @ + 1]

\* Ids nothing refers to yet.
UnusedResults ==
    {r \in ResultId :
        /\ results[r].status = "ABSENT"
        /\ \A w \in Worker : pending[w] # r
        /\ \A m \in queue \cup {task[w] : w \in Worker} :
              m.task = "import" => m.result # r}

UnusedRefs ==
    {x \in RefId : /\ ~IsStored(x)
                   /\ decision[x] = NoDecision
                   /\ \A w \in Worker : out[w].ref # x}

-----------------------------------------------------------------------------
(* The status of a batch *)

StatusSet(b) ==
    {results[r].status : r \in {x \in ResultId : /\ results[x].batch = b
                                                 /\ results[x].status # "ABSENT"}}

\* ImportBatchStatusProjection.get_from_status_set
BatchStatus(S) ==
    IF S = {} \/ S = {"CREATED"} THEN "CREATED"
    ELSE IF S \cap {"STARTED", "RETRYING", "CREATED"} # {} THEN "STARTED"
    ELSE IF S = {"COMPLETED"} THEN "COMPLETED"
    ELSE IF S \subseteq {"FAILED", "PARTIALLY_FAILED"} THEN "FAILED"
    ELSE "PARTIALLY_FAILED"

\* ImportBatchStatus.get_terminal_statuses()
TerminalBatch == {"FAILED", "PARTIALLY_FAILED", "COMPLETED"}

-----------------------------------------------------------------------------
Init ==
    /\ importer = [b \in Batch |-> "new"]
    /\ polls = [b \in Batch |-> 0]
    /\ record = [b \in Batch |-> "ABSENT"]
    /\ results = [r \in ResultId |-> [batch |-> CHOOSE b \in Batch : TRUE,
                                      line |-> 0, status |-> "ABSENT",
                                      ref |-> NoRef]]
    /\ stored = [x \in RefId |-> NoContent]
    /\ decision = [x \in RefId |-> NoDecision]
    /\ queue = {}
    /\ stage = [w \in Worker |-> "idle"]
    /\ task = [w \in Worker |-> NoTask]
    /\ locked = [w \in Worker |-> FALSE]
    /\ pos = [w \in Worker |-> 0]
    /\ last = [w \in Worker |-> 0]
    /\ attempt = [w \in Worker |-> 0]
    /\ pending = [w \in Worker |-> NoResult]
    /\ out = [w \in Worker |-> NoOutcome]
    /\ orphaned = {}
    /\ distributed = {}
    /\ reported = {}
    /\ exhausted = {}
    /\ faults = [call |-> 0, crash |-> 0, lock |-> 0, renewal |-> 0]

-----------------------------------------------------------------------------
(* The importer: cli/post_import_file.py and the routes it calls *)

\* create_record
CreateRecord(b) ==
    /\ importer[b] = "new"
    /\ importer' = [importer EXCEPT ![b] = "recorded"]
    /\ record' = [record EXCEPT ![b] = "CREATED"]
    /\ UNCHANGED <<polls, sqlVars, queue, stage, task, locked, streamVars,
                   out, noteVars, faults>>

\* enqueue_batch commits the batch, then queues its distribution.
EnqueueBatch(b) ==
    /\ importer[b] = "recorded"
    /\ importer' = [importer EXCEPT ![b] = "registered"]
    /\ queue' = queue \cup {DistributeTask(b)}
    /\ UNCHANGED <<polls, record, sqlVars, stage, task, locked, streamVars,
                   out, noteVars, faults>>

\* The broker refuses the task, or the API dies before sending it: the batch
\* stays registered, the importer gets an error and stops.
EnqueueBatchFails(b) ==
    /\ importer[b] = "recorded"
    /\ Fault("call")
    /\ importer' = [importer EXCEPT ![b] = "failed"]
    /\ reported' = reported \cup {b}
    /\ UNCHANGED <<polls, record, sqlVars, queue, stage, task, locked,
                   streamVars, out, orphaned, distributed, exhausted>>

\* finalise_record checks nothing but that the record exists.
FinaliseRecord(b) ==
    /\ importer[b] = "registered"
    /\ importer' = [importer EXCEPT ![b] = "polling"]
    /\ record' = [record EXCEPT ![b] = "COMPLETED"]
    /\ UNCHANGED <<polls, sqlVars, queue, stage, task, locked, streamVars,
                   out, noteVars, faults>>

\* One round of poll_and_summarise.
Poll(b) ==
    /\ importer[b] = "polling"
    /\ polls' = [polls EXCEPT ![b] = @ + 1]
    /\ importer' = [importer EXCEPT
                       ![b] = IF BatchStatus(StatusSet(b)) \in TerminalBatch
                              THEN "complete"
                              ELSE IF polls[b] + 1 = MaxPolls THEN "timed_out"
                              ELSE "polling"]
    /\ UNCHANGED <<record, sqlVars, queue, stage, task, locked, streamVars,
                   out, noteVars, faults>>

-----------------------------------------------------------------------------
(* Tasks on workers *)

\* A worker is free again; what it had not committed is gone.
Release(w) ==
    /\ stage' = [stage EXCEPT ![w] = "idle"]
    /\ task' = [task EXCEPT ![w] = NoTask]
    /\ locked' = [locked EXCEPT ![w] = FALSE]
    /\ pos' = [pos EXCEPT ![w] = 0]
    /\ last' = [last EXCEPT ![w] = 0]
    /\ attempt' = [attempt EXCEPT ![w] = 0]
    /\ pending' = [pending EXCEPT ![w] = NoResult]
    /\ out' = [out EXCEPT ![w] = NoOutcome]

\* The reference whose PENDING decision only worker w knows of.
Carried(w) ==
    IF stage[w] \in {"ingested", "noted"} /\ out[w].kind = "new"
    THEN {out[w].ref} ELSE {}

\* An exception leaves the task: it is logged, the message acknowledged.
Raise(w) ==
    /\ Release(w)
    /\ reported' = reported \cup {IF task[w].task = "distribute"
                                  THEN task[w].batch ELSE task[w].result}
    /\ orphaned' = orphaned \cup Carried(w)
    /\ UNCHANGED <<httpVars, sqlVars, queue, distributed, exhausted>>

Take(w, m, s) ==
    /\ stage[w] = "idle"
    /\ queue' = queue \ {m}
    /\ stage' = [stage EXCEPT ![w] = s]
    /\ task' = [task EXCEPT ![w] = m]
    /\ locked' = [locked EXCEPT ![w] = TRUE]

-----------------------------------------------------------------------------
(* distribute_import_batch *)

StartDistributing(w, m) ==
    /\ m.task = "distribute"
    /\ Take(w, m, "stream")
    /\ attempt' = [attempt EXCEPT ![w] = 1]
    /\ UNCHANGED <<httpVars, sqlVars, pos, last, pending, out, noteVars,
                   faults>>

\* The storage answers with another status than 2xx.
BadStatus(w) ==
    /\ stage[w] = "stream"
    /\ pos[w] = 0
    /\ Fault("call")
    /\ Raise(w)

\* httpx.TransportError: stream again from the first line, or give up.  The
\* errors of one distribution count as one fault.
TransportError(w) ==
    /\ stage[w] = "stream"
    /\ IF attempt[w] = 1 THEN Fault("call") ELSE UNCHANGED faults
    /\ \/ /\ attempt[w] < MaxAttempts
          /\ attempt' = [attempt EXCEPT ![w] = @ + 1]
          /\ pos' = [pos EXCEPT ![w] = 0]
          /\ UNCHANGED <<httpVars, sqlVars, queue, stage, task, locked, last,
                         pending, out, noteVars>>
       \/ /\ attempt[w] = MaxAttempts
          /\ Raise(w)

File(w) == Lines[task[w].batch]

\* Lines up to last_processed_line, and blank ones, are passed over.
SkipLine(w) ==
    /\ stage[w] = "stream"
    /\ pos[w] < Len(File(w))
    /\ \/ /\ pos[w] + 1 <= last[w]
          /\ UNCHANGED last
       \/ /\ pos[w] + 1 > last[w]
          /\ File(w)[pos[w] + 1].kind = "blank"
          /\ last' = [last EXCEPT ![w] = pos[w] + 1]
    /\ pos' = [pos EXCEPT ![w] = @ + 1]
    /\ UNCHANGED <<httpVars, sqlVars, queue, stage, task, locked, attempt,
                   pending, out, noteVars, faults>>

NextToQueue(w) ==
    /\ stage[w] = "stream"
    /\ pos[w] < Len(File(w))
    /\ pos[w] + 1 > last[w]
    /\ UnusedResults # {}

NewResult(w, l, status) ==
    [batch |-> task[w].batch, line |-> l, status |-> status, ref |-> NoRef]

\* _queue_import_line: the result is flushed and its task sent before the
\* transaction commits.
QueueLine(w) ==
    LET r == CHOOSE x \in UnusedResults : TRUE
    IN  /\ NextToQueue(w)
        /\ File(w)[pos[w] + 1].kind \notin {"blank", "huge"}
        /\ queue' = queue \cup {ImportTask(r, task[w].batch, pos[w] + 1,
                                           MaxRetries)}
        /\ pending' = [pending EXCEPT ![w] = r]
        /\ pos' = [pos EXCEPT ![w] = @ + 1]
        /\ stage' = [stage EXCEPT ![w] = "sent"]
        /\ UNCHANGED <<httpVars, sqlVars, task, locked, last, attempt, out,
                       noteVars, faults>>

\* MessageTooLargeError: the result is committed as FAILED.
QueueLineTooLarge(w) ==
    LET r == CHOOSE x \in UnusedResults : TRUE
    IN  /\ NextToQueue(w)
        /\ File(w)[pos[w] + 1].kind = "huge"
        /\ results' = [results EXCEPT ![r] = NewResult(w, pos[w] + 1, "FAILED")]
        /\ pos' = [pos EXCEPT ![w] = @ + 1]
        /\ last' = [last EXCEPT ![w] = pos[w] + 1]
        /\ UNCHANGED <<httpVars, stored, decision, queue, stage, task, locked,
                       attempt, pending, out, noteVars, faults>>

\* The send, or any other step of the transaction, fails.
QueueLineFails(w) ==
    /\ NextToQueue(w)
    /\ File(w)[pos[w] + 1].kind # "blank"
    /\ Fault("call")
    /\ Raise(w)

\* Mutant: last_processed_line falls one line behind.
CommitLineBehind(w) ==
    /\ stage[w] = "sent"
    /\ results' = [results EXCEPT ![pending[w]] =
                      NewResult(w, pos[w], "CREATED")]
    /\ last' = [last EXCEPT ![w] = pos[w] - 1]
    /\ pending' = [pending EXCEPT ![w] = NoResult]
    /\ stage' = [stage EXCEPT ![w] = "stream"]
    /\ UNCHANGED <<httpVars, stored, decision, queue, task, locked, pos,
                   attempt, out, noteVars, faults>>

CommitLine(w) ==
    /\ stage[w] = "sent"
    /\ results' = [results EXCEPT ![pending[w]] =
                      NewResult(w, pos[w], "CREATED")]
    /\ last' = [last EXCEPT ![w] = pos[w]]
    /\ pending' = [pending EXCEPT ![w] = NoResult]
    /\ stage' = [stage EXCEPT ![w] = "stream"]
    /\ UNCHANGED <<httpVars, stored, decision, queue, task, locked, pos,
                   attempt, out, noteVars, faults>>

CommitLineFails(w) ==
    /\ stage[w] = "sent"
    /\ Fault("call")
    /\ Raise(w)

EndOfFile(w) ==
    /\ stage[w] = "stream"
    /\ pos[w] = Len(File(w))
    /\ Release(w)
    /\ distributed' = distributed \cup {task[w].batch}
    /\ UNCHANGED <<httpVars, sqlVars, queue, orphaned, reported, exhausted,
                   faults>>

-----------------------------------------------------------------------------
(* import_reference *)

StartImporting(w, m) ==
    /\ m.task = "import"
    /\ Take(w, m, "waiting")
    /\ UNCHANGED <<httpVars, sqlVars, streamVars, out, noteVars, faults>>

\* wait_for_pk gives up.  Nobody will commit a row whose distributor is gone;
\* a commit that is merely late is a fault.
WaitExpires(w) ==
    /\ stage[w] = "waiting"
    /\ results[task[w].result].status = "ABSENT"
    /\ IF \E v \in Worker : pending[v] = task[w].result
       THEN Fault("call") ELSE UNCHANGED faults
    /\ Raise(w)

LoadResult(w) ==
    /\ stage[w] = "waiting"
    /\ results[task[w].result].status \notin {"ABSENT"} \cup Processed
    /\ stage' = [stage EXCEPT ![w] = "loaded"]
    /\ UNCHANGED <<httpVars, sqlVars, queue, task, locked, streamVars, out,
                   noteVars, faults>>

SkipProcessed(w) ==
    /\ stage[w] = "waiting"
    /\ results[task[w].result].status \in Processed
    /\ Release(w)
    /\ UNCHANGED <<httpVars, sqlVars, queue, noteVars, faults>>

MarkStarted(w) ==
    /\ stage[w] = "loaded"
    /\ results' = [results EXCEPT ![task[w].result].status = "STARTED"]
    /\ stage' = [stage EXCEPT ![w] = "started"]
    /\ UNCHANGED <<httpVars, stored, decision, queue, task, locked,
                   streamVars, out, noteVars, faults>>

\* ReferenceCreateResult.from_raw finds no reference in the line.
Reject(w) ==
    /\ stage[w] = "started"
    /\ Entry(w).kind = "invalid"
    /\ out' = [out EXCEPT ![w] = [NoOutcome EXCEPT !.kind = "rejected"]]
    /\ stage' = [stage EXCEPT ![w] = "ingested"]
    /\ UNCHANGED <<httpVars, sqlVars, queue, task, locked, streamVars,
                   noteVars, faults>>

\* What is left of an entry whose linked data or full text enhancements in D
\* failed to validate or to be stored.
Kept(e, D) == [Content(e) EXCEPT !.extras = @ \ D]

\* Mutant: any stored reference with one of the identifiers is taken.
OverlappingDuplicates(c) ==
    {x \in RefId : IsStored(x) /\ (stored[x].ids \cap c.ids) \ OtherId # {}}

\* find_exact_duplicate: stored supersets sharing an identifier that is not of
\* type "other".  Which of them sorts first depends on their decisions.
ExactDuplicates(c) ==
    {x \in RefId : /\ IsStored(x)
                   /\ (stored[x].ids \cap c.ids) \ OtherId # {}
                   /\ IsSuperset(stored[x], c)}

\* ingest_reference up to its writes.
Ingest(w) ==
    LET e == Entry(w)
        x == CHOOSE y \in UnusedRefs : TRUE
    IN  /\ stage[w] = "started"
        /\ e.kind = "entry"
        /\ UnusedRefs # {}
        /\ \E D \in SUBSET (e.extras \cap e.fragile) :
             LET c == Kept(e, D)
                 o(kind, y) == [kind |-> kind, ref |-> x, canon |-> y,
                                content |-> c, errors |-> e.flawed \/ D # {}]
             IN  IF ExactDuplicates(c) = {}
                 THEN out' = [out EXCEPT ![w] = o("new", NoRef)]
                 ELSE \E y \in ExactDuplicates(c) :
                        out' = [out EXCEPT ![w] = o("exact", y)]
        /\ stage' = [stage EXCEPT ![w] = "writing"]
        /\ UNCHANGED <<httpVars, sqlVars, queue, task, locked, streamVars,
                       noteVars, faults>>

\* The transaction commits: the decision and, unless the reference is an
\* exact duplicate, the reference itself.
CommitIngest(w) ==
    LET o == out[w]
    IN  /\ stage[w] = "writing"
        /\ IF o.kind = "exact"
           THEN /\ decision' = [decision EXCEPT ![o.ref] =
                                   [det |-> "EXACT_DUPLICATE", canon |-> o.canon]]
                /\ UNCHANGED stored
           ELSE /\ decision' = [decision EXCEPT ![o.ref] =
                                   [det |-> "PENDING", canon |-> NoRef]]
                /\ stored' = [stored EXCEPT ![o.ref] = o.content]
        /\ stage' = [stage EXCEPT ![w] = "ingested"]
        /\ UNCHANGED <<httpVars, results, queue, task, locked, streamVars,
                       out, noteVars, faults>>

\* An integrity error or a deadlock: rolled back, to be retried.  The retries
\* bound how often.
Conflict(w) ==
    /\ stage[w] \in {"started", "writing"}
    /\ out' = [out EXCEPT ![w] = [NoOutcome EXCEPT !.kind = "conflict"]]
    /\ stage' = [stage EXCEPT ![w] = "ingested"]
    /\ UNCHANGED <<httpVars, sqlVars, queue, task, locked, streamVars,
                   noteVars, faults>>

\* Any other exception of the ingestion.
IngestFails(w) ==
    /\ stage[w] \in {"started", "writing"}
    /\ Fault("call")
    /\ out' = [out EXCEPT ![w] = [NoOutcome EXCEPT !.kind = "error"]]
    /\ stage' = [stage EXCEPT ![w] = "ingested"]
    /\ UNCHANGED <<httpVars, sqlVars, queue, task, locked, streamVars,
                   noteVars>>

StatusOf(o) ==
    IF o.kind = "conflict" THEN "RETRYING"
    ELSE IF o.kind \in {"error", "rejected"} THEN "FAILED"
    ELSE IF o.errors THEN "PARTIALLY_FAILED"
    ELSE "COMPLETED"

\* import_reference notes the outcome in a transaction of its own.
NoteOutcome(w) ==
    LET r == task[w].result
        o == out[w]
    IN  /\ stage[w] = "ingested"
        /\ results' = [results EXCEPT
                          ![r].status = StatusOf(o),
                          ![r].ref = IF o.kind \in {"new", "exact"} THEN o.ref
                                     ELSE @]
        /\ stage' = [stage EXCEPT ![w] = "noted"]
        /\ UNCHANGED <<httpVars, stored, decision, queue, task, locked,
                       streamVars, out, noteVars, faults>>

\* Mutant: a conflict is not retried.
FollowUpNoRetry(w) ==
    IF out[w].kind = "new" THEN {DecideTask(out[w].ref)} ELSE {}

\* What the task queues last: itself with one retry less, or the decision.
FollowUp(w) ==
    LET m == task[w]
    IN  IF out[w].kind = "conflict"
        THEN IF m.retries > 0
             THEN {ImportTask(m.result, m.batch, m.line, m.retries - 1)} ELSE {}
        ELSE IF out[w].kind = "new" THEN {DecideTask(out[w].ref)} ELSE {}

\* A result whose last retry met a conflict: that is logged, nothing is queued,
\* and the result stays RETRYING.
UsedUp(w) ==
    IF out[w].kind = "conflict" /\ task[w].retries = 0 THEN {task[w].result} ELSE {}

Finish(w) ==
    /\ stage[w] = "noted"
    /\ queue' = queue \cup FollowUp(w)
    /\ exhausted' = exhausted \cup UsedUp(w)
    /\ Release(w)
    /\ UNCHANGED <<httpVars, sqlVars, orphaned, distributed, reported, faults>>

\* The broker refuses that last message.
FinishFails(w) ==
    /\ stage[w] = "noted"
    /\ FollowUp(w) # {}
    /\ Fault("call")
    /\ Raise(w)

\* process_reference_duplicate_decision, which Deduplication models, ends
\* with a decision that is not PENDING any more.
Decide(m) ==
    /\ m.task = "decide"
    /\ queue' = queue \ {m}
    /\ decision' = [decision EXCEPT ![m.ref].det = "DECIDED"]
    /\ UNCHANGED <<httpVars, results, stored, stage, task, locked, streamVars,
                   out, noteVars, faults>>

-----------------------------------------------------------------------------
(* Faults of workers *)

\* The worker dies; a task whose lock it held is delivered again.
Crash(w) ==
    /\ stage[w] # "idle"
    /\ Fault("crash")
    /\ queue' = IF locked[w] THEN queue \cup {task[w]} ELSE queue
    /\ orphaned' = orphaned \cup Carried(w)
    /\ Release(w)
    /\ UNCHANGED <<httpVars, sqlVars, distributed, reported, exhausted>>

\* The lock ends while the task runs, which goes on beside the next delivery.
\* An import task does not renew its lock; a distribution does, until renewal
\* has failed twice or has lasted for max_lock_renewal_duration.
LoseLock(w) ==
    /\ stage[w] # "idle" /\ locked[w]
    /\ Fault(IF task[w].task = "distribute" THEN "renewal" ELSE "lock")
    /\ queue' = queue \cup {task[w]}
    /\ locked' = [locked EXCEPT ![w] = FALSE]
    /\ UNCHANGED <<httpVars, sqlVars, stage, task, streamVars, out, noteVars>>

-----------------------------------------------------------------------------
ImporterStep(b) ==
    \/ CreateRecord(b)
    \/ EnqueueBatch(b)
    \/ FinaliseRecord(b)
    \/ Poll(b)

StreamStep(w) ==
    \/ SkipLine(w)
    \/ QueueLine(w)
    \/ QueueLineTooLarge(w)
    \/ CommitLine(w)
    \/ EndOfFile(w)

ImportStep(w) ==
    \/ WaitExpires(w)
    \/ LoadResult(w)
    \/ SkipProcessed(w)
    \/ MarkStarted(w)
    \/ Reject(w)
    \/ Ingest(w)
    \/ CommitIngest(w)
    \/ NoteOutcome(w)
    \/ Finish(w)

TaskStep ==
    \E m \in queue : \/ Decide(m)
                     \/ \E w \in Worker : \/ StartDistributing(w, m)
                                          \/ StartImporting(w, m)

Progress ==
    \/ \E b \in Batch : ImporterStep(b)
    \/ TaskStep
    \/ \E w \in Worker : StreamStep(w) \/ ImportStep(w)

FaultStep ==
    \/ \E b \in Batch : EnqueueBatchFails(b)
    \/ \E w \in Worker :
          \/ BadStatus(w)
          \/ TransportError(w)
          \/ QueueLineFails(w)
          \/ CommitLineFails(w)
          \/ Conflict(w)
          \/ IngestFails(w)
          \/ FinishFails(w)
          \/ Crash(w)
          \/ LoseLock(w)

Next == Progress \/ FaultStep

Spec == Init /\ [][Next]_vars

\* Workers and importers that can go on do; faults need not happen.
FairSpec == Spec /\ WF_vars(Progress)

-----------------------------------------------------------------------------
(* Properties *)

ResultsFor(b, l) ==
    {r \in ResultId : /\ results[r].status # "ABSENT"
                      /\ results[r].batch = b
                      /\ results[r].line = l}

\* No distribution was delivered again.
DeliveredOnce == faults.crash = 0 /\ faults.renewal = 0

\* A file streamed to its end has a result for every line that is not blank,
\* and reconnections do not queue a line twice: only a distribution that is
\* delivered again, after a crash or with its lock lost, can
\* (distribute_import_batch, last_processed_line).
EachLineOnce ==
    \A b \in Batch : \A l \in 1..Len(Lines[b]) :
        /\ b \in distributed /\ Lines[b][l].kind # "blank"
              => ResultsFor(b, l) # {}
        /\ DeliveredOnce => \A r, s \in ResultsFor(b, l) : r = s

\* The stored reference that stands for reference id x.
StandsFor(x) == IF IsStored(x) THEN x ELSE decision[x].canon

\* What a result reports as imported can be found: the reference it names is
\* stored, or is an exact duplicate of a stored one, and that one holds the
\* line's identifiers (all of the line, if the result is COMPLETED).
\* Redelivered and retried tasks included.
ImportedIsStored ==
    \A r \in ResultId :
        LET x == results[r].ref
            e == Lines[results[r].batch][results[r].line]
        IN  results[r].status \in {"COMPLETED", "PARTIALLY_FAILED"} =>
              /\ x # NoRef
              /\ StandsFor(x) # NoRef
              /\ IsStored(StandsFor(x))
              /\ IsSuperset(stored[StandsFor(x)], Kept(e, e.extras))
              /\ results[r].status = "COMPLETED"
                   => IsSuperset(stored[StandsFor(x)], Content(e))

Settled(b, l) == \E r \in ResultsFor(b, l) : results[r].status \in Processed

\* An exception was raised for a result of the line, or its retries are used up.
GivenUp(b, l) == ResultsFor(b, l) \cap (reported \cup exhausted) # {}

AllSettled(b) ==
    \A l \in 1..Len(Lines[b]) :
        Lines[b][l].kind # "blank" => Settled(b, l) \/ GivenUp(b, l)

\* Every line of a registered batch gets an import result that is processed,
\* or for which an exception was raised or no retries were left, whether a
\* worker crashes, a lock is lost, the file or its import is delivered again or
\* a conflict is retried, unless the distribution raised an exception
\* (distribute_import_batch and import_reference).  A result without retries
\* left is not settled: it stays RETRYING, though it is logged as failed.
EveryLineSettles ==
    \A b \in Batch :
        importer[b] = "registered" ~> AllSettled(b) \/ b \in reported

=============================================================================
