# Verification of the DESTINY repository

TLA+ specifications of the DESTINY repository (`src/`): the API and its workers,
the stores they share, the SDK and utilities that call them, and the web page.
The modules keep the control of the code (guards, order, error paths, what is
read before and written after another process runs) and abstract its data. TLC
checks them on small instances; TLAPS proves the most important safety
properties for every value of the constants.

| Module | What it models | Checked by |
| --- | --- | --- |
| `Deduplication` | duplicate decisions: registration, the queue task, the manual endpoint, the search projection | `dedup`, `dedup_concurrent`, `dedup_chain`; `DeduplicationProofs`, `SerialProofs`, `SearchIndexProofs` |
| `Projections` | what readers get of a reference: its search document and its exported record | `dedup` |
| `PendingEnhancements` | enhancement requests, robot batches, leases, expiry and retries, result import, search scans | `enh`, `enh_live`, `enh_late_result`; `EnhancementProofs` |
| `ResultFile` | the reading of a robot's result file, line by line | `enh` |
| `Automations` | robot automations: the percolator index, matching, dispatch, repair | `enh` |
| `StaticEnhancements` | the utility that adds a list of enhancements as a robot | `enh` |
| `Imports` | import records and batches, distribution of a file, import of a line, batch status | `imports`; `ImportProofs` |
| `TaskQueue` | the at-least-once queue that tasks rely on (abstract) | implemented by `Broker` |
| `Broker` | the Azure Service Bus broker of a worker process | `broker`; `BrokerProofs` |
| `Exports` | export jobs | `exports`; `ExportProofs` |
| `Sessions` | credentials of SDK clients and robots, validators, key caches, administration of robots | `sessions`, `sessions_update`; `SessionProofs` |
| `Indices` | indices behind an alias: migration, rollback, deletion, rebuild, repair | `services` |
| `Search` | scans, pages, facets and cross tabulations over the reference index | `services` |
| `Blobs` | blob clients, copies of full texts, line reading, signed URLs | `services` |
| `Vocabulary` | vocabulary caches, derived scheme maps | `services` |
| `Assessments` | assessment of possible duplicates and its record | `services` |
| `WebPage` | the references page of the web interface and its session | `services` |
| `Migration` | the utility that copies references between deployments | `services` |

`MC*` modules give constants their values. `MCDecisions`, `MCBatches` and
`MCImports` bound the steps of one instance of `Deduplication`,
`PendingEnhancements` and `Imports` to several deployments or files; they, `MCEnhancements` (with
`MCRobots`) and `MCServices` (with `MCClients` and `MCIndices`) hold several
deployments or services: a behaviour chooses one in its initial state, and the
variables that are not that one's stay empty. This asks several questions of the
code in one run; it adds no interaction between the parts.

Run one with `tlc -config dedup.cfg MCDecisions` (the module of each run is in
`PROJECT.json`); check proofs with `tlapm BrokerProofs.tla`. `PROJECT.json` maps
definitions to the lines they model and lists components, runs, mutants,
hazards, findings and theorems.

## 1. The system

The application is a FastAPI service plus taskiq workers. Both use PostgreSQL at
READ COMMITTED (`persistence/sql`), Elasticsearch for search and percolation
(`persistence/es`), a blob store (`persistence/blob`), and Azure Service Bus for
tasks (`core/azure_service_bus_broker.py`): at-least-once delivery, acknowledged
after execution, locks renewed only for tasks queued as long-running. A unit of
work (`persistence/uow.py`) commits SQL when its block ends; Elasticsearch writes
made inside it are not rolled back. Handlers and tasks share state only through
these stores.

How the parts interact. A route or an import line stores rows and then enqueues
a task: two steps, so the second can be lost. A task reads and writes rows in one
or more units of work, writes Elasticsearch, and may enqueue further tasks. An
import (`Imports`) stores a reference with a PENDING decision and queues its
processing (`Deduplication`). A decision that becomes active projects documents
(`Projections` says what they hold) and is matched against automations (`Automations`), which ask robots for
enhancements. A robot polls for them over HTTP (`PendingEnhancements`; one such
robot is the utility of `StaticEnhancements`), signs its calls (`Sessions`) and
uploads a result file (`ResultFile`), whose import stores enhancements, indexes
references and triggers automations again. Searches (`Search`) read the index
that `Indices` maintains; exports (`Exports`) stream what a search or a list
names into a blob (`Blobs`), whose signed URL another deployment imports
(`Migration`, `Imports`). Jobs on a schedule expire leases.

Composition in the modules: `Broker` implements `TaskQueue` (refinement, checked
and proved), and `Exports` and `Indices` take the steps of their queues from
`TaskQueue`. `Deduplication`, `PendingEnhancements` and `Imports` have queues of
their own that do the same (a message waits, is locked, comes back when a worker
dies or the lock ends), written out because their workers' steps depend on what
the message holds.

Fault models. Workers die at any step and their messages come back; locks end
under a running task; enqueues after a commit are lost; index, blob, identity
provider and vocabulary calls fail; index writes are seen only after a refresh;
leases, tokens, keys and URLs expire. Faults are bounded by constants:
`MaxCrashes` and `MaxLockLosses` each bound one kind, `MaxFaults` bounds all the
faults of its module together. The bounds are one or two: every property below is
about what one process does while another one fails or overtakes it, which one
fault shows. Time is not counted. A lock that ends stands for a renewal that
failed twice and for one that has lasted `max_lock_renewal_duration` (three
hours); a delivery after either is a delivery beside the first.

## 2. Duplicate decisions

### State and actions

`decisions` is the committed table; `writes[w]` the uncommitted rows of process
`w`, `View(w)` what it reads. `queue` and `locked` are the broker, `es` the
documents. A process goes through `stage`s; between two stages any other process
may run, which is where the code awaits a query.

| Action | Code |
| --- | --- |
| `Import`, `Invoke`, `InvokeUnqueued` | `ingest_reference` with `register_pending_import_decision`; `invoke_deduplication_for_references`, and its enqueue failing after the commit |
| `Deliver`, `SkipProcessed` | the task's PENDING check, in a transaction of its own |
| `Shortcut`, `GuardUndecided`, `MapProxied`, `AllMapped` | `shortcut_deduplication_using_identifiers` and the decisions it proxies for undecided matches |
| `CandidateSearch`, `SearchError` | nomination from Elasticsearch and identifiers, or its failure |
| `MapRejected`, `MapDecision` | the checks and the DECOUPLED outcomes of `map_duplicate_decision` |
| `WriteDecision`, `WriteCollision`, `DeadlockVictim` | the flush: row locks, the unique index over active rows, `merge`, the requeue with one retry less |
| `Project`, `ProjectionDiverges`, `Commit` | `sql_to_es` inside the transaction, and the commit |
| `ManualDecision` | one more decision of the manual endpoint's request |
| `Crash`, `LoseLock` | a process dies; the broker's lock of a running task ends |

Abstractions. A write replaces a row instead of its changed columns. When a
retained decision is merged back, the outcome is a nondeterministic choice of
collision and no-op. The locks of one flush are taken together; a process that
would wait is blocked, and `DeadlockVictim` cancels one of a cycle. The documents
a transaction writes are written in one `Project` step. A crash between commit
and acknowledgement is covered by a lock lost before `Commit`. EXACT_DUPLICATE
rows belong to references that are never stored and are left to the import model.
The deep-deduplication result is discarded by the task. Identifier tables are
constants; candidate scoring is a nondeterministic choice among the hits.
`Decision` bounds a behaviour, `ReservedIds` keeps ids for the decisions workers
create, so that a request cannot starve them of ids the database would have.

### Runs

| Run | Instance | Shows |
| --- | --- | --- |
| `dedup`, serial | 3 references, one sharing an identifier with each of the others, 1 worker, 1 handler, 6 decisions, transactions one at a time | `NoChaining` after any sequence of automatic and manual decisions; `OneTreePerIdentifier`: canonicals the system made never share a trusted identifier, in whichever order they arrive or are processed again; `CommitIsIndexed` (as `SerialCommitIsIndexed`, of this deployment): a commit leaves the documents it affects, including the canonical a duplicate was moved from, up to date |
| `dedup`, manual | worker and handler overlapping, a crash, a lost lock | `DecidedOnce` with a single worker |
| `dedup`, read | 3 references, 3 enhancements, 4 events | `ReadersAgree` (below) |
| `dedup_concurrent` | 3 references, one without a trusted identifier, 2 workers, 1 handler, a retry, a crash, a lost lock | `OneActiveDecision`, `PersonDecisionKept` and, under fairness, `EveryTaskSettles` |
| `dedup_chain` (violated) | 2 handlers | two overlapping manual requests make two canonicals duplicates of each other: `has_duplicates` and the canonical's state are read without a lock, against "duplicates point to canonicals, no chaining" (`models/sql.py:132`) |

`OneTreePerIdentifier` is promised without overlap: imports that overlap break it
for the reason `dedup_chain` shows, reads that are stale when the row is written.
With two workers and a lost lock TLC also refutes `DecidedOnce`: both deliveries
pass the check that `tasks.py:427` calls "safely idempotent", and the second
decides again. A manual request whose second decision is rejected leaves the
documents of its first one in the index, since they are written before the
commit.
Three references are the least that make a bridge, or a tree that is re-rooted
under another; two processes are the least that overlap, and every property
about overlap speaks of two transactions.

Fairness. Strong fairness of each worker's steps and of each handler's
transaction: the processes run on, and PostgreSQL grants contended locks in queue
order, so a transaction that is unblocked again and again gets to write. Requests
and faults are never owed. `CHECK_DEADLOCK FALSE`: with no requests left the
system may rest.

`CommitIsIndexed` has a second limit, besides overlap, that its proof brought to
light. `map_duplicate_decision` treats a duplicate that turns canonical or moves as
leaving its canonical, but not one that turns UNSEARCHABLE
(`deduplication_service.py:744-767`), and only the manual endpoint projects the
canonical that was left (`service.py:1693-1712`). With `TestEnv`, a candidate
found by search makes a duplicate of a reference without trusted identifiers;
invoked again when no candidate is found for it, and not searchable itself, it
turns UNSEARCHABLE (`deduplication_service.py:613-630`), and the document of its old
canonical keeps its data. TLC finds this in 21 steps
without any overlap when the references have no trusted identifier; the references
of the serial `dedup` deployment all have one. Outside `Environment.TEST` it cannot
happen: this is the theorem `SerialIndexed`.

### Proofs

`DeduplicationProofs` proves `Spec => []TypeOK` and `Spec => []OneActiveDecision`.
`OneActiveDecision` is not inductive: a commit installs rows another state
checked. `IInv` adds what the index guarantees before the commit: each
transaction's view has at most one active row per reference (`ViewsHaveOne`) and
no two transactions hold active rows of one reference (`ActiveApart`), the second
having waited. `TaskHeld`, `PlanMade`, `RowsSound`, `OldDecided` and
`TasksStored` say that plans, rows and tasks are about stored references and
decided rows, which the steps need to be typed.

It also proves `Spec => PersonDecisionKept`. `AuthInv`: committed, uncommitted and
planned versions of a decision agree on its authority (`AuthAgree`), workers hold
tasks of, and write, rows of the system only (`TaskSystem`, `WorkerWritesSystem`),
and what a worker deactivates was read as the system's (`OldSystem`).

What is false of overlapping transactions is proved where they do not overlap, for
any references, identifiers, workers, handlers, crashes, retries and lost locks.
`OneTask` says that at most one worker runs a task (handlers may run beside it),
`OneBusy` that at most one process is in a transaction. Both are hypotheses about
the schedule: `Spec /\ []OneTask => ...`. `dedup_chain` and the remarks on
`dedup` above show that they are needed.

| Theorem | Hypothesis | Property | Inductive invariant |
| --- | --- | --- | --- |
| `TasksDecideOnce`, `OneWorkerDecidesOnce` | `OneTask`; or a single worker | `DecidedOnce` | `RowsInv` (always true), `TaskPending` |
| `SerialNoChaining` | `OneBusy` | `NoChaining` | `TerminalInv` (always true), `StarInv` |
| `SerialOneTree` | `OneBusy` | `OneTreePerIdentifier` | `TreeInv` |
| `SerialIndexed` | `OneBusy`, not `TestEnv` | `CommitIsIndexed` | `IndexInv` |

`RowsInv`: rows written by two transactions are apart (`LocksApart`), a plan's row
is the worker's own decision or under an id nobody else uses (`PlanFresh`), and an
uncommitted row is new, the worker's own, or leaves what was decided as it was
(`WritesFaithful`). With one task at a time the own decision is still PENDING
(`TaskPending`), so no commit decides a decision again.

`StarInv`: in the table and in every transaction's view, an active duplicate points
at an active reference that is not a duplicate (`Star`), and what a transaction
read for its plan (the active decision, that the canonical is canonical, that the
reference has no duplicates) is what it still sees when it writes (`PlanRead`).
The last is what overlap breaks. It needs `TerminalInv`: what is active is
DUPLICATE, CANONICAL or UNSEARCHABLE, and has a canonical exactly when it is a
duplicate.

`TreeInv`: no two system canonicals of a table share a trusted identifier, and a
worker about to make a reference canonical sees no canonical match of it
(`PlanAlone`); every row is of a stored reference (`AllImported`), so the
shortcut's lookup of matches misses none.

`IndexInv`: what a transaction has changed in the projection of a reference is in
the index, or is visited from the references it still has to project
(`IndexOwed`); a worker never moves a duplicate away from its canonical
(`PlanLeaves`), because the system's duplicates have a trusted identifier and what
is found UNSEARCHABLE has none (`TrustInv`). That `sql_to_es` stops at the
canonical, and writes the expected document of all it visits, is
`ProjectionInStar`; the recursion of `Visit` is handled by the least hop that
would differ (`VisitStar`). The references are assumed finite
(`FiniteReferences`).

### What readers get: `Projections`

`Add` commits an enhancement to a reference and `Decide` a decision; both are
followed by `sql_to_es`, one step with the change. `Synchronized` computes the
documents from the enhancements of a tree: `_priority_sorted_enhancements`
(`PrioritySorted`), the bibliographic fields, the annotations that survive of each
source and scheme, the inclusion score, and the concepts, countries and regions
of linked data. `RisRecord` is the record that an export writes, from duplicates
loaded in any order.

`ReadersAgree` compares both with definitions that do not sort: a field is what
the newest enhancement of the canonical reference that has it says, or else the
newest of a duplicate; an annotation its source no longer makes is gone; duplicates
have no document; the export agrees with the index and keeps the canonical's DOI.
Three references are a canonical with two duplicates, or two trees a duplicate is
moved between; three enhancements are what a priority, a tie-breaker and a stale
value need. Two enhancements never have the same `created_at`; labels have no
surrounding white space; page ranges are left out. The comment on
`annotations` in `es.py` gives `inclusion:destiny` as an annotation without a
label; the code always writes scheme and label.

## 3. Pending enhancements

### State and actions

`rows` is the `pending_enhancement` table in the order of `created_at`, `robotOf`
the batches, `lapsed` the batches whose `expires_at` has passed (the rows of a
batch share one). `call` and `task` are what handlers and workers hold between
two of their steps; `imports` and `scans` are broker messages. `stored` counts how
often the answer to a row was added to its reference, `indexed` which answers the
documents hold.

| Action | Code |
| --- | --- |
| `RequestList`, `RequestSearch`, `QueueScan`, `QueueScanFails` | the request routes; the insert skips conflicts with the unique index over (request, reference) of rows that are not retries |
| `Claim`, `ClaimCommit`, `ClaimFails` | `claim_and_create_robot_enhancement_batch`: SELECT ... FOR UPDATE SKIP LOCKED, one row per reference, commit or rollback |
| `Lapse`, `Renew`, `Expire` | time; lease renewal; the minutely expiry job with its retries |
| `AcceptCheck`, `AcceptWrite`, `QueueImport`, `RejectCheck`, `RejectWrite` | `fulfill_robot_enhancement_batch`: the guard reads, the update writes by id, the message follows the commit |
| `TakeScan`, `ScanPage`, `ScanEnds` | the search task, one transaction per page |
| `TakeImport`, `ReadResults`, `CommitResults`, `AbortImport` | the import task up to its commit, or its exception handler |
| `CheckStatus`, `WriteStatus` | each of the task's status updates: FAILED, DISCARDED, INDEXING, then COMPLETED or INDEXING_FAILED |
| `Index`, `IndexFails`, `Automate`, `Finish` | indexing, automations, acknowledgement |
| `EnqueueLost`, `Crash`, `LoseLock` | a message lost after a commit, a worker dying, a lock whose renewal failed |

Abstractions. What a robot answers for a row is a choice of added, discarded
(already on the reference) or failed. The guard and the update of
`bulk_update` are two steps because the read locks nothing; a claim's read, guard
and lock are one. The expiry job is one step over any nonempty set of lapsed rows
up to its limit, since it skips locked rows. References exist in SQL; missing
references, the total count of a search and dry runs change no row. A matched
automation adds at most one row per robot and reference. Indexing a duplicate's
reference goes to its canonical's document, which `Deduplication` models.
`MaxRows` and `MaxBatches` are bounds of the model; `ClaimLimit`, `ExpireLimit`
and `MaxRetryCount` are settings of the code.

### Runs

| Run | Instance | Shows |
| --- | --- | --- |
| `enh`, leases | 2 references, 2 handlers of one robot, 5 rows, 3 batches, 1 retry | `ExpiredReplaced`: an expired row is replaced exactly once while retries are left, never after |
| `enh`, import | 2 references, 2 robots, 1 handler, 1 worker, one crash, lost enqueue or lost lock | `SearchCovered`: a completed search requested every match once, whatever was cut short or repeated; `CompletedIsSearchable`: the answer of a COMPLETED row is on its reference, once, and in the index |
| `enh_live` | three deployments (`MCBatches`), fairness: 1 row, 2 batches, 2 handlers, 1 worker, a crash, a lost enqueue or a lost lock; 1 row, 2 workers, 2 handlers or a lost lock, leases that last; 2 rows that may share a batch, 1 handler, 1 worker, a lost lock | `ClaimedOnce`: a row never changes its batch; `NoRowIsStuck`: a row of an accepted batch does not stay IMPORTING or INDEXING, unless something crashed or the batch has other rows and is worked on twice at once; and a lapsed row does not stay PROCESSING unless renewed, whatever crashed |
| `enh_late_result` (violated) | 1 handler | results checked just before the lease ends are written after the expiry job: an EXPIRED row becomes IMPORTING while its retry is PENDING, though EXPIRED is terminal (`models.py:1619`) and late results are to be rejected (`requesting-batch-enhancements.rst:139`) |

The questions are split because their state multiplies: leases need rows and
handlers but no worker; imports need a worker, two robots (automations) and
faults but no long chain of retries; liveness needs handlers that overlap, workers
that overlap and rows that share a batch, but not together. Five rows are two originals, their retries and one to spare. Symmetry over
references, robots and handlers is used for the safety run only. In `enh_live`
there is no retry and one robot, because an insert that meets `MaxRows` would
block the expiry job or an automation, which the database would not.

The limits of these properties were met, not guessed. With two workers and one
lost lock TLC refutes that answers are stored once: `_add_enhancement` reads the
reference without a lock, so two deliveries side by side both add. `NoRowIsStuck`
has two exceptions, because TLC refutes it without either. After a crash: the
worker dies between two status updates, the guard of the redelivered task raises
on the rows already moved, and the rest stay as they are; a lost enqueue leaves a
batch IMPORTING. And where two workers have a batch of several rows at once, after
a lost lock: each update is one call for many rows, its guard raises for all of
them when the other worker has moved one, and neither finishes the rest
(`Overlap`; two rows, two workers and one lost lock are enough). A request whose attempts all
expired is reported RECEIVED (against `requesting-batch-enhancements.rst:28`).

Fairness is weak, per handler with a call in progress, per worker, and for the
expiry job (a cron of one minute): none of their steps waits for a lock. Robots,
requests and faults are not owed.

### Proofs

`EnhancementProofs` proves `Spec => []TypeOK` and `Spec => ClaimedOnce` for any
number of rows, batches, handlers, workers and robots. `ClaimedOnce` needs the
lock a claim holds from its SELECT to its commit: `LeaseInv` says that the rows a
claim locked are its robot's and in no batch (`ClaimHeld`), that two claims lock
different rows (`ClaimApart`), that a row in a batch is used and a robot's
(`BatchedNamed`) and that a scan has its request (`ScanNamed`). Every step but
`ClaimCommit` leaves the rows in their batches or adds rows under unused ids
(`RowsStep`); `ClaimCommit` moves only rows that are in none (`CommitRows`).

It also proves the three invariants that the `enh` run checks of
`PendingEnhancements`, for any number of faults where the run has one:

* `Spec => []SearchCovered`. `CoverInv`: two rows that are not retries are not of
  the same request and reference (`OriginalsApart`, the unique index), a scan has
  asked for every match of the pages it has passed (`ScanCovers`), and a completed
  search for all of them (`DoneCovers`), whoever completed it.
* `Spec => []Answered`: a COMPLETED row has its answer on the reference and in the
  index, with any number of workers. With one worker (`OneWorker`),
  `Spec => []CompletedIsSearchable`: it is there once. With two it may be there
  twice, as said above. `HoldInv` says of every stage of an import or a call
  what is already true of the rows it holds.
* `Spec => []ExpiredReplaced`. `RetryInv`: a row that was retried is past its lease
  (`RetryClosed`), has one retry (`RetryOnce`), and an expired row has one while its
  depth is below the limit (`RetryMade`). `Depth` is recursive over the table; the
  invariant carries that its equation has exactly one solution in the present table
  (`DepthIs`), which the new rows of an expiry extend.

### Around a batch: `ResultFile`, `Automations`, `StaticEnhancements`

`ResultFile` refines what `PendingEnhancements` takes as one step: `SkipLine`,
`ParseFailure`, `ErrorLine`, `UnfitLine` and `EnhancementLine` are the branches
of `process_robot_enhancement_batch_result` for a line, with `from_raw`'s
validation (`Refused`), the addition to a reference (`Addition`) and the
categories at the end (`FileEnds`). Other transactions commit enhancements and
decisions between two lines. `FirstLineSettles` is checked for every file of up to
three lines out of nine, for a batch of four rows on three references, one of
which does not exist.

`Automations` models `create_robot_automation` and its update (the percolator
document is written before the SQL commit, so a failed commit leaves it: `Edit`,
`EditCommits`, `EditFails`), decisions and imported answers as changes (`Decide`,
`ImportBatch`), chunked percolation (`PercolateChunk`), the merge by robot
(`Copies`) and the request (`Dispatch`), and the repair of the percolator index.
A percolated document has no raw, reference-association or linked-data
enhancements (`Excluded`), so an automation that asks for one never matches by it.
`AskedExactlyOnce`: a robot is asked for every change that an automation of it
matches, and once, though decisions move the reference between trees. It leaves
out the answering robot itself (the loop check skips only that one; longer cycles
are possible, as the documentation says) and automations edited meanwhile: a
failed edit or a repair that read a row before an edit may leave an old query in
the index. Two assumptions: percolation is enabled, and fewer automations match a
reference than the percolate search returns (`MaxHits`; the search names no size,
so Elasticsearch returns ten). A crash between the commit of an import and the
dispatch loses the requests; the code has no recovery and the model no crash.

`StaticEnhancements` models `cli/add_static_enhancements.py` with two runs that may
share a robot: loading, claiming or registering the robot, a fresh secret,
requests in chunks, polling, answering, reporting. `CompletedIsOwn`: a request
reported as completed has the run's own contents on its references. It rests on
the fresh secret, which shuts the earlier run out. A run that is interrupted
leaves rows whose references a later run may not know; that one abandons the
batch and the lease ends.


## 4. Imports

`importer` is the client, `results` the `import_result` rows, `stored` and
`decision` what the repository holds. The importer registers a record and a
batch, finalises and polls (`CreateRecord` ... `Poll`). `StartDistributing`,
`SkipLine`, `QueueLine`, `CommitLine` and `EndOfFile` stream the file,
`TransportError` reconnects and skips what was queued. `StartImporting` ...
`Ingest`, `CommitIngest`, `NoteOutcome` and `FollowUp` parse a line, look for an
exact duplicate, store the reference with its PENDING decision, write the result
and queue what follows (deduplication, or a retry after a conflict). The status of a
batch is a projection of its results.

`imports`, with two workers and one retry, has three files, one to a behaviour
(`MCImports`): two invalid lines around a blank one, with one fault of any kind; a
line too long for the broker and one with an enhancement that may fail, with one
fault and an import that collides until its retries are used up; and three
references that share an identifier, without faults. The faults are failed
calls, crashes, the lost lock of an import and the lost lock of a distribution
(`renewal`), after which two workers stream one file. Together the files have every
kind of line, a blank line between others, lines that duplicate each other, and a
connection that breaks after a line was queued; a single file with all of it
exceeds what TLC can enumerate.

`EachLineOnce`: a file streamed to its end has a result for every line that is not
blank, and two only if its distribution was delivered again (`DeliveredOnce`).
`ImportedIsStored`: the reference a result names, or the one it duplicates
exactly, is stored with what the line says. `EveryLineSettles`: every line of a
registered batch gets a processed result, or is given up: an exception was
reported for it or for its batch, or its retries are used up (`exhausted`).
Fairness is weak, of the steps of workers and importers; faults are not owed.

A line whose retries are used up stays RETRYING. The task logs "No remaining
retries for reference import, marking as failed" (`imports/tasks.py:151`) and the
setting's description speaks of retrying "before marking it as failed"
(`core/config.py:609`), but nothing is written: the status a reader sees of such a
batch never becomes terminal. `UsedUp` records these results, so that the property
does not count them as settled.

Known limits, outside the properties: a crash between the commit and the enqueue
leaves a PENDING decision that nobody processes; a distribution delivered again
queues every line again; a task
whose result row is not visible within `wait_for_pk`'s two seconds is dropped;
the result of an exact duplicate names a reference id that is never stored; the
projected status of a batch may be terminal before its file is wholly queued. The
validation of storage URLs is part of the failing registration.

## 5. Tasks and exports

`Broker` is one worker process's view of Service Bus. The listener polls the
priority queue until it is empty, then the default queue; it and every
acknowledgement share `_receive_lock`. Message locks end, renewals fail and are
registered once more, receives fail, processes restart, messages are delivered
too often and set aside. The bus and taskiq's receiver are external: a receive
returns a ready message if there is one, and taskiq takes a message only when a
slot is free.

`broker` (3 messages, 2 slots, 2 faults): `DeliversAtLeastOnce` (the
refinement of `TaskQueue`), `RenewedRunsOnce`, and `EveryMessageSettles`. Fairness
is weak for the listener, the tasks and the bus, and strong for an
acknowledgement's wait for the lock: `asyncio.Lock` serves its waiters in order.

`Exports` models the two request routes (row, then enqueue, then the error path
that fails the row), the claim, the resolution of a list or a search up to the
result window, chunks streamed to one blob, completion and failure. `exports`: a
list that names a reference twice, a search that exceeds the window, two workers,
two faults. `CompletedIsWhole`, `NotForgotten`, and, under weak
fairness of requests in progress and of workers, `EveryExportSettles`. An export
whose worker or request dies half-way is `abandoned`: the claim moves PENDING to
RUNNING once and nothing brings it back.

## 6. Sessions

A caller is an OAuth client (the Azure flows or the Keycloak flows) or a robot
that signs with its secret. `GetToken`, `Send`, `RetryExpired` and `Return` are
the SDK's middlewares; `VerifyCached`, `MissCache`, `FetchKeys` and `VerifyFetched`
the validators with their cached key sets; `Register`, `Update`, `CycleSecret` the
administration of robots. Keys are rotated, retired, or replaced under the same
id; fetches fail or return a body that is no key set.

`sessions` (two callers in three configurations, three keys, one fault): `ValidIsServed`, and `ServedAgain` under weak fairness of calls, cache
expiry and the delivery of new secrets. The assumptions: a client makes one call
at a time, a renewed token outlives its call, a provider retires a key only when
no token it signed is live, and callers keep calling. An Azure token whose key id
the cached set lacks is refused until the cache expires, and a cached error body
likewise; the properties name both. Claims about audience and issuer, and the
fallback `HybridAuth`'s docstring mentions, are not modelled. `sessions_update`
(violated): an entitlement writer's update is accepted and the row keeps the
entitlements it had, because `merge` assigns the other columns only.


## 7. Services and clients

`services` checks seven parts that share no state, one to a behaviour.

| Part | Instance | Shows |
| --- | --- | --- |
| `Indices` | 3 references, 2 of them indexed at first, 1 operator with 2 commands, 1 writer, 1 worker, 1 fault | `AliasServes`: whenever the alias names an index it names exactly one, that exists and takes writes unless a rollback led to it, and no step but a rebuild's takes it away, wherever a command stops; `MigrationCarriesOver`: when a migration ends, what a search of the old index found when its writes were blocked is in the new one; `RepairCovers`: the tiles of a repair leave no canonical reference out |
| `Search` | 3 documents, 4 starting indexes, 16 queries, 11 requests, 1 write | `ReadsAreComplete`: a scan returns each match of its point in time once, and pages of a search nobody writes to return each match once, best first; `CountsAgree`: facet buckets and cells count what a click returns |
| `Blobs` | 2 coroutines that store, read or sign | `NoClientLost`, `UrlGoodToTheEnd` |
| `Vocabulary` | 3 of 5 tasks, caches of one entry; every graph of 3 concepts | `LoaderFindsContext`: the synchronous loader finds the context another task could have evicted; `SchemesInherited`: the depth-first walk agrees with a definition by paths, on cycles too |
| `Assessments` | 2 deliveries of one assessment, 4 references, about thirty corpora, a decision or an index write meanwhile | `ProposalIsSound`, `RecordedOnce` |
| `WebPage` | 3 providers, 3 queries, 2 identifiers, 2 loads, 1 failing call | `PageIsCurrent`: the page shows the answer to what was asked last, and a token it attaches is good when it arrives |
| `Migration` | every file of up to 4 ids, chunks of 2, an expiring URL | `HandedOver` |

Two references are the least that can share or swap places, three the least with
a page boundary inside; caches and windows are so small that each is exceeded.
`Quiet` lets a part rest when there is nothing left to do, so that deadlock is
checked for the others.

What the modules assume, and what they leave outside their properties:

* `Indices`. One operator at a time; a count or reindex sees an index as of its
  last refresh. A top-up may replace a document of the new index by an older one
  with a higher Elasticsearch version; a rollback leads back to an index whose
  writes are blocked, and a migration after it fails because its destination
  exists; a rebuild that stops half-way leaves no alias. Equal messages in a
  queue are merged.
* `Search`. One request to Elasticsearch is one step; Elasticsearch may return
  any order its sort keys allow; there are no more countries than the axis holds
  (256). Reading the references of a page from SQL is not modelled. A scan
  cancelled while it closes leaves its point in time to `keep_alive`.
* `Blobs`. An upload is visible when it is complete; a closed client's calls
  raise; a request for a key takes at most `MaxLatency`, and URLs expire well
  before keys (`KeyOutlivesUrl`, which no setting enforces). A copied full text
  whose checksum is wrong stays in storage. A client made after the shutdown is
  never closed.
* `Vocabulary`. The memoised maps are never evicted (the code keeps 128). What
  SHACL validation and projection compute is left out.
* `Assessments`. The scorer is a parameter. Nothing but the candidate endpoint
  and the measurement calls this code yet. Two deliveries may write different
  payloads under one name; the later one stays.
* `WebPage`. A tab switch mounts the forms anew, which loses the query and all
  but the last identifier; the overlay keeps people off the forms while an answer
  is awaited; requests have no timeout. Turning a page asks for the neighbouring
  page number of the query in the form, edited or not. A failing configuration
  leaves the page blank.
* `Migration`. A URL is good when it is registered; a batch fetched later may
  find it expired and stays unread while the utility reports completion. An
  export that completes at the last poll is a timeout. A failure leaves the
  record open with the batches it has.

## 8. Proofs

| Module | Proves | From |
| --- | --- | --- |
| `DeduplicationProofs` | `TypeOK`, `OneActiveDecision`, `PersonDecisionKept` | `IInv`, `AuthInv` (section 2) |
| `SerialProofs` | `DecidedOnce`, `NoChaining`, `OneTreePerIdentifier`, where tasks or transactions do not overlap | `RowsInv`, `StarInv`, `TreeInv` (section 2) |
| `SearchIndexProofs` | `CommitIsIndexed`, where transactions do not overlap, outside the test environment | `IndexInv` (section 2) |
| `EnhancementProofs` | `TypeOK`, `ClaimedOnce`, `SearchCovered`, `CompletedIsSearchable` (one worker), `ExpiredReplaced` | `LeaseInv`, `CoverInv`, `HoldInv`, `RetryInv` (section 3) |
| `BrokerProofs` | `TypeOK`, `PriorityFirst`, `BodyAsSent`, `RenewedRunsOnce`, and that `Broker` implements `TaskQueue` | `BrokerInv` |
| `ExportProofs` | `TypeOK`, `OneRunner`, `NotForgotten`, `SettledStays`, `CompletedIsWhole` | `ExportInv`, `FileInv` |
| `SessionProofs` | `ValidIsServed` | `SessionInv` |
| `ImportProofs` | `ImportedIsStored`, `EachLineOnce` | `ImportInv` |

`BrokerInv`: a slot that has the lock of a message is that message's only holder
and the message is locked on the bus (`Holding`), which makes every step a step of
`TaskQueue` or a stutter; a process that passed a priority message over, once,
does not poll the default queue while that message waits (`Bypassing`); the wire and the slots carry the
body that was sent (`Carrying`); a slot that lost the lock of a long-running task
saw two failed renewals (`Renewing`).

`ExportInv`: a worker past the claim works on a RUNNING row that no other worker
claimed, and a row that is PENDING or RUNNING is carried by its request, a queued
message or a worker, or was abandoned.

`FileInv`: the only runner of an export has uploaded the lines of the first
references it resolved, in whole chunks, and a completed export has all of them.
That what is resolved names each reference once rests on lemmas about
`list(dict.fromkeys())` (`UniqueIs`, by ranking the first occurrences) and about
a page of hits; these count finite sets and need no induction of their own.

`SessionInv`: a key or secret never comes back. No token names a key its provider
has not signed with and a provider only publishes further ones, so a key set
fetched while a token was under way holds the token's key if the provider still
does (`FetchedHolds`); no signature was made with a secret its robot is yet to get
(`CredentialsExist`). What was answered right when it was answered stays right.

`ImportInv` follows ids from their first use, through retries, reconnections,
conflicts, crashes and lost locks. The tasks that name a result are about its line
before the row is committed (`PendingInv`, `MessageInv`), since a task may
overtake the commit. A reference id is written by one worker, once, and what it
was compared with was stored before and is never written again (`OutcomeInv`,
`Holds`). A streaming worker is never past the line it has committed, but for the
one it has sent (`StageInv`), so the lines up to there are covered (`CoverInv`);
and a batch is distributed once while no crash or lost lock gives its task back
(`OnceInv`, `Redelivers`). Two workers that stream one file at once keep all but the
last of these.

The assumptions are the `ASSUME`s of each component's module: null values differ from
real ones, processes are disjoint, bounds are naturals, tables are functions. The
references of exports and of `SearchIndexProofs` are finitely many; no other set need be finite. Each proof has one step per action and, under it, one per
conjunct of the invariant that the action can disturb. Leaves that need no
arithmetic or record construction cite `Zenon`, so that tlapm does not spend its
time limit on SMT first.

## 9. What is only model-checked, and what is not modelled

Only TLC, on the instances above: every liveness property (fairness is outside
the prover's reach) and every property that section 8 does not name. Of these,
`SchemesInherited`, `ReadersAgree` and `CountsAgree` depend on what recursive
definitions, folds and sorts compute. That is induction over data, and the
library's induction theorems take an operator as a parameter, which the provers
cannot instantiate. An induction can still be unfolded into an argument by the
least counterexample (`Least`), as for `Visit`, or by carrying the one solution of
a recursive equation in an invariant, as for `Depth`; for nested folds neither is
practical. The properties of section 2 that hypotheses restrict are false of
overlapping transactions. The others could be proved along the same lines as those of
section 8; that has not been done. Every property that passes fails under a mutant of a definition it
depends on; the mutants stand before the definitions they change.

Not modelled:

* telemetry, which changes no state, and the generated schema migrations;
* the translation between wire and domain objects, OpenAPI schemas, settings;
* query building of the generic SQL and Elasticsearch repositories (their
  transactions, locks and index waits are part of the components that use them);
* RDF expansion and SHACL validation, candidate scoring: computations on data
  without an interleaving;
* lookups that read references and their duplicates without changing anything;
* supersession chains of enhancements: no code sets `supersedes` yet;
* rendering in the web interface and its static pages;
* utilities that make a single call.
